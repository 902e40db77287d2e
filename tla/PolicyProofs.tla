---------------------------- MODULE PolicyProofs ----------------------------
(***************************************************************************)
(* Theorems about Policy for every plan: of any length, with any           *)
(* dependencies, in any order of listing.                                  *)
(***************************************************************************)
EXTENDS Policy, FiniteSetTheorems, WellFoundedInduction, TLAPS

(* Naturals and finite sets.                                               *)

\* A set of naturals that is not empty has a least member.
LEMMA LeastNat ==
  ASSUME NEW S, S \subseteq Nat, S # {}
  PROVE  \E m \in S : \A n \in S : m <= n
<1> DEFINE R == OpToRel(<, Nat)
<1>1. IsWellFoundedOn(R, Nat)
  BY NatLessThanWellFounded
<1>2. PICK x \in S : \A y \in S : ~ (<<y, x>> \in R)
  <2> HIDE DEF R
  <2> QED
    BY <1>1, WFMin
<1>3. \A y, z \in Nat : y < z => <<y, z>> \in R
  BY DEF OpToRel
<1> HIDE DEF R
<1>4. ASSUME NEW y \in S PROVE ~(y < x)
  BY <1>2, <1>3
<1> QED
  BY <1>4

\* Taking away a part takes away its size.
LEMMA WithoutPart ==
  ASSUME NEW S, NEW T, IsFiniteSet(S), T \subseteq S
  PROVE  /\ IsFiniteSet(T) /\ IsFiniteSet(S \ T)
         /\ Cardinality(S \ T) = Cardinality(S) - Cardinality(T)
         /\ Cardinality(S) \in Nat /\ Cardinality(T) \in Nat
         /\ Cardinality(T) = 0 <=> T = {}
         /\ Cardinality(S \ T) \in Nat
<1>1. S \intersect T = T
  OBVIOUS
<1>2. IsFiniteSet(T)
  BY FS_Subset
<1>3. IsFiniteSet(S \ T) /\ Cardinality(S \ T) = Cardinality(S) - Cardinality(T)
  BY <1>1, FS_Difference
<1>4. Cardinality(S) \in Nat /\ Cardinality(T) \in Nat /\ Cardinality(S \ T) \in Nat
  BY <1>2, <1>3, FS_CardinalityType
<1>5. Cardinality(T) = 0 <=> T = {}
  BY <1>2, FS_EmptySet
<1> QED
  BY <1>2, <1>3, <1>4, <1>5

\* A list that names each member of a set once is as long as the set is large.
LEMMA ListingSize ==
  ASSUME NEW R, NEW s \in Seq(R), \A r \in R : \E i \in DOMAIN s : s[i] = r,
         \A i, k \in DOMAIN s : s[i] = s[k] => i = k
  PROVE  IsFiniteSet(R) /\ Cardinality(R) = Len(s)
<1> DEFINE n == Len(s)
<1>1. n \in Nat /\ DOMAIN s = 1..n
  OBVIOUS
<1>2. s \in Bijection(1..n, R)
  BY <1>1 DEF Bijection, Injection, Surjection, IsInjective
<1> HIDE DEF n
<1>3. IsFiniteSet(1..n) /\ Cardinality(1..n) = n
  BY <1>1, FS_Interval
<1>4. IsFiniteSet(R) /\ Cardinality(R) = n
  BY <1>2, <1>3, FS_Bijection DEF ExistsBijection
<1> QED
  BY <1>4 DEF n

-----------------------------------------------------------------------------
(* Plans.                                                                  *)

\* by_id of an id is one of the plan's actions, with that id.
LEMMA ByIdFinds ==
  ASSUME NEW p \in Plan, NEW a \in Ids(p)
  PROVE  \E i \in Positions(p) : p.actions[i].id = a /\ ById(p, a) = p.actions[i]
BY DEF Ids, ById, Positions

\* depends_on of an action is a finite list of ids, and of ids of the plan when
\* the static checks have passed.
LEMMA DependenciesType ==
  ASSUME NEW p \in Plan, NEW a \in Ids(p)
  PROVE  /\ Dependencies(p, a) \in Seq(Names)
         /\ DOMAIN Dependencies(p, a) = 1..Len(Dependencies(p, a))
         /\ Len(Dependencies(p, a)) \in Nat
         /\ IsFiniteSet(DOMAIN Dependencies(p, a))
         /\ Cardinality(DOMAIN Dependencies(p, a)) = Len(Dependencies(p, a))
         /\ KnownDependencies(p) =>
               \A j \in DOMAIN Dependencies(p, a) : Dependencies(p, a)[j] \in Ids(p)
<1>1. PICK i \in Positions(p) : ById(p, a) = p.actions[i]
  BY ByIdFinds
<1>2. p.actions[i] \in Action
  BY DEF Plan, Positions
<1>3. Dependencies(p, a) = p.actions[i].depends_on /\ Dependencies(p, a) \in Seq(Names)
  BY <1>1, <1>2 DEF Dependencies, Action
<1>4. /\ DOMAIN Dependencies(p, a) = 1..Len(Dependencies(p, a))
      /\ Len(Dependencies(p, a)) \in Nat
  BY <1>3
<1>5. /\ IsFiniteSet(1..Len(Dependencies(p, a)))
      /\ Cardinality(1..Len(Dependencies(p, a))) = Len(Dependencies(p, a))
  <2> DEFINE n == Len(Dependencies(p, a))
  <2>1. n \in Nat
    BY <1>4
  <2> HIDE DEF n
  <2>2. IsFiniteSet(1..n) /\ Cardinality(1..n) = n
    BY <2>1, FS_Interval
  <2> QED
    BY <2>2 DEF n
<1>6. KnownDependencies(p) =>
         \A j \in DOMAIN Dependencies(p, a) : Dependencies(p, a)[j] \in Ids(p)
  BY <1>3 DEF KnownDependencies
<1> QED
  BY <1>3, <1>4, <1>5, <1>6

\* The static checks find nothing exactly if there is nothing to find.
LEMMA StaticDenialExact ==
  ASSUME NEW p \in Plan
  PROVE  /\ StaticDenial(p) \in {"none", "SCOPE_DENIED", "UNRESOLVED_REQUIREMENT",
                                 "UNAPPROVED_ASSUMPTION", "OPERATION_NOT_ALLOWED",
                                 "DUPLICATE_ACTION_ID", "UNKNOWN_DEPENDENCY"}
         /\ StaticDenial(p) = "none" <=>
               /\ p.mode = "live" => p.scope = "valid"
               /\ p.assumptions = "settled"
               /\ \A i \in Positions(p) : ~Offends(p, i)
               /\ UniqueIds(p)
               /\ KnownDependencies(p)
BY DEF StaticDenial, ActionDenial, ValueDenial

-----------------------------------------------------------------------------
(* The inductive invariant.                                                *)

\* The actions ordered before position i.
Placed(i) == {ordered[k] : k \in 1..(i - 1)}

\* The entries of b's list of dependencies that are not in S.
Waiting(p, b, S) == {j \in DOMAIN Dependencies(p, b) : Dependencies(p, b)[j] \notin S}

\* The loop is under way, or has ended.
Looped == phase \in {"ordering", "ordered"} \/ code = "ACTION_CYCLE"

\* Before the loop nothing is ordered.
BeforeLoop ==
    /\ phase = "submitted" => code = "none"
    /\ phase \in {"ordering", "ordered"} => code = "none"
    /\ phase = "denied" => code # "none"
    /\ ~Looped => ordered = <<>>

\* indegree and the queue are what they stand for.
Counts ==
    Looped =>
        /\ StaticDenial(plan) = "none"
        /\ \A b \in Ids(plan) : indegree[b] = Cardinality(Waiting(plan, b, Emitted))
        /\ ready = {b \in Ids(plan) \ Emitted : indegree[b] = 0}

\* An action is ordered when none that could come in its place is less.
Greedy ==
    \A i \in DOMAIN ordered : \A b \in Ids(plan) \ Placed(i) :
        Waiting(plan, b, Placed(i)) = {} => ordered[i] <= b

\* The loop ends when nothing is ready; the length of the order tells how.
LoopEnded ==
    /\ phase = "ordered" => ready = {} /\ Len(ordered) = Len(plan.actions)
    /\ code = "ACTION_CYCLE" =>
          phase = "denied" /\ ready = {} /\ Len(ordered) # Len(plan.actions)

OrderInv ==
    /\ PolicyTypeOK /\ BeforeLoop /\ Counts /\ Once /\ AfterDependencies
    /\ Greedy /\ LoopEnded

\* When `a` is ordered, exactly the entries that name it stop waiting.
LEMMA OneLessWaiting ==
  ASSUME NEW p \in Plan, NEW b \in Ids(p), NEW S, NEW a, a \notin S
  PROVE  /\ Mentions(p, b, a) \in Nat
         /\ Cardinality(Waiting(p, b, S)) \in Nat
         /\ Cardinality(Waiting(p, b, S)) = 0 <=> Waiting(p, b, S) = {}
         /\ Cardinality(Waiting(p, b, S \union {a})) \in Nat
         /\ Cardinality(Waiting(p, b, S \union {a}))
               = Cardinality(Waiting(p, b, S)) - Mentions(p, b, a)
         /\ Mentions(p, b, a) = 0 <=> Waiting(p, b, S \union {a}) = Waiting(p, b, S)
<1> DEFINE W == Waiting(p, b, S)
           T == {j \in DOMAIN Dependencies(p, b) : Dependencies(p, b)[j] = a}
<1>1. IsFiniteSet(DOMAIN Dependencies(p, b))
  BY DependenciesType
<1>2. IsFiniteSet(W) /\ (Cardinality(W) = 0 <=> W = {})
  BY <1>1, WithoutPart DEF Waiting
<1>3. T \subseteq W /\ Waiting(p, b, S \union {a}) = W \ T
  BY DEF Waiting
<1>4. /\ Cardinality(W \ T) = Cardinality(W) - Cardinality(T)
      /\ Cardinality(W) \in Nat /\ Cardinality(T) \in Nat /\ Cardinality(W \ T) \in Nat
      /\ Cardinality(T) = 0 <=> T = {}
  <2> HIDE DEF W, T
  <2> QED
    BY <1>2, <1>3, WithoutPart
<1>5. Mentions(p, b, a) = Cardinality(T)
  BY DEF Mentions
<1>6. T = {} <=> W \ T = W
  BY <1>3
<1> HIDE DEF T
<1> QED
  BY <1>2, <1>3, <1>4, <1>5, <1>6

\* The invariant holds of a plan that is submitted.
LEMMA OrderInvInit == PolicyInit => OrderInv
BY PlansAssumption DEF PolicyInit, OrderInv, PolicyTypeOK, BeforeLoop, Counts, Once,
   AfterDependencies, Greedy, LoopEnded, Looped

\* A denial by the static checks leaves the loop out.
LEMMA DenyKeeps == OrderInv /\ Deny => OrderInv'
<1> SUFFICES ASSUME OrderInv, Deny PROVE OrderInv'
  OBVIOUS
<1>1. StaticDenial(plan) \in {"SCOPE_DENIED", "UNRESOLVED_REQUIREMENT",
         "UNAPPROVED_ASSUMPTION", "OPERATION_NOT_ALLOWED", "DUPLICATE_ACTION_ID",
         "UNKNOWN_DEPENDENCY"}
  BY StaticDenialExact, PlansAssumption DEF Deny, OrderInv, PolicyTypeOK
<1>2. ordered = <<>> /\ code = "none"
  BY DEF Deny, OrderInv, BeforeLoop, Looped
<1>3. Emitted' = Emitted
  BY DEF Deny, Emitted
<1> QED
  BY <1>1, <1>2, <1>3 DEF Deny, OrderInv, PolicyTypeOK, BeforeLoop, Counts, Once,
     AfterDependencies, Greedy, LoopEnded, Looped

\* Before the loop every entry of every list is waiting.
LEMMA CountKeeps == OrderInv /\ CountDependencies => OrderInv'
<1> SUFFICES ASSUME OrderInv, CountDependencies PROVE OrderInv'
  OBVIOUS
<1>1. plan \in Plan /\ plan' = plan /\ ordered' = <<>> /\ ordered = <<>> /\ code' = "none"
  BY PlansAssumption DEF CountDependencies, OrderInv, PolicyTypeOK, BeforeLoop, Looped
<1>2. Emitted' = {}
  BY <1>1 DEF Emitted
<1>3. ASSUME NEW b \in Ids(plan)
      PROVE  /\ InitialDegree(plan, b) = Cardinality(Waiting(plan, b, {}))
             /\ InitialDegree(plan, b) \in Nat
  <2>1. Waiting(plan, b, {}) = DOMAIN Dependencies(plan, b)
    BY DEF Waiting
  <2> QED
    BY <1>1, <2>1, DependenciesType DEF InitialDegree
<1>4. PolicyTypeOK'
  BY <1>1, <1>3 DEF CountDependencies, OrderInv, PolicyTypeOK
<1>5. Counts'
  BY <1>1, <1>2, <1>3 DEF CountDependencies, Counts, Looped
<1> QED
  BY <1>1, <1>4, <1>5 DEF CountDependencies, OrderInv, BeforeLoop, Once,
     AfterDependencies, Greedy, LoopEnded, Looped

\* An action is ordered: the counts follow, it comes after its dependencies, and
\* nothing that could come in its place is less.
LEMMA PopKeeps ==
  ASSUME OrderInv, NEW a \in ready, Pop(a)
  PROVE  OrderInv'
<1> DEFINE n == Len(ordered)
<1>1. /\ plan \in Plan /\ plan' = plan /\ phase' = phase /\ code' = code
      /\ phase = "ordering" /\ code = "none" /\ Looped /\ Looped'
      /\ StaticDenial(plan) = "none"
      /\ ordered \in Seq(Ids(plan)) /\ n \in Nat /\ DOMAIN ordered = 1..n
      /\ indegree \in [Ids(plan) -> Nat]
  BY PlansAssumption DEF OrderInv, PolicyTypeOK, BeforeLoop, Counts, Looped, Pop
<1>2. a \in Ids(plan) /\ a \notin Emitted /\ indegree[a] = 0
  BY <1>1 DEF OrderInv, Counts
<1>3. /\ ordered' \in Seq(Ids(plan)) /\ DOMAIN ordered' = 1..(n + 1)
      /\ Len(ordered') = n + 1
      /\ ordered'[n + 1] = a /\ \A i \in 1..n : ordered'[i] = ordered[i]
  BY <1>1, <1>2 DEF Pop
<1>4. Emitted' = Emitted \union {a} /\ Emitted = {ordered[k] : k \in 1..n}
  BY <1>1, <1>3 DEF Emitted
<1>5. ASSUME NEW b \in Ids(plan)
      PROVE  /\ indegree'[b] = Cardinality(Waiting(plan, b, Emitted'))
             /\ indegree'[b] \in Nat
             /\ indegree'[b] = indegree[b] - Mentions(plan, b, a)
             /\ Mentions(plan, b, a) \in Nat
             /\ indegree[b] \in Nat
             /\ indegree[b] = 0 <=> Waiting(plan, b, Emitted) = {}
  <2>1. indegree'[b] = indegree[b] - Mentions(plan, b, a)
    BY <1>1 DEF Pop
  <2>2. indegree[b] = Cardinality(Waiting(plan, b, Emitted))
    BY <1>1 DEF OrderInv, Counts
  <2>3. /\ Mentions(plan, b, a) \in Nat
        /\ Cardinality(Waiting(plan, b, Emitted)) \in Nat
        /\ Cardinality(Waiting(plan, b, Emitted)) = 0 <=> Waiting(plan, b, Emitted) = {}
        /\ Cardinality(Waiting(plan, b, Emitted \union {a})) \in Nat
        /\ Cardinality(Waiting(plan, b, Emitted \union {a}))
              = Cardinality(Waiting(plan, b, Emitted)) - Mentions(plan, b, a)
    BY <1>1, <1>2, OneLessWaiting
  <2> QED
    BY <1>4, <2>1, <2>2, <2>3
<1>6. ASSUME NEW b \in Emitted PROVE Waiting(plan, b, Emitted) = {}
  <2>1. PICK i \in DOMAIN ordered : ordered[i] = b
    BY DEF Emitted
  <2>2. \A j \in DOMAIN Dependencies(plan, b) :
           \E k \in 1..(i - 1) : ordered[k] = Dependencies(plan, b)[j]
    BY <2>1 DEF OrderInv, AfterDependencies
  <2> QED
    BY <1>1, <1>4, <2>2 DEF Waiting
<1>7. PolicyTypeOK'
  <2>1. indegree' \in [Ids(plan) -> Nat]
    BY <1>1, <1>5 DEF Pop
  <2>2. ready' \subseteq Ids(plan)
    BY <1>1 DEF Pop, OrderInv, PolicyTypeOK
  <2> QED
    BY <1>1, <1>3, <2>1, <2>2 DEF OrderInv, PolicyTypeOK, Pop
<1>8. Counts'
  <2>1. ready = {b \in Ids(plan) \ Emitted : indegree[b] = 0}
    BY <1>1 DEF OrderInv, Counts
  <2>2. ready' = (ready \ {a}) \union {b \in Ids(plan) : BecomesReady(b, a)}
    BY <1>1 DEF Pop
  <2>3. ASSUME NEW b \in Ids(plan)
        PROVE  b \in ready' <=> b \notin Emitted' /\ indegree'[b] = 0
    <3>1. CASE Mentions(plan, b, a) = 0
      <4>1. indegree'[b] = indegree[b] /\ ~BecomesReady(b, a)
        BY <1>5, <3>1 DEF BecomesReady
      <4>2. b \in ready' <=> b \in ready /\ b # a
        BY <2>2, <4>1
      <4> QED
        BY <1>4, <2>1, <4>1, <4>2
    <3>2. CASE Mentions(plan, b, a) > 0
      <4>1. indegree[b] # 0 \/ indegree'[b] # 0
        BY <1>5, <3>2
      <4>2. indegree'[b] >= 0 /\ indegree[b] >= Mentions(plan, b, a)
        BY <1>5
      <4>3. indegree[b] # 0
        BY <1>5, <3>2, <4>2
      <4>4. b \notin Emitted /\ b # a
        BY <1>2, <1>5, <1>6, <4>3
      <4>5. BecomesReady(b, a) <=> indegree'[b] = 0
        BY <1>5, <3>2 DEF BecomesReady
      <4> QED
        BY <1>4, <2>1, <2>2, <4>3, <4>4, <4>5
    <3> QED
      BY <1>5, <3>1, <3>2
  <2>4. ready' \subseteq Ids(plan)
    BY <2>1, <2>2
  <2>5. ready' = {b \in Ids(plan) \ Emitted' : indegree'[b] = 0}
    BY <2>3, <2>4
  <2> QED
    BY <1>1, <1>5, <2>5 DEF Counts
<1>9. Once'
  <2>1. \A i \in 1..n : ordered[i] # a
    BY <1>2, <1>4
  <2>2. SUFFICES ASSUME NEW i \in 1..(n + 1), NEW k \in 1..(n + 1), ordered'[i] = ordered'[k]
                 PROVE  i = k
    BY <1>3 DEF Once
  <2>3. CASE i \in 1..n /\ k \in 1..n
    BY <1>1, <1>3, <2>2, <2>3 DEF OrderInv, Once
  <2>4. CASE i = n + 1 \/ k = n + 1
    BY <1>1, <1>3, <2>1, <2>2, <2>4
  <2> QED
    BY <1>1, <2>3, <2>4
<1>10. AfterDependencies'
  <2>1. SUFFICES ASSUME NEW i \in 1..(n + 1), NEW j \in DOMAIN Dependencies(plan, ordered'[i])
                 PROVE  \E k \in 1..(i - 1) :
                           ordered'[k] = Dependencies(plan, ordered'[i])[j]
    BY <1>1, <1>3 DEF AfterDependencies
  <2>2. CASE i \in 1..n
    <3>1. PICK k \in 1..(i - 1) : ordered[k] = Dependencies(plan, ordered[i])[j]
      BY <1>1, <1>3, <2>1, <2>2 DEF OrderInv, AfterDependencies
    <3> QED
      BY <1>1, <1>3, <2>2, <3>1
  <2>3. CASE i = n + 1
    <3>1. Dependencies(plan, a)[j] \in Emitted
      BY <1>2, <1>3, <1>5, <2>1, <2>3 DEF Waiting
    <3>2. PICK k \in 1..n : ordered[k] = Dependencies(plan, a)[j]
      BY <1>4, <3>1
    <3> QED
      BY <1>1, <1>3, <2>3, <3>2
  <2> QED
    BY <1>1, <2>2, <2>3
<1>11. Greedy'
  <2>1. \A i \in 1..n : Placed(i)' = Placed(i)
    <3>1. \A i \in 1..n : \A k \in 1..(i - 1) : ordered'[k] = ordered[k]
      BY <1>1, <1>3
    <3> QED
      BY <3>1 DEF Placed
  <2>2. ASSUME NEW i, i = n + 1 PROVE Placed(i)' = Emitted
    <3>1. i - 1 = n
      BY <1>1, <2>2
    <3>2. Placed(i)' = {ordered'[k] : k \in 1..n}
      BY <3>1 DEF Placed
    <3> QED
      BY <1>3, <1>4, <3>2
  <2>3. SUFFICES ASSUME NEW i \in 1..(n + 1), NEW b \in Ids(plan) \ Placed(i)',
                        Waiting(plan, b, Placed(i)') = {}
                 PROVE  ordered'[i] <= b
    BY <1>1, <1>3 DEF Greedy
  <2>4. CASE i \in 1..n
    BY <1>1, <1>3, <2>1, <2>3, <2>4 DEF OrderInv, Greedy
  <2>5. CASE i = n + 1
    <3>1. b \in Ids(plan) \ Emitted /\ Waiting(plan, b, Emitted) = {}
      BY <2>2, <2>3, <2>5
    <3>2. b \in ready
      BY <1>1, <1>5, <3>1 DEF OrderInv, Counts
    <3> QED
      BY <1>3, <2>5, <3>2 DEF Pop, NextUp
  <2> QED
    BY <1>1, <2>4, <2>5
<1> QED
  BY <1>1, <1>7, <1>8, <1>9, <1>10, <1>11 DEF OrderInv, BeforeLoop, LoopEnded

\* What has been ordered stays in order as long as nothing is added.
LEMMA SameOrderKeeps ==
  ASSUME OrderInv, plan' = plan, ordered' = ordered, indegree' = indegree, ready' = ready
  PROVE  /\ Looped /\ Looped' => Counts'
         /\ Once' /\ AfterDependencies' /\ Greedy'
<1>1. Emitted' = Emitted
  BY DEF Emitted
<1>2. Looped /\ Looped' => Counts'
  BY <1>1 DEF OrderInv, Counts
<1>3. Once' /\ AfterDependencies'
  BY DEF OrderInv, Once, AfterDependencies
<1>4. \A i : Placed(i)' = Placed(i)
  BY DEF Placed
<1>5. Greedy'
  BY <1>4 DEF OrderInv, Greedy
<1> QED
  BY <1>2, <1>3, <1>5

\* The loop ends: the length of the order decides.
LEMMA FinishKeeps == OrderInv /\ Finish => OrderInv'
<1> SUFFICES ASSUME OrderInv, Finish PROVE OrderInv'
  OBVIOUS
<1>1. Looped /\ code = "none"
  BY DEF Finish, Looped, OrderInv, BeforeLoop
<1>2. Looped'
  BY DEF Finish, Looped
<1>3. Counts' /\ Once' /\ AfterDependencies' /\ Greedy'
  BY <1>1, <1>2, SameOrderKeeps DEF Finish
<1>4. PolicyTypeOK'
  BY <1>1 DEF Finish, OrderInv, PolicyTypeOK
<1> QED
  BY <1>1, <1>2, <1>3, <1>4 DEF Finish, OrderInv, BeforeLoop, LoopEnded

\* Whatever the plan, the loop's state always satisfies the invariant.
LEMMA OrderInvNext == OrderInv /\ [PolicyNext]_policyVars => OrderInv'
<1> SUFFICES ASSUME OrderInv, [PolicyNext]_policyVars PROVE OrderInv'
  OBVIOUS
<1>1. CASE UNCHANGED policyVars
  <2>1. /\ plan' = plan /\ phase' = phase /\ code' = code /\ indegree' = indegree
        /\ ready' = ready /\ ordered' = ordered /\ Looped' = Looped
    BY <1>1 DEF policyVars, Looped
  <2>2. Counts' /\ Once' /\ AfterDependencies' /\ Greedy'
    BY <2>1, SameOrderKeeps DEF Counts
  <2> QED
    BY <2>1, <2>2 DEF OrderInv, PolicyTypeOK, BeforeLoop, LoopEnded
<1>2. CASE PolicyNext
  BY <1>2, DenyKeeps, CountKeeps, PopKeeps, FinishKeeps DEF PolicyNext
<1> QED
  BY <1>1, <1>2

\* The invariant holds throughout every validation.
LEMMA OrderInvariant == PolicySpec => []OrderInv
BY OrderInvInit, OrderInvNext, PTL DEF PolicySpec

-----------------------------------------------------------------------------
(* What the invariant says of the verdicts.                                *)

\* An order has as many actions as it has entries, and a plan as many ids as it
\* has actions: it is complete exactly if it is as long as the plan.
LEMMA CompleteByLength ==
  ASSUME OrderInv, Looped
  PROVE  Emitted = Ids(plan) <=> Len(ordered) = Len(plan.actions)
<1>1. plan \in Plan /\ UniqueIds(plan)
  BY PlansAssumption, StaticDenialExact DEF OrderInv, PolicyTypeOK, Counts
<1>2. ordered \in Seq(Ids(plan)) /\ plan.actions \in Seq(Action)
  BY <1>1 DEF OrderInv, PolicyTypeOK, Plan
<1>4. IsFiniteSet(Emitted) /\ Cardinality(Emitted) = Len(ordered)
  <2>1. ordered \in Seq(Emitted) /\ \A a \in Emitted : \E i \in DOMAIN ordered : ordered[i] = a
    BY <1>2 DEF Emitted
  <2>2. \A i, k \in DOMAIN ordered : ordered[i] = ordered[k] => i = k
    BY DEF OrderInv, Once
  <2> QED
    BY <2>1, <2>2, ListingSize
<1>5. IsFiniteSet(Ids(plan)) /\ Cardinality(Ids(plan)) = Len(plan.actions)
  <2> DEFINE s == [i \in Positions(plan) |-> plan.actions[i].id]
  <2>1. Len(plan.actions) \in Nat /\ Positions(plan) = 1..Len(plan.actions)
    BY <1>2 DEF Positions
  <2>2. s \in Seq(Ids(plan)) /\ Len(s) = Len(plan.actions) /\ DOMAIN s = Positions(plan)
    BY <2>1 DEF Ids
  <2>3. \A i, k \in DOMAIN s : s[i] = s[k] => i = k
    BY <1>1 DEF UniqueIds
  <2>4. \A a \in Ids(plan) : \E i \in DOMAIN s : s[i] = a
    BY DEF Ids
  <2> HIDE DEF s
  <2> QED
    BY <2>2, <2>3, <2>4, ListingSize
<1>6. Emitted \subseteq Ids(plan)
  BY <1>2 DEF Emitted
<1>7. Cardinality(Emitted) = Cardinality(Ids(plan)) => Ids(plan) \ Emitted = {}
  <2>1. Cardinality(Ids(plan) \ Emitted) = Cardinality(Ids(plan)) - Cardinality(Emitted)
        /\ IsFiniteSet(Ids(plan) \ Emitted) /\ Cardinality(Ids(plan)) \in Nat
    BY <1>5, <1>6, WithoutPart
  <2> QED
    BY <2>1, FS_EmptySet
<1> QED
  BY <1>4, <1>5, <1>6, <1>7

\* A denial names a real cycle: those that are left wait for each other; and an
\* order leaves room for none: its first member would come after another.
LEMMA VerdictOfInv == OrderInv => CycleVerdictExact
<1> SUFFICES ASSUME OrderInv PROVE CycleVerdictExact
  OBVIOUS
<1>1. plan \in Plan /\ ordered \in Seq(Ids(plan)) /\ Emitted \subseteq Ids(plan)
  BY PlansAssumption DEF OrderInv, PolicyTypeOK, Emitted
<1>2. ASSUME code = "ACTION_CYCLE" PROVE Cyclic(plan)
  <2> DEFINE S == Ids(plan) \ Emitted
  <2>1. Looped /\ ready = {} /\ Len(ordered) # Len(plan.actions)
    BY <1>2 DEF Looped, OrderInv, LoopEnded
  <2>2. S # {}
    BY <1>1, <2>1, CompleteByLength
  <2>3. KnownDependencies(plan)
    BY <1>1, <2>1, StaticDenialExact DEF OrderInv, Counts
  <2>4. ASSUME NEW a \in S
        PROVE  \E j \in DOMAIN Dependencies(plan, a) : Dependencies(plan, a)[j] \in S
    <3>1. Cardinality(Waiting(plan, a, Emitted)) # 0
      BY <2>1 DEF OrderInv, Counts
    <3>2. Waiting(plan, a, Emitted) # {}
      BY <3>1, FS_EmptySet
    <3>3. PICK j \in DOMAIN Dependencies(plan, a) : Dependencies(plan, a)[j] \notin Emitted
      BY <3>2 DEF Waiting
    <3> QED
      BY <1>1, <2>3, <3>3, DependenciesType
  <2>5. Knot(plan, S)
    BY <2>2, <2>4 DEF Knot
  <2> QED
    BY <2>5 DEF Cyclic
<1>3. ASSUME phase = "ordered" PROVE Emitted = Ids(plan)
  BY <1>3, CompleteByLength DEF OrderInv, LoopEnded, Looped
<1>4. ASSUME phase = "ordered", NEW S \in SUBSET Ids(plan), Knot(plan, S) PROVE FALSE
  <2> DEFINE P == {i \in DOMAIN ordered : ordered[i] \in S}
  <2>1. P # {} /\ P \subseteq Nat
    BY <1>1, <1>3, <1>4 DEF Knot, Emitted
  <2>2. PICK m \in P : \A i \in P : m <= i
    BY <2>1, LeastNat
  <2>3. PICK j \in DOMAIN Dependencies(plan, ordered[m]) :
           Dependencies(plan, ordered[m])[j] \in S
    BY <1>4, <2>2 DEF Knot
  <2>4. PICK k \in 1..(m - 1) : ordered[k] = Dependencies(plan, ordered[m])[j]
    BY <2>2, <2>3 DEF OrderInv, AfterDependencies
  <2>5. k \in P /\ k < m
    BY <1>1, <2>2, <2>3, <2>4
  <2> QED
    BY <1>1, <2>1, <2>2, <2>5
<1> QED
  BY <1>2, <1>3, <1>4 DEF CycleVerdictExact, Cyclic, OrderInv, Once

\* Where another safe order differs first, its action could have come, and so is
\* greater.
LEMMA CanonicalOfInv == OrderInv => OrderIsCanonical
<1> SUFFICES ASSUME OrderInv, phase = "ordered",
                    NEW s \in [1..Len(plan.actions) -> Ids(plan)],
                    Topological(plan, s), s # ordered,
                    \A i, k \in DOMAIN s : s[i] = s[k] => i = k
             PROVE  Before(ordered, s)
  BY DEF OrderIsCanonical
<1> DEFINE n == Len(plan.actions)
           D == {k \in 1..n : s[k] # ordered[k]}
<1>1. /\ plan \in Plan /\ ordered \in Seq(Ids(plan)) /\ Len(ordered) = n /\ n \in Nat
      /\ DOMAIN ordered = 1..n
  BY PlansAssumption DEF OrderInv, PolicyTypeOK, LoopEnded
<1>2. ordered = [i \in 1..n |-> ordered[i]] /\ s = [i \in 1..n |-> s[i]]
  BY <1>1
<1>3. D # {} /\ D \subseteq Nat
  BY <1>2
<1>4. PICK m \in D : \A k \in D : m <= k
  BY <1>3, LeastNat
<1>5. m \in 1..n /\ s[m] # ordered[m] /\ \A h \in 1..(m - 1) : s[h] = ordered[h]
  BY <1>1, <1>4
<1>6. Placed(m) = {s[h] : h \in 1..(m - 1)}
  BY <1>5 DEF Placed
<1>7. s[m] \in Ids(plan) \ Placed(m)
  BY <1>1, <1>5, <1>6
<1>8. Waiting(plan, s[m], Placed(m)) = {}
  BY <1>5, <1>6 DEF Waiting, Topological
<1>9. ordered[m] <= s[m]
  BY <1>1, <1>5, <1>7, <1>8 DEF OrderInv, Greedy
<1>10. Ids(plan) \subseteq Int
  <2>1. \A i \in Positions(plan) : plan.actions[i].id \in Names
    <3>1. plan.actions \in Seq(Action)
      BY <1>1 DEF Plan
    <3>2. \A i \in Positions(plan) : plan.actions[i] \in Action
      BY <3>1 DEF Positions
    <3> QED
      BY <3>2 DEF Action
  <2> QED
    BY <2>1, NamesAssumption DEF Ids
<1>11. ordered[m] < s[m]
  BY <1>1, <1>5, <1>9, <1>10
<1> QED
  BY <1>1, <1>5, <1>11 DEF Before

-----------------------------------------------------------------------------
\* Every variable of the validation keeps its type; no count falls below zero.
THEOREM ValidationTyped == PolicySpec => []PolicyTypeOK
BY OrderInvariant, PTL DEF OrderInv

\* The loop never orders an action twice, nor before one it depends on, however
\* often it lists it (policy.py, the loop over the queue).
THEOREM DependenciesFirst == PolicySpec => []OrderRespectsDependencies
BY OrderInvariant, PTL DEF OrderInv, OrderRespectsDependencies

\* Exactly the plans with a cycle are denied for it; the others are ordered
\* whole, in the least of all their dependency-safe orders.
THEOREM VerdictExact == PolicySpec => []PolicyExact
<1>1. OrderInv => PolicyExact
  BY VerdictOfInv, CanonicalOfInv DEF PolicyExact
<1> QED
  BY <1>1, OrderInvariant, PTL

=============================================================================
