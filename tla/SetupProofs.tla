---------------------------- MODULE SetupProofs ----------------------------
(***************************************************************************)
(* Theorems about Setup for every set of host directories, every file      *)
(* system the first script may find, and every number of runs and errors.  *)
(***************************************************************************)
EXTENDS Setup, Integers, TLAPS

USE HomesAssumption, BoundsAssumption

(* Sequences.                                                              *)

Elems(s)     == {s[i] : i \in DOMAIN s}
Injective(s) == \A i, k \in DOMAIN s : s[i] = s[k] => i = k

\* What is left of a sequence without its first element.
LEMMA TailOf ==
  ASSUME NEW T, NEW s \in Seq(T), s # <<>>
  PROVE  /\ Len(s) \in Nat /\ Len(s) >= 1 /\ DOMAIN s = 1..Len(s)
         /\ Head(s) = s[1] /\ Head(s) \in T
         /\ Tail(s) \in Seq(T) /\ DOMAIN Tail(s) = 1..(Len(s) - 1)
         /\ \A i \in 1..(Len(s) - 1) : Tail(s)[i] = s[i + 1]
         /\ Elems(Tail(s)) \subseteq Elems(s)
<1>1. /\ Len(s) \in Nat /\ Len(s) >= 1 /\ DOMAIN s = 1..Len(s)
      /\ Head(s) = s[1] /\ Head(s) \in T
      /\ Tail(s) \in Seq(T) /\ DOMAIN Tail(s) = 1..(Len(s) - 1)
      /\ \A i \in 1..(Len(s) - 1) : Tail(s)[i] = s[i + 1]
  OBVIOUS
<1>2. Elems(Tail(s)) \subseteq Elems(s)
  BY <1>1 DEF Elems
<1> QED
  BY <1>1, <1>2

\* A sequence without its last element.
LEMMA FrontOf ==
  ASSUME NEW T, NEW s \in Seq(T), s # <<>>
  PROVE  /\ Len(s) \in Nat /\ Len(s) >= 1 /\ DOMAIN s = 1..Len(s)
         /\ Last(s) = s[Len(s)] /\ Last(s) \in T
         /\ Front(s) \in Seq(T) /\ DOMAIN Front(s) = 1..(Len(s) - 1)
         /\ \A i \in 1..(Len(s) - 1) : Front(s)[i] = s[i]
         /\ Elems(s) = Elems(Front(s)) \union {Last(s)}
         /\ Injective(s) => Injective(Front(s)) /\ Last(s) \notin Elems(Front(s))
<1>1. /\ Len(s) \in Nat /\ Len(s) >= 1 /\ DOMAIN s = 1..Len(s)
      /\ Last(s) = s[Len(s)] /\ Last(s) \in T
  BY DEF Last
<1>2. /\ Front(s) \in Seq(T) /\ DOMAIN Front(s) = 1..(Len(s) - 1)
      /\ \A i \in 1..(Len(s) - 1) : Front(s)[i] = s[i]
  <2> DEFINE n == Len(s) - 1
  <2>1. n \in Nat /\ \A i \in 1..n : s[i] \in T
    BY <1>1
  <2>2. Front(s) = SubSeq(s, 1, n)
    BY DEF Front
  <2> HIDE DEF n
  <2>3. /\ SubSeq(s, 1, n) \in Seq(T) /\ Len(SubSeq(s, 1, n)) = n
        /\ \A i \in 1..n : SubSeq(s, 1, n)[i] = s[i]
    BY <2>1
  <2>4. Front(s) \in Seq(T) /\ DOMAIN Front(s) = 1..n /\ \A i \in 1..n : Front(s)[i] = s[i]
    BY <2>1, <2>2, <2>3
  <2> QED
    BY <2>4 DEF n
<1>3. Elems(s) = Elems(Front(s)) \union {Last(s)}
  <2>. \A n \in Nat : \A i \in 1..n : i \in 1..(n - 1) \/ i = n
    OBVIOUS
  <2>1. \A i \in 1..Len(s) : i \in 1..(Len(s) - 1) \/ i = Len(s)
    BY <1>1
  <2>2. Elems(Front(s)) \subseteq Elems(s) /\ Last(s) \in Elems(s)
    BY <1>1, <1>2 DEF Elems
  <2>3. ASSUME NEW x \in Elems(s) PROVE x \in Elems(Front(s)) \union {Last(s)}
    <3>1. PICK i \in 1..Len(s) : s[i] = x
      BY <1>1 DEF Elems
    <3>2. CASE i \in 1..(Len(s) - 1)
      BY <1>2, <3>1, <3>2 DEF Elems
    <3>3. CASE i = Len(s)
      BY <1>1, <3>1, <3>3
    <3> QED
      BY <2>1, <3>2, <3>3
  <2> QED
    BY <2>2, <2>3
<1>4. Injective(s) => Injective(Front(s)) /\ Last(s) \notin Elems(Front(s))
  BY <1>1, <1>2 DEF Injective, Elems
<1> QED
  BY <1>1, <1>2, <1>3, <1>4

\* A sequence with an element more.
LEMMA AppendOf ==
  ASSUME NEW T, NEW s \in Seq(T), NEW x \in T
  PROVE  /\ Append(s, x) \in Seq(T) /\ Append(s, x) # <<>>
         /\ Elems(Append(s, x)) = Elems(s) \union {x}
         /\ Injective(s) /\ x \notin Elems(s) => Injective(Append(s, x))
<1>1. /\ Append(s, x) \in Seq(T) /\ Append(s, x) # <<>>
      /\ Len(s) \in Nat /\ DOMAIN s = 1..Len(s)
      /\ DOMAIN Append(s, x) = 1..(Len(s) + 1)
      /\ Append(s, x)[Len(s) + 1] = x
      /\ \A i \in 1..Len(s) : Append(s, x)[i] = s[i]
  OBVIOUS
<1>2. Elems(Append(s, x)) = Elems(s) \union {x}
  <2>1. \A i \in 1..(Len(s) + 1) : i \in 1..Len(s) \/ i = Len(s) + 1
    BY <1>1
  <2>2. Elems(Append(s, x)) \subseteq Elems(s) \union {x}
    BY <1>1, <2>1 DEF Elems
  <2>3. Elems(s) \subseteq Elems(Append(s, x)) /\ x \in Elems(Append(s, x))
    BY <1>1 DEF Elems
  <2> QED
    BY <2>2, <2>3
<1>3. Injective(s) /\ x \notin Elems(s) => Injective(Append(s, x))
  BY <1>1 DEF Injective, Elems
<1> QED
  BY <1>1, <1>2, <1>3

\* One sequence after another.
LEMMA ConcatOf ==
  ASSUME NEW T, NEW s \in Seq(T), NEW t \in Seq(T)
  PROVE  /\ s \o t \in Seq(T)
         /\ Elems(s \o t) = Elems(s) \union Elems(t)
         /\ Injective(s) /\ Injective(t) /\ Elems(s) \intersect Elems(t) = {} =>
               Injective(s \o t)
<1>1. /\ s \o t \in Seq(T) /\ Len(s) \in Nat /\ Len(t) \in Nat
      /\ DOMAIN s = 1..Len(s) /\ DOMAIN t = 1..Len(t)
      /\ DOMAIN (s \o t) = 1..(Len(s) + Len(t))
      /\ \A i \in 1..Len(s) : (s \o t)[i] = s[i]
      /\ \A i \in 1..Len(t) : (s \o t)[Len(s) + i] = t[i]
  OBVIOUS
<1>2. \A i \in DOMAIN (s \o t) :
         \/ i \in DOMAIN s /\ (s \o t)[i] = s[i]
         \/ i - Len(s) \in DOMAIN t /\ i > Len(s) /\ (s \o t)[i] = t[i - Len(s)]
  <2>1. \A i \in DOMAIN (s \o t) :
           i \in 1..Len(s) \/ (i - Len(s) \in 1..Len(t) /\ i > Len(s)
                               /\ i = Len(s) + (i - Len(s)))
    BY <1>1
  <2> QED
    BY <1>1, <2>1
<1>3. Elems(s \o t) = Elems(s) \union Elems(t)
  <2>1. Elems(s \o t) \subseteq Elems(s) \union Elems(t)
    BY <1>2 DEF Elems
  <2>2. Elems(s) \subseteq Elems(s \o t)
    BY <1>1 DEF Elems
  <2>3. \A i \in DOMAIN t : Len(s) + i \in DOMAIN (s \o t) /\ (s \o t)[Len(s) + i] = t[i]
    BY <1>1
  <2>4. Elems(t) \subseteq Elems(s \o t)
    BY <2>3 DEF Elems
  <2> QED
    BY <2>1, <2>2, <2>4
<1>4. ASSUME Injective(s), Injective(t), Elems(s) \intersect Elems(t) = {},
             NEW i \in DOMAIN (s \o t), NEW k \in DOMAIN (s \o t), (s \o t)[i] = (s \o t)[k]
      PROVE  i = k
  <2>1. \A a \in DOMAIN s, b \in DOMAIN t : s[a] # t[b]
    BY <1>4 DEF Elems
  <2>2. CASE i \in DOMAIN s /\ (s \o t)[i] = s[i]
    <3>1. k \in DOMAIN s /\ (s \o t)[k] = s[k]
      BY <1>2, <1>4, <2>1, <2>2
    <3> QED
      BY <1>4, <2>2, <3>1 DEF Injective
  <2>3. CASE i - Len(s) \in DOMAIN t /\ i > Len(s) /\ (s \o t)[i] = t[i - Len(s)]
    <3>1. k - Len(s) \in DOMAIN t /\ k > Len(s) /\ (s \o t)[k] = t[k - Len(s)]
      BY <1>2, <1>4, <2>1, <2>3
    <3>2. i - Len(s) = k - Len(s)
      BY <1>4, <2>3, <3>1 DEF Injective
    <3> QED
      BY <1>1, <3>2
  <2> QED
    BY <1>2, <2>2, <2>3
<1> QED
  BY <1>1, <1>3, <1>4 DEF Injective

-----------------------------------------------------------------------------
(* The inductive invariant.                                                *)

\* The paths of the steps that are left.
Left == {todo[i].path : i \in DOMAIN todo}
ToDo(do, p) == \E i \in DOMAIN todo : todo[i].do = do /\ todo[i].path = p

Was(p) == [path |-> p, file |-> before[p]]

\* Nothing was at p, or it is kept aside.
Cleared(p) == before[p] = Absent \/ Was(p) \in saved

\* A script is running exactly while its outcome is open; it makes errors only
\* when it rolls back, and an uninstall creates nothing.
Running ==
    /\ stage # "idle" <=> outcome = "RUNNING"
    /\ stage # "idle" => kind # "none"
    /\ stage # "undoing" => errors = 0
    /\ stage = "cleaning" => todo = <<>>
    /\ stage = "working" /\ kind = "uninstall" => \A i \in DOMAIN todo : todo[i].do = "stash"
    /\ outcome = "INSTALLED" => kind = "install"
    /\ outcome = "UNINSTALLED" => kind = "uninstall"

\* Of the steps left, a path is moved aside before it is created, and nothing is
\* done to it twice.
StashFirst(steps) ==
    \A i, k \in DOMAIN steps : i < k /\ steps[i].path = steps[k].path =>
        steps[i].do = "stash" /\ steps[k].do = "create"

\* What is to be moved aside is as it was found.
AsFound ==
    \A i \in DOMAIN todo : todo[i].do = "stash" =>
        /\ disk[todo[i].path] = before[todo[i].path]
        /\ todo[i].path \notin Elems(created) /\ todo[i].path \notin Elems(entries)

\* What is to be created is out of the way, or will be by then.
StashBefore(steps, i) ==
    \E k \in DOMAIN steps : k < i /\ steps[k].do = "stash" /\ steps[k].path = steps[i].path
OutOfTheWay ==
    \A i \in DOMAIN todo : todo[i].do = "create" =>
        Cleared(todo[i].path) \/ StashBefore(todo, i)

Planned == stage = "working" => StashFirst(todo) /\ AsFound /\ OutOfTheWay

\* Until the commit, entries, created and the files kept aside account for every
\* difference between the disk and what was found.
Tracked ==
    stage \in {"working", "undoing"} =>
        /\ \A s \in saved : /\ s.file = before[s.path]
                            /\ errors = 0 => s.path \in Elems(entries)
        /\ \A p \in Elems(entries) : Was(p) \in saved
        /\ Injective(entries)
        /\ \A p \in Elems(created) : Cleared(p)
        /\ \A p \in Paths : p \notin Elems(created) /\ p \notin Elems(entries) =>
              disk[p] = before[p] \/ (errors > 0 /\ Cleared(p))

\* What a script that has ended leaves.
Over ==
    stage = "idle" =>
        /\ outcome \in {"FAILED", "ROLLBACK_FAILED", "CRASHED"} =>
              \A p \in Paths : before[p] = disk[p] \/ Cleared(p)
        /\ outcome \in {"FAILED", "REFUSED"} => disk = before /\ saved = {}

\* The paths at which somebody else's files were found.
ForeignHost(h)  == NotOurs(Skill(h), Marker(h))
ForeignAgent(h) == NotOurs(Agent(h), AgentMarker(h))
Protected ==
    {p \in Paths :
        \/ \E h \in Homes : ForeignHost(h) /\ p \in {Skill(h), Marker(h)}
        \/ \E h \in ClaudeHomes : ForeignAgent(h) /\ p \in {Agent(h), AgentMarker(h)}
        \/ before[State].owner = "them" /\ p = State}

\* Nothing is done to them.
Respected ==
    ~forced =>
        \A p \in Protected :
            /\ disk[p] = before[p]
            /\ stage = "working" => p \notin Left
            /\ p \notin Elems(created) /\ p \notin Elems(entries)

\* As long as nothing has gone wrong, the steps left are what the disk lacks.
Straight == stage \in {"working", "cleaning"} \/ outcome \in {"INSTALLED", "UNINSTALLED"}

\* The skill and the marker of h are removed by an uninstall.
Removed(h) == h \in chosen /\ before[Marker(h)] # Absent

HostProgress(h, p) ==
    /\ kind = "install" /\ h \in chosen =>
          ToDo("create", p) \/ (p \notin Left /\ disk[p].owner = "us")
    /\ kind = "uninstall" /\ Removed(h) => ToDo("stash", p) \/ disk[p] = Absent
    /\ ~(kind = "install" /\ h \in chosen) /\ ~(kind = "uninstall" /\ Removed(h)) =>
          p \notin Left /\ disk[p] = before[p]

Progress ==
    Straight => \A h \in Homes : HostProgress(h, Skill(h)) /\ HostProgress(h, Marker(h))

SetupInv == TypeOK /\ Running /\ Planned /\ Tracked /\ Over /\ Respected /\ Progress

-----------------------------------------------------------------------------
(* The lists of paths and steps the scripts work through.                  *)

HostFiles(h)  == {Skill(h), Marker(h)}
AgentFiles(h) == IF h \in ClaudeHomes THEN {Agent(h), AgentMarker(h)} ELSE {}

\* Different files of a host are at different paths, and no path is of two hosts.
LEMMA PathsDiffer ==
  /\ State \in Paths /\ Runtime \in Paths /\ State # Runtime
  /\ \A h \in Homes :
        /\ HostFiles(h) \subseteq Paths /\ AgentFiles(h) \subseteq Paths
        /\ Skill(h) # Marker(h)
        /\ \A p \in HostFiles(h) \union AgentFiles(h) : p # State /\ p # Runtime
        /\ HostFiles(h) \intersect AgentFiles(h) = {}
  /\ \A h \in ClaudeHomes : Agent(h) # AgentMarker(h)
  /\ \A g, h \in Homes : g # h =>
        (HostFiles(g) \union AgentFiles(g)) \intersect (HostFiles(h) \union AgentFiles(h)) = {}
BY DEF Paths, Homes, HostFiles, AgentFiles, Skill, Marker, Agent, AgentMarker, State, Runtime

\* The paths of a host, each once.
LEMMA HostPathsOf ==
  ASSUME NEW h \in Homes \union {NoHome}
  PROVE  /\ HostPaths(h) \in Seq(Paths \ {State, Runtime}) /\ Injective(HostPaths(h))
         /\ h \in Homes => Elems(HostPaths(h)) = HostFiles(h) \union AgentFiles(h)
         /\ h = NoHome => Elems(HostPaths(h)) = {}
<1>1. CASE h = NoHome
  BY <1>1 DEF HostPaths, Injective, Elems
<1>2. CASE h \in CodexHomes
  <2>1. HostPaths(h) = <<Skill(h), Marker(h)>> /\ h \in Homes /\ h \notin ClaudeHomes
    BY <1>2 DEF HostPaths, Homes
  <2>2. /\ HostPaths(h) \in Seq(Paths \ {State, Runtime})
        /\ Elems(HostPaths(h)) = {Skill(h), Marker(h)}
    BY <2>1, PathsDiffer DEF Elems, HostFiles
  <2> QED
    BY <2>1, <2>2, PathsDiffer DEF Injective, HostFiles, AgentFiles
<1>3. CASE h \in ClaudeHomes
  <2> DEFINE a == Skill(h)
             b == Marker(h)
             c == Agent(h)
             d == AgentMarker(h)
  <2>1. HostPaths(h) = <<a, b, c, d>> /\ h \in Homes
    BY <1>3 DEF HostPaths, Homes
  <2>2. /\ {a, b, c, d} \subseteq Paths \ {State, Runtime}
        /\ a # b /\ a # c /\ a # d /\ b # c /\ b # d /\ c # d
    BY <1>3, <2>1, PathsDiffer DEF HostFiles, AgentFiles
  <2>3. HostFiles(h) \union AgentFiles(h) = {a, b, c, d}
    BY <1>3 DEF HostFiles, AgentFiles
  <2> HIDE DEF a, b, c, d
  <2>4. HostPaths(h) \in Seq(Paths \ {State, Runtime})
    BY <2>1, <2>2
  <2>5. Elems(HostPaths(h)) = {a, b, c, d}
    BY <2>1 DEF Elems
  <2>6. Injective(HostPaths(h))
    BY <2>1, <2>2 DEF Injective
  <2> QED
    BY <2>1, <2>3, <2>4, <2>5, <2>6
<1> QED
  BY <1>1, <1>2, <1>3 DEF Homes

\* Every step that creates comes after one that moves the path aside.
Backed(steps) == \A i \in DOMAIN steps : steps[i].do = "create" => StashBefore(steps, i)

\* A list of steps for each of a list of paths.
LEMMA StepsOf ==
  ASSUME NEW do \in {"stash", "create"}, NEW ps \in Seq(Paths)
  PROVE  /\ Steps(do, ps) \in Seq(Step)
         /\ \A e \in Elems(Steps(do, ps)) : e.do = do /\ e.path \in Elems(ps)
         /\ \A p \in Elems(ps) : \E e \in Elems(Steps(do, ps)) : e.do = do /\ e.path = p
         /\ Injective(ps) => StashFirst(Steps(do, ps))
         /\ do = "stash" => Backed(Steps(do, ps))
<1>1. /\ Steps(do, ps) \in Seq(Step) /\ DOMAIN Steps(do, ps) = DOMAIN ps
      /\ DOMAIN ps \subseteq Int
      /\ \A i \in DOMAIN ps : Steps(do, ps)[i].do = do /\ Steps(do, ps)[i].path = ps[i]
  <2>1. DOMAIN ps = 1..Len(ps) /\ Len(ps) \in Nat /\ \A i \in DOMAIN ps : ps[i] \in Paths
    OBVIOUS
  <2>2. \A i \in DOMAIN ps : [do |-> do, path |-> ps[i]] \in Step
    BY <2>1 DEF Step
  <2>3. Steps(do, ps) \in [1..Len(ps) -> Step]
    BY <2>1, <2>2 DEF Steps
  <2>4. Steps(do, ps) \in Seq(Step)
    BY <2>1, <2>3
  <2> QED
    BY <2>1, <2>4 DEF Steps
<1>2. /\ \A e \in Elems(Steps(do, ps)) : e.do = do /\ e.path \in Elems(ps)
      /\ \A p \in Elems(ps) : \E e \in Elems(Steps(do, ps)) : e.do = do /\ e.path = p
  BY <1>1 DEF Elems
<1>3. Injective(ps) => StashFirst(Steps(do, ps))
  <2>1. \A i, k \in DOMAIN ps : i < k => i # k
    BY <1>1
  <2> QED
    BY <1>1, <2>1 DEF Injective, StashFirst
<1>4. do = "stash" => Backed(Steps(do, ps))
  BY <1>1 DEF Backed
<1> QED
  BY <1>1, <1>2, <1>3, <1>4

\* One list of steps after another: what the second creates the first has moved
\* aside, and nothing else is in both.
LEMMA StepsConcat ==
  ASSUME NEW s \in Seq(Step), NEW t \in Seq(Step),
         StashFirst(s), StashFirst(t), Backed(s),
         \A a \in Elems(s), b \in Elems(t) :
            a.path = b.path => a.do = "stash" /\ b.do = "create",
         \A b \in Elems(t) :
            b.do = "create" => \E a \in Elems(s) : a.do = "stash" /\ a.path = b.path
  PROVE  /\ s \o t \in Seq(Step) /\ Elems(s \o t) = Elems(s) \union Elems(t)
         /\ StashFirst(s \o t) /\ Backed(s \o t)
<1> DEFINE u == s \o t
<1>1. /\ u \in Seq(Step) /\ Elems(u) = Elems(s) \union Elems(t)
      /\ Len(s) \in Nat /\ Len(t) \in Nat
      /\ DOMAIN s = 1..Len(s) /\ DOMAIN t = 1..Len(t) /\ DOMAIN u = 1..(Len(s) + Len(t))
      /\ \A i \in DOMAIN s : i \in DOMAIN u /\ u[i] = s[i]
  BY ConcatOf
<1>2. \A i \in DOMAIN u :
         \/ i \in DOMAIN s /\ u[i] = s[i]
         \/ i - Len(s) \in DOMAIN t /\ i > Len(s) /\ u[i] = t[i - Len(s)]
  <2>1. \A m, n \in Nat : \A i \in 1..(m + n) :
           i \in 1..m \/ (i - m \in 1..n /\ i > m /\ i = m + (i - m))
    OBVIOUS
  <2>2. \A k \in DOMAIN t : u[Len(s) + k] = t[k]
    OBVIOUS
  <2> HIDE DEF u
  <2> QED
    BY <1>1, <2>1, <2>2
<1> HIDE DEF u
<1>3. \A a \in DOMAIN s : s[a] \in Elems(s)
  BY DEF Elems
<1>4. \A b \in DOMAIN t : t[b] \in Elems(t)
  BY DEF Elems
<1>5. StashFirst(u)
  <2> SUFFICES ASSUME NEW i \in DOMAIN u, NEW k \in DOMAIN u, i < k, u[i].path = u[k].path
               PROVE  u[i].do = "stash" /\ u[k].do = "create"
    BY DEF StashFirst
  <2>1. CASE i \in DOMAIN s /\ u[i] = s[i]
    <3>1. CASE k \in DOMAIN s /\ u[k] = s[k]
      BY <2>1, <3>1 DEF StashFirst
    <3>2. CASE k - Len(s) \in DOMAIN t /\ u[k] = t[k - Len(s)]
      BY <1>3, <1>4, <2>1, <3>2
    <3> QED
      BY <1>2, <3>1, <3>2
  <2>2. CASE i - Len(s) \in DOMAIN t /\ i > Len(s) /\ u[i] = t[i - Len(s)]
    <3>1. k - Len(s) \in DOMAIN t /\ u[k] = t[k - Len(s)]
      BY <1>1, <1>2, <2>2
    <3>2. i - Len(s) < k - Len(s)
      BY <1>1
    <3> QED
      BY <2>2, <3>1, <3>2 DEF StashFirst
  <2> QED
    BY <1>2, <2>1, <2>2
<1>6. Backed(u)
  <2> SUFFICES ASSUME NEW i \in DOMAIN u, u[i].do = "create"
               PROVE  \E k \in DOMAIN u : k < i /\ u[k].do = "stash" /\ u[k].path = u[i].path
    BY DEF Backed, StashBefore
  <2>1. CASE i \in DOMAIN s /\ u[i] = s[i]
    <3>1. PICK k \in DOMAIN s : k < i /\ s[k].do = "stash" /\ s[k].path = s[i].path
      BY <2>1 DEF Backed, StashBefore
    <3> QED
      BY <1>1, <2>1, <3>1
  <2>2. CASE i - Len(s) \in DOMAIN t /\ i > Len(s) /\ u[i] = t[i - Len(s)]
    <3>1. \E a \in Elems(s) : a.do = "stash" /\ a.path = u[i].path
      BY <1>4, <2>2
    <3>2. PICK k \in DOMAIN s : s[k].do = "stash" /\ s[k].path = u[i].path
      BY <3>1 DEF Elems
    <3>3. k < i
      BY <1>1, <2>2
    <3> QED
      BY <1>1, <3>2, <3>3
  <2> QED
    BY <1>2, <2>1, <2>2
<1> QED
  BY <1>1, <1>5, <1>6 DEF u

\* A list of steps does this to the path, touches these paths, creates nothing.
Does(steps, do, p) == \E e \in Elems(steps) : e.do = do /\ e.path = p
Touches(steps)     == {e.path : e \in Elems(steps)}
OnlyStashes(steps) == \A e \in Elems(steps) : e.do = "stash"

\* Every path is moved aside and then created, the install state last.
LEMMA TransactionOf ==
  ASSUME NEW ps \in Seq(Paths \ {State, Runtime}), Injective(ps), NEW steps,
         steps = Steps("stash", ps) \o Steps("create", ps)
                    \o Steps("stash", <<State>>) \o Steps("create", <<State>>)
  PROVE  /\ steps \in Seq(Step) /\ StashFirst(steps) /\ Backed(steps)
         /\ Touches(steps) \subseteq Elems(ps) \union {State}
         /\ \A p \in Elems(ps) \union {State} : Does(steps, "create", p)
<1> DEFINE A == Steps("stash", ps)
           B == Steps("create", ps)
           C == Steps("stash", <<State>>)
           D == Steps("create", <<State>>)
<1>1. /\ ps \in Seq(Paths) /\ State \notin Elems(ps)
      /\ <<State>> \in Seq(Paths) /\ Elems(<<State>>) = {State} /\ Injective(<<State>>)
  BY PathsDiffer DEF Elems, Injective
<1>2. /\ A \in Seq(Step) /\ StashFirst(A) /\ Backed(A)
      /\ \A e \in Elems(A) : e.do = "stash" /\ e.path \in Elems(ps)
      /\ \A p \in Elems(ps) : \E e \in Elems(A) : e.do = "stash" /\ e.path = p
  BY <1>1, StepsOf
<1>3. /\ B \in Seq(Step) /\ StashFirst(B)
      /\ \A e \in Elems(B) : e.do = "create" /\ e.path \in Elems(ps)
      /\ \A p \in Elems(ps) : \E e \in Elems(B) : e.do = "create" /\ e.path = p
  BY <1>1, StepsOf
<1>4. /\ C \in Seq(Step) /\ StashFirst(C)
      /\ \A e \in Elems(C) : e.do = "stash" /\ e.path = State
      /\ \E e \in Elems(C) : e.do = "stash" /\ e.path = State
  <2>1. /\ C \in Seq(Step) /\ StashFirst(C)
        /\ \A e \in Elems(C) : e.do = "stash" /\ e.path \in Elems(<<State>>)
        /\ \A p \in Elems(<<State>>) : \E e \in Elems(C) : e.do = "stash" /\ e.path = p
    BY <1>1, StepsOf
  <2> QED
    BY ONLY <1>1, <2>1
<1>5. /\ D \in Seq(Step) /\ StashFirst(D)
      /\ \A e \in Elems(D) : e.do = "create" /\ e.path = State
      /\ \E e \in Elems(D) : e.do = "create" /\ e.path = State
  <2>1. \A ps2 \in Seq(Paths) :
           /\ Steps("create", ps2) \in Seq(Step)
           /\ Injective(ps2) => StashFirst(Steps("create", ps2))
           /\ \A e \in Elems(Steps("create", ps2)) : e.do = "create" /\ e.path \in Elems(ps2)
           /\ \A p \in Elems(ps2) : \E e \in Elems(Steps("create", ps2)) :
                 e.do = "create" /\ e.path = p
    BY StepsOf
  <2> QED
    BY <1>1, <2>1
<1>6. steps = ((A \o B) \o C) \o D
  OBVIOUS
<1> HIDE DEF A, B, C, D
<1>7. /\ A \o B \in Seq(Step) /\ Elems(A \o B) = Elems(A) \union Elems(B)
      /\ StashFirst(A \o B) /\ Backed(A \o B)
  <2>1. \A b \in Elems(B) : \E a \in Elems(A) : a.do = "stash" /\ a.path = b.path
    BY <1>2, <1>3
  <2> QED
    BY <1>2, <1>3, <2>1, StepsConcat
<1>8. /\ (A \o B) \o C \in Seq(Step) /\ Elems((A \o B) \o C) = Elems(A \o B) \union Elems(C)
      /\ StashFirst((A \o B) \o C) /\ Backed((A \o B) \o C)
  <2>1. \A a \in Elems(A \o B), c \in Elems(C) : a.path # c.path /\ c.do # "create"
    BY <1>1, <1>2, <1>3, <1>4, <1>7
  <2> QED
    BY <1>4, <1>7, <2>1, StepsConcat
<1>9. /\ ((A \o B) \o C) \o D \in Seq(Step)
      /\ Elems(((A \o B) \o C) \o D) = Elems((A \o B) \o C) \union Elems(D)
      /\ StashFirst(((A \o B) \o C) \o D) /\ Backed(((A \o B) \o C) \o D)
  <2>1. \A a \in Elems((A \o B) \o C), d \in Elems(D) :
           a.path = d.path => a.do = "stash" /\ d.do = "create"
    BY <1>1, <1>2, <1>3, <1>4, <1>5, <1>7, <1>8
  <2>2. \A d \in Elems(D) :
           \E a \in Elems((A \o B) \o C) : a.do = "stash" /\ a.path = d.path
    BY <1>4, <1>5, <1>8
  <2> QED
    BY <1>5, <1>8, <2>1, <2>2, StepsConcat
<1>10. Elems(steps) = Elems(A) \union Elems(B) \union Elems(C) \union Elems(D)
  BY <1>6, <1>7, <1>8, <1>9
<1>11. Touches(steps) \subseteq Elems(ps) \union {State}
  BY <1>2, <1>3, <1>4, <1>5, <1>10 DEF Touches
<1>12. \A p \in Elems(ps) \union {State} : Does(steps, "create", p)
  BY <1>3, <1>5, <1>10 DEF Does
<1> QED
  BY <1>6, <1>9, <1>11, <1>12

\* The steps of an install, and the paths they are about.
InstallWork(steps, homes, codex, claude) ==
    steps = InstallSteps(codex, claude) /\ homes = {codex, claude} \ {NoHome}

\* The steps of an installation move away before they create, and touch only files
\* of its hosts and the state.
LEMMA InstallStepsOf ==
  ASSUME NEW codex \in CodexHomes \union {NoHome}, NEW claude \in ClaudeHomes \union {NoHome},
         NEW steps, NEW homes, InstallWork(steps, homes, codex, claude)
  PROVE  /\ steps \in Seq(Step) /\ StashFirst(steps) /\ Backed(steps) /\ homes \subseteq Homes
         /\ \A p \in Touches(steps) :
               p = State \/ \E h \in homes : p \in HostFiles(h) \union AgentFiles(h)
         /\ \A h \in homes : \A p \in HostFiles(h) : Does(steps, "create", p)
<1> DEFINE s == HostPaths(codex)
           t == HostPaths(claude)
<1>1. codex \in Homes \union {NoHome} /\ claude \in Homes \union {NoHome}
  BY DEF Homes
<1>2. /\ s \in Seq(Paths \ {State, Runtime}) /\ Injective(s)
      /\ t \in Seq(Paths \ {State, Runtime}) /\ Injective(t)
  BY <1>1, HostPathsOf
<1>3. /\ codex \in Homes => Elems(s) = HostFiles(codex) \union AgentFiles(codex)
      /\ claude \in Homes => Elems(t) = HostFiles(claude) \union AgentFiles(claude)
      /\ codex = NoHome => Elems(s) = {}
      /\ claude = NoHome => Elems(t) = {}
  BY <1>1, HostPathsOf
<1>4. Elems(s) \intersect Elems(t) = {}
  <2>1. codex = NoHome \/ claude = NoHome \/ codex # claude
    BY DEF Homes
  <2> HIDE DEF s, t
  <2> QED
    BY <1>1, <1>3, <2>1, PathsDiffer
<1>5. /\ s \o t \in Seq(Paths \ {State, Runtime}) /\ Injective(s \o t)
      /\ Elems(s \o t) = Elems(s) \union Elems(t)
  BY <1>2, <1>4, ConcatOf
<1>6. steps = Steps("stash", s \o t) \o Steps("create", s \o t)
                 \o Steps("stash", <<State>>) \o Steps("create", <<State>>)
  BY DEF InstallWork, InstallSteps
<1> HIDE DEF s, t
<1>7. /\ steps \in Seq(Step) /\ StashFirst(steps) /\ Backed(steps)
      /\ Touches(steps) \subseteq Elems(s \o t) \union {State}
      /\ \A p \in Elems(s \o t) \union {State} : Does(steps, "create", p)
  BY <1>5, <1>6, TransactionOf
<1> homes = {codex, claude} \ {NoHome}
  BY DEF InstallWork
<1>8. homes \subseteq Homes
  BY <1>1
<1>9. \A p : p \in Elems(s \o t) <=> \E h \in homes : p \in HostFiles(h) \union AgentFiles(h)
  BY <1>1, <1>3, <1>5
<1> QED
  BY <1>7, <1>8, <1>9

\* Three sequences, one after another.
LEMMA ConcatThree ==
  ASSUME NEW T, NEW r \in Seq(T), NEW s \in Seq(T), NEW t \in Seq(T),
         Injective(r), Injective(s), Injective(t), Elems(r) \intersect Elems(s) = {},
         (Elems(r) \union Elems(s)) \intersect Elems(t) = {}
  PROVE  /\ (r \o s) \o t \in Seq(T) /\ Injective((r \o s) \o t)
         /\ Elems((r \o s) \o t) = Elems(r) \union Elems(s) \union Elems(t)
<1>1. r \o s \in Seq(T) /\ Injective(r \o s) /\ Elems(r \o s) = Elems(r) \union Elems(s)
  BY ConcatOf
<1>2. ASSUME NEW q \in Seq(T), Injective(q), Elems(q) \intersect Elems(t) = {}
      PROVE  /\ q \o t \in Seq(T) /\ Injective(q \o t)
             /\ Elems(q \o t) = Elems(q) \union Elems(t)
  BY <1>2, ConcatOf
<1>3. Elems(r \o s) \intersect Elems(t) = {}
  BY <1>1
<1>4. /\ (r \o s) \o t \in Seq(T) /\ Injective((r \o s) \o t)
      /\ Elems((r \o s) \o t) = Elems(r \o s) \union Elems(t)
  BY <1>1, <1>2, <1>3, Zenon
<1> QED
  BY <1>1, <1>4, Zenon

\* A list of steps that move paths aside.
LEMMA StashesOf ==
  ASSUME NEW ps \in Seq(Paths), Injective(ps), NEW steps, steps = Steps("stash", ps)
  PROVE  /\ steps \in Seq(Step) /\ StashFirst(steps)
         /\ OnlyStashes(steps) /\ Touches(steps) \subseteq Elems(ps)
         /\ \A p \in Elems(ps) : Does(steps, "stash", p)
<1>1. /\ steps \in Seq(Step) /\ StashFirst(steps)
      /\ \A e \in Elems(steps) : e.do = "stash" /\ e.path \in Elems(ps)
      /\ \A p \in Elems(ps) : \E e \in Elems(steps) : e.do = "stash" /\ e.path = p
  BY StepsOf
<1> QED
  BY <1>1 DEF OnlyStashes, Touches, Does

\* What an uninstall removes of a host: its skill if that has a marker, its agents
\* if they have one.
LEMMA HostTargetsOf ==
  ASSUME NEW h \in Homes
  PROVE  /\ HostTargets(h) \in Seq(Paths) /\ Injective(HostTargets(h))
         /\ Elems(HostTargets(h)) \subseteq HostFiles(h) \union AgentFiles(h)
         /\ Exists(Marker(h)) => HostFiles(h) \subseteq Elems(HostTargets(h))
         /\ ~Exists(Marker(h)) => HostFiles(h) \intersect Elems(HostTargets(h)) = {}
         /\ ~Exists(AgentMarker(h)) => AgentFiles(h) \intersect Elems(HostTargets(h)) = {}
<1> DEFINE a == Skill(h)
           b == Marker(h)
           c == Agent(h)
           d == AgentMarker(h)
           s == IF Exists(b) THEN <<a, b>> ELSE <<>>
           t == IF h \in ClaudeHomes /\ Exists(d) THEN <<c, d>> ELSE <<>>
<1>1. HostTargets(h) = s \o t
  BY DEF HostTargets
<1>2. /\ {a, b} \subseteq Paths /\ a # b /\ HostFiles(h) = {a, b}
      /\ h \in ClaudeHomes => {c, d} \subseteq Paths /\ c # d /\ AgentFiles(h) = {c, d}
      /\ HostFiles(h) \intersect AgentFiles(h) = {}
  BY PathsDiffer DEF HostFiles, AgentFiles
<1> HIDE DEF a, b, c, d
<1>3. /\ s \in Seq(Paths) /\ Injective(s)
      /\ Elems(s) = IF Exists(b) THEN {a, b} ELSE {}
  BY <1>2 DEF Injective, Elems
<1>4. /\ t \in Seq(Paths) /\ Injective(t)
      /\ Elems(t) = IF h \in ClaudeHomes /\ Exists(d) THEN {c, d} ELSE {}
  BY <1>2 DEF Injective, Elems
<1>5. Elems(s) \subseteq HostFiles(h) /\ Elems(t) \subseteq AgentFiles(h)
  BY <1>2, <1>3, <1>4
<1> HIDE DEF s, t
<1>6. /\ s \o t \in Seq(Paths) /\ Injective(s \o t)
      /\ Elems(s \o t) = Elems(s) \union Elems(t)
  BY <1>2, <1>3, <1>4, <1>5, ConcatOf
<1> QED
  BY <1>1, <1>2, <1>3, <1>4, <1>5, <1>6 DEF b, d

\* What it removes of what the skills share: nothing, if a skill is left.
LEMMA SharedTargetsOf ==
  ASSUME NEW shared, NEW removeRuntime
  PROVE  /\ SharedTargets(shared, removeRuntime) \in Seq(Paths)
         /\ Injective(SharedTargets(shared, removeRuntime))
         /\ Elems(SharedTargets(shared, removeRuntime)) \subseteq {State, Runtime}
         /\ State \in Elems(SharedTargets(shared, removeRuntime)) => Owner(State) = "us"
         /\ shared => Elems(SharedTargets(shared, removeRuntime)) = {}
<1> DEFINE s == IF removeRuntime /\ ~shared THEN <<Runtime>> ELSE <<>>
           t == IF Owner(State) = "us" /\ ~shared THEN <<State>> ELSE <<>>
<1>1. SharedTargets(shared, removeRuntime) = s \o t
  BY DEF SharedTargets
<1>2. /\ s \in Seq(Paths) /\ Injective(s)
      /\ Elems(s) = IF removeRuntime /\ ~shared THEN {Runtime} ELSE {}
  BY PathsDiffer DEF Injective, Elems
<1>3. /\ t \in Seq(Paths) /\ Injective(t)
      /\ Elems(t) = IF Owner(State) = "us" /\ ~shared THEN {State} ELSE {}
  BY PathsDiffer DEF Injective, Elems
<1> HIDE DEF s, t
<1>4. /\ s \o t \in Seq(Paths) /\ Injective(s \o t)
      /\ Elems(s \o t) = Elems(s) \union Elems(t)
  BY <1>2, <1>3, PathsDiffer, ConcatOf
<1> QED
  BY <1>1, <1>2, <1>3, <1>4, PathsDiffer

\* The steps of an uninstall, and the paths they are about.
UninstallWork(steps, codex, claude, homes, rest) ==
    /\ codex \in CodexHomes /\ claude \in ClaudeHomes
    /\ homes \in {{codex}, {claude}, {codex, claude}}
    /\ rest \in Seq(Paths) /\ Injective(rest) /\ Elems(rest) \subseteq {State, Runtime}
    /\ steps = Steps("stash",
                     (IF codex \in homes THEN HostTargets(codex) ELSE <<>>)
                     \o (IF claude \in homes THEN HostTargets(claude) ELSE <<>>)
                     \o rest)

\* The steps of an uninstallation only move away, and only files of the hosts it
\* removes or what they share.
LEMMA UninstallStepsOf ==
  ASSUME NEW codex, NEW claude, NEW homes, NEW rest, NEW steps,
         UninstallWork(steps, codex, claude, homes, rest)
  PROVE  /\ steps \in Seq(Step) /\ StashFirst(steps) /\ homes \subseteq Homes
         /\ OnlyStashes(steps) /\ Touches(steps) \subseteq Paths
         /\ \A p \in Touches(steps) :
               p \in Elems(rest) \/ \E h \in homes : p \in Elems(HostTargets(h))
         /\ \A h \in homes : \A p \in Elems(HostTargets(h)) : Does(steps, "stash", p)
<1> DEFINE r == IF codex \in homes THEN HostTargets(codex) ELSE <<>>
           s == IF claude \in homes THEN HostTargets(claude) ELSE <<>>
           t == rest
<1> /\ codex \in CodexHomes /\ claude \in ClaudeHomes
    /\ homes \in {{codex}, {claude}, {codex, claude}}
  BY DEF UninstallWork
<1>1. codex \in Homes /\ claude \in Homes /\ codex # claude /\ homes \subseteq Homes
  BY DEF Homes
<1>2. /\ r \in Seq(Paths) /\ Injective(r)
      /\ Elems(r) = IF codex \in homes THEN Elems(HostTargets(codex)) ELSE {}
      /\ Elems(r) \subseteq HostFiles(codex) \union AgentFiles(codex)
  <2>1. <<>> \in Seq(Paths) /\ Injective(<<>>) /\ Elems(<<>>) = {}
    BY DEF Injective, Elems
  <2> QED
    BY <1>1, <2>1, HostTargetsOf
<1>3. /\ s \in Seq(Paths) /\ Injective(s)
      /\ Elems(s) = IF claude \in homes THEN Elems(HostTargets(claude)) ELSE {}
      /\ Elems(s) \subseteq HostFiles(claude) \union AgentFiles(claude)
  <2>1. <<>> \in Seq(Paths) /\ Injective(<<>>) /\ Elems(<<>>) = {}
    BY DEF Injective, Elems
  <2> QED
    BY <1>1, <2>1, HostTargetsOf
<1>4. /\ t \in Seq(Paths) /\ Injective(t) /\ Elems(t) \subseteq {State, Runtime}
  BY DEF UninstallWork
<1>5. steps = Steps("stash", (r \o s) \o t)
  BY DEF UninstallWork
<1> HIDE DEF r, s, t

<1> PICK all : all = (r \o s) \o t
  OBVIOUS
<1>7. /\ all \in Seq(Paths) /\ Injective(all)
      /\ Elems(all) = Elems(r) \union Elems(s) \union Elems(t)
  <2>1. Elems(r) \intersect Elems(s) = {}
    BY <1>1, <1>2, <1>3, PathsDiffer
  <2>2. (Elems(r) \union Elems(s)) \intersect Elems(t) = {}
    <3>1. \A p \in Elems(r) \union Elems(s) : p # State /\ p # Runtime
      BY <1>1, <1>2, <1>3, PathsDiffer
    <3> QED
      BY <1>4, <3>1
  <2>3. /\ r \in Seq(Paths) /\ s \in Seq(Paths) /\ t \in Seq(Paths)
        /\ Injective(r) /\ Injective(s) /\ Injective(t)
    BY <1>2, <1>3, <1>4
  <2>4. /\ (r \o s) \o t \in Seq(Paths) /\ Injective((r \o s) \o t)
        /\ Elems((r \o s) \o t) = Elems(r) \union Elems(s) \union Elems(t)
    BY <2>1, <2>2, <2>3, ConcatThree
  <2> QED
    BY <2>4, Zenon
<1>8. /\ steps \in Seq(Step) /\ StashFirst(steps)
      /\ OnlyStashes(steps) /\ Touches(steps) \subseteq Elems(all)
      /\ \A p \in Elems(all) : Does(steps, "stash", p)
  <2>1. steps = Steps("stash", all)
    BY <1>5
  <2> QED
    BY <1>7, <2>1, StashesOf
<1>9. \A p : p \in Elems(r) \union Elems(s) <=> \E h \in homes : p \in Elems(HostTargets(h))
  BY <1>1, <1>2, <1>3
<1>10. Elems(all) \subseteq Paths
  BY <1>7 DEF Elems
<1>11. ASSUME NEW p \in Touches(steps)
       PROVE  p \in Elems(t) \/ \E h \in homes : p \in Elems(HostTargets(h))
  <2>1. p \in Elems(r) \union Elems(s) \/ p \in Elems(t)
    BY <1>7, <1>8
  <2>2. CASE p \in Elems(t)
    BY <1>4, <2>2
  <2> QED
    BY <1>9, <2>1, <2>2
<1>12. \A h \in homes : \A p \in Elems(HostTargets(h)) : Does(steps, "stash", p)
  BY <1>7, <1>8, <1>9
<1> QED
  BY <1>1, <1>8, <1>10, <1>11, <1>12 DEF t

-----------------------------------------------------------------------------
(* The first step of those that are left.                                  *)

\* What the first of the steps left is about, and what is left after it.
LEMMA FirstStep ==
  ASSUME TypeOK, Planned, stage = "working", todo # <<>>, todo' = Tail(todo),
         NEW p, p = Current, NEW do, do = Head(todo).do
  PROVE  /\ p \in Paths /\ do \in {"stash", "create"} /\ todo' \in Seq(Step)
         /\ p \in Left /\ Left' \subseteq Left /\ ToDo(do, p)
         /\ \A d, q : ToDo(d, q) => ToDo(d, q)' \/ (d = do /\ q = p)
         /\ do = "create" => p \notin Left' /\ Cleared(p)
         /\ do = "stash" => /\ disk[p] = before[p]
                            /\ p \notin Elems(created) /\ p \notin Elems(entries)
         /\ StashFirst(todo')
         /\ \A i \in DOMAIN todo' :
               /\ todo'[i].do = "stash" =>
                     /\ todo'[i].path # p /\ disk[todo'[i].path] = before[todo'[i].path]
                     /\ todo'[i].path \notin Elems(created)
                     /\ todo'[i].path \notin Elems(entries)
               /\ todo'[i].do = "create" =>
                     \/ Cleared(todo'[i].path) \/ StashBefore(todo', i)
                     \/ do = "stash" /\ todo'[i].path = p
<1> PICK n : n = Len(todo) - 1
  OBVIOUS
<1>1. /\ n \in Nat /\ DOMAIN todo = 1..(n + 1)
      /\ todo' \in Seq(Step) /\ DOMAIN todo' = 1..n
      /\ todo[1].path = p /\ todo[1].do = do /\ todo[1] \in Step
      /\ \A i \in 1..n : i + 1 \in DOMAIN todo /\ todo'[i] = todo[i + 1]
  BY TailOf DEF TypeOK, Current
<1>2. p \in Paths /\ do \in {"stash", "create"}
  BY <1>1 DEF Step
<1>3. p \in Left /\ ToDo(do, p)
  BY <1>1 DEF Left, ToDo
<1>4. Left' \subseteq Left
  BY <1>1 DEF Left
<1>5. ASSUME NEW d, NEW q, ToDo(d, q) PROVE ToDo(d, q)' \/ (d = do /\ q = p)
  <2>1. PICK i \in DOMAIN todo : todo[i].do = d /\ todo[i].path = q
    BY <1>5 DEF ToDo
  <2>2. CASE i = 1
    BY <1>1, <2>1, <2>2
  <2>3. CASE i # 1
    <3>1. i - 1 \in 1..n /\ (i - 1) + 1 = i
      BY <1>1, <2>3
    <3>2. i - 1 \in DOMAIN todo' /\ todo'[i - 1] = todo[i]
      BY <1>1, <3>1
    <3> QED
      BY <2>1, <3>2 DEF ToDo
  <2> QED
    BY <2>2, <2>3
<1>6. \A i \in 1..n : 1 < i + 1
  BY <1>1
<1>7. \A i \in 1..n : todo'[i].path = p => do = "stash" /\ todo'[i].do = "create"
  BY <1>1, <1>6 DEF Planned, StashFirst
<1>8. do = "create" => p \notin Left' /\ Cleared(p)
  <2>1. ASSUME do = "create" PROVE p \notin Left'
    BY <1>1, <1>7, <2>1 DEF Left
  <2>2. ~StashBefore(todo, 1)
    BY <1>1 DEF StashBefore
  <2> QED
    BY <1>1, <2>1, <2>2 DEF Planned, OutOfTheWay
<1>9. do = "stash" => /\ disk[p] = before[p]
                      /\ p \notin Elems(created) /\ p \notin Elems(entries)
  BY <1>1 DEF Planned, AsFound
<1>10. StashFirst(todo')
  <2> SUFFICES ASSUME NEW i \in 1..n, NEW k \in 1..n, i < k, todo'[i].path = todo'[k].path
               PROVE  todo'[i].do = "stash" /\ todo'[k].do = "create"
    BY <1>1 DEF StashFirst
  <2>1. i + 1 < k + 1
    BY <1>1
  <2> QED
    BY <1>1, <2>1 DEF Planned, StashFirst
<1>11. ASSUME NEW i \in DOMAIN todo', todo'[i].do = "stash"
       PROVE  /\ todo'[i].path # p /\ disk[todo'[i].path] = before[todo'[i].path]
              /\ todo'[i].path \notin Elems(created)
              /\ todo'[i].path \notin Elems(entries)
  BY <1>1, <1>7, <1>11 DEF Planned, AsFound
<1>12. ASSUME NEW i \in DOMAIN todo', todo'[i].do = "create"
       PROVE  \/ Cleared(todo'[i].path) \/ StashBefore(todo', i)
              \/ do = "stash" /\ todo'[i].path = p
  <2>1. Cleared(todo'[i].path) \/ StashBefore(todo, i + 1)
    BY <1>1, <1>12 DEF Planned, OutOfTheWay
  <2>2. ASSUME StashBefore(todo, i + 1)
        PROVE  StashBefore(todo', i) \/ (do = "stash" /\ todo'[i].path = p)
    <3>1. PICK k \in DOMAIN todo :
             k < i + 1 /\ todo[k].do = "stash" /\ todo[k].path = todo[i + 1].path
      BY <2>2 DEF StashBefore
    <3>2. CASE k = 1
      BY <1>1, <3>1, <3>2
    <3>3. CASE k # 1
      <4>1. k - 1 \in 1..n /\ (k - 1) + 1 = k /\ k - 1 < i
        BY <1>1, <3>1, <3>3
      <4>2. k - 1 \in DOMAIN todo' /\ todo'[k - 1] = todo[k]
        BY <1>1, <4>1
      <4> QED
        BY <1>1, <3>1, <4>1, <4>2 DEF StashBefore
    <3> QED
      BY <3>2, <3>3
  <2> QED
    BY <2>1, <2>2
<1> QED
  BY <1>1, <1>2, <1>3, <1>4, <1>5, <1>8, <1>9, <1>10, <1>11, <1>12

-----------------------------------------------------------------------------
(* The steps of the try block.                                             *)

\* What is protected depends on what was found alone.
LEMMA SameProtected == before' = before => Protected' = Protected
BY DEF Protected, ForeignHost, ForeignAgent, NotOurs

\* What every step of the try block that succeeds has in common: it changes at
\* most what is at its own path.
LEMMA WorkStep ==
  ASSUME SetupInv, stage = "working", todo # <<>>, todo' = Tail(todo),
         NEW p, p = Current, NEW do, do = Head(todo).do,
         UNCHANGED <<script, errors, outcome, run, before>>,
         \A q \in Paths \ {p} : disk'[q] = disk[q],
         do = "stash" => disk'[p] = Absent /\ Cleared(p)',
         do = "create" => disk'[p].owner = "us",
         saved \subseteq saved',
         Elems(created') \subseteq Elems(created) \union {p},
         Elems(entries') \subseteq Elems(entries) \union {p}
  PROVE  Running' /\ Planned' /\ Over' /\ Respected' /\ Progress'
<1>1. /\ stage' = "working" /\ kind' = kind /\ chosen' = chosen /\ forced' = forced
      /\ errors' = errors /\ outcome' = outcome /\ run' = run /\ before' = before
  BY DEF script
<1>2. /\ p \in Paths /\ do \in {"stash", "create"} /\ todo' \in Seq(Step)
      /\ p \in Left /\ Left' \subseteq Left /\ ToDo(do, p)
      /\ \A d, q : ToDo(d, q) => ToDo(d, q)' \/ (d = do /\ q = p)
      /\ do = "create" => p \notin Left' /\ Cleared(p)
      /\ StashFirst(todo')
      /\ \A i \in DOMAIN todo' :
            /\ todo'[i].do = "stash" =>
                  /\ todo'[i].path # p /\ disk[todo'[i].path] = before[todo'[i].path]
                  /\ todo'[i].path \notin Elems(created)
                  /\ todo'[i].path \notin Elems(entries)
            /\ todo'[i].do = "create" =>
                  \/ Cleared(todo'[i].path) \/ StashBefore(todo', i)
                  \/ do = "stash" /\ todo'[i].path = p
  BY FirstStep DEF SetupInv
<1>3. \A i \in DOMAIN todo' : \E k \in DOMAIN todo : todo'[i] = todo[k]
  <2>1. \A i \in 1..(Len(todo) - 1) : i + 1 \in 1..Len(todo)
    BY TailOf DEF SetupInv, TypeOK
  <2> QED
    BY <2>1, TailOf DEF SetupInv, TypeOK
<1>4. Running'
  BY <1>1, <1>3 DEF SetupInv, Running
<1>5. \A i \in DOMAIN todo' : todo'[i].path \in Paths
  <2>1. \A i \in DOMAIN todo' : todo'[i] \in Step
    BY <1>2
  <2> QED
    BY <2>1 DEF Step
<1>6. \A q : Cleared(q) => Cleared(q)'
  BY <1>1 DEF Cleared, Was
<1>7. Planned'
  <2>1. AsFound'
    BY <1>1, <1>2, <1>5 DEF AsFound
  <2>2. OutOfTheWay'
    <3>1. ASSUME NEW i \in DOMAIN todo', todo'[i].do = "create",
                 NEW q, q = todo'[i].path
          PROVE  \/ before'[q] = Absent \/ [path |-> q, file |-> before'[q]] \in saved'
                 \/ StashBefore(todo', i)
      <4>1. Cleared(q) \/ StashBefore(todo', i) \/ (do = "stash" /\ q = p)
        BY <1>2, <3>1
      <4>2. Cleared(q)' \/ StashBefore(todo', i)
        BY <1>6, <4>1
      <4> QED
        BY <4>2 DEF Cleared, Was
    <3> QED
      BY <3>1 DEF OutOfTheWay, Cleared, Was, StashBefore
  <2>3. StashFirst(todo)'
    BY <1>2 DEF StashFirst
  <2> QED
    BY <2>1, <2>2, <2>3 DEF Planned
<1>8. Over'
  BY <1>1 DEF Over
<1>9. Respected'
  <2> SUFFICES ASSUME ~forced, NEW q \in Protected
               PROVE  /\ disk'[q] = before[q] /\ q \notin Left'
                      /\ q \notin Elems(created') /\ q \notin Elems(entries')
    BY <1>1, SameProtected DEF Respected, Elems
  <2>1. /\ disk[q] = before[q] /\ q \notin Left
        /\ q \notin Elems(created) /\ q \notin Elems(entries)
    BY DEF SetupInv, Respected
  <2>2. q # p /\ q \in Paths
    BY <1>2, <2>1 DEF Protected
  <2> QED
    BY <1>2, <2>1, <2>2
<1>10. Progress'
  <2>1. ASSUME NEW h \in Homes, NEW q \in HostFiles(h) PROVE HostProgress(h, q)'
    <3>1. HostProgress(h, q) /\ q \in Paths
      BY PathsDiffer DEF SetupInv, Progress, Straight, HostFiles
    <3>2. /\ Removed(h)' = Removed(h)
      BY <1>1 DEF Removed
    <3>3. ASSUME kind = "install", h \in chosen
          PROVE  ToDo("create", q)' \/ (q \notin Left' /\ disk'[q].owner = "us")
      <4>1. CASE ToDo("create", q)
        BY <1>2, <4>1
      <4>2. CASE q \notin Left /\ disk[q].owner = "us"
        BY <1>2, <3>1, <4>2
      <4> QED
        BY <3>1, <3>3, <4>1, <4>2 DEF HostProgress
    <3>4. ASSUME kind = "uninstall", Removed(h)
          PROVE  ToDo("stash", q)' \/ disk'[q] = Absent
      <4>1. do = "stash"
        <5>1. 1 \in DOMAIN todo /\ todo[1].do = do
          BY TailOf DEF SetupInv, TypeOK
        <5> QED
          BY <3>4, <5>1 DEF SetupInv, Running
      <4>2. CASE ToDo("stash", q)
        BY <1>2, <4>1, <4>2
      <4>3. CASE disk[q] = Absent
        BY <3>1, <4>1, <4>3
      <4> QED
        BY <3>1, <3>4, <4>2, <4>3 DEF HostProgress
    <3>5. ASSUME ~(kind = "install" /\ h \in chosen), ~(kind = "uninstall" /\ Removed(h))
          PROVE  q \notin Left' /\ disk'[q] = before[q]
      BY <1>2, <3>1, <3>5 DEF HostProgress
    <3> QED
      BY <1>1, <3>2, <3>3, <3>4, <3>5 DEF HostProgress
  <2>2. \A h \in Homes : HostProgress(h, Skill(h))' /\ HostProgress(h, Marker(h))'
    BY <2>1 DEF HostFiles
  <2> QED
    BY <2>2 DEF Progress
<1> QED
  BY <1>4, <1>7, <1>8, <1>9, <1>10

\* What is written in place of a file is a file of ours.
LEMMA NewFileOf ==
  ASSUME TypeOK, NEW p
  PROVE  NewFile(p) \in File /\ NewFile(p).owner = "us"
BY DEF TypeOK, NewFile, File

\* A step that finds nothing to move away.
LEMMA SkipKeeps ==
  ASSUME SetupInv, Skip
  PROVE  SetupInv'
<1> PICK p : p = Current
  OBVIOUS
<1>1. /\ stage = "working" /\ todo # <<>> /\ Head(todo).do = "stash" /\ todo' = Tail(todo)
      /\ disk[p] = Absent
  BY DEF Skip, Working, Exists
<1>2. /\ UNCHANGED <<script, errors, outcome, run, before>>
      /\ disk' = disk /\ saved' = saved /\ created' = created /\ entries' = entries
  BY DEF Skip
<1>3. todo' \in Seq(Step) /\ disk[p] = before[p]
  BY <1>1, FirstStep DEF SetupInv
<1>4. Cleared(p)'
  BY <1>1, <1>2, <1>3 DEF Cleared
<1>5. Running' /\ Planned' /\ Over' /\ Respected' /\ Progress'
  BY <1>1, <1>2, <1>4, WorkStep
<1>6. TypeOK'
  BY <1>1, <1>2, <1>3 DEF SetupInv, TypeOK, script
<1>7. Tracked'
  BY <1>1, <1>2 DEF SetupInv, Tracked, script, Was, Cleared
<1> QED
  BY <1>5, <1>6, <1>7 DEF SetupInv

\* A file is moved beside its path.
LEMMA StashKeeps ==
  ASSUME SetupInv, Stash
  PROVE  SetupInv'
<1> PICK p : p = Current
  OBVIOUS
<1>1. /\ stage = "working" /\ todo # <<>> /\ Head(todo).do = "stash" /\ todo' = Tail(todo)
      /\ disk[p] # Absent /\ disk' = [disk EXCEPT ![p] = Absent]
      /\ saved' = saved \union {[path |-> p, file |-> disk[p]]}
      /\ entries' = Append(entries, p) /\ created' = created
  BY DEF Stash, Working, Exists, Item
<1>2. UNCHANGED <<script, errors, outcome, run, before>>
  BY DEF Stash
<1>3. /\ todo' \in Seq(Step) /\ disk[p] = before[p] /\ p \in Paths
      /\ p \notin Elems(created) /\ p \notin Elems(entries)
  BY <1>1, FirstStep DEF SetupInv
<1>4. /\ disk' \in Disk /\ disk'[p] = Absent /\ \A q \in Paths \ {p} : disk'[q] = disk[q]
      /\ disk[p] \in File
  BY <1>1, <1>3 DEF SetupInv, TypeOK, Disk
<1>5. /\ entries' \in Seq(Paths) /\ Elems(entries') = Elems(entries) \union {p}
      /\ Injective(entries) => Injective(entries')
  BY <1>1, <1>3, AppendOf DEF SetupInv, TypeOK
<1>6. Was(p)' \in saved' /\ Cleared(p)'
  BY <1>1, <1>2, <1>3 DEF Cleared, Was
<1>7. Running' /\ Planned' /\ Over' /\ Respected' /\ Progress'
  BY <1>1, <1>2, <1>4, <1>5, <1>6, WorkStep
<1>8. TypeOK'
  BY <1>1, <1>2, <1>3, <1>4, <1>5 DEF SetupInv, TypeOK, script
<1>9. Tracked'
  <2>1. /\ stage' = stage /\ before' = before /\ errors' = errors /\ errors = 0
    BY <1>1, <1>2 DEF script, SetupInv, Running
  <2>2. /\ \A s \in saved : s.file = before[s.path] /\ s.path \in Elems(entries)
        /\ \A q \in Elems(entries) : Was(q) \in saved
        /\ Injective(entries)
        /\ \A q \in Elems(created) : Cleared(q)
        /\ \A q \in Paths : q \notin Elems(created) /\ q \notin Elems(entries) =>
              disk[q] = before[q]
    BY <1>1, <2>1 DEF SetupInv, Tracked
  <2>3. \A s \in saved' : s.file = before'[s.path] /\ s.path \in Elems(entries')
    BY <1>1, <1>3, <1>5, <2>1, <2>2
  <2>4. \A q \in Elems(entries') : Was(q)' \in saved'
    BY <1>1, <1>5, <1>6, <2>1, <2>2 DEF Was
  <2>5. \A q \in Elems(created') : Cleared(q)'
    BY <1>1, <2>1, <2>2 DEF Cleared, Was
  <2>6. \A q \in Paths : q \notin Elems(created') /\ q \notin Elems(entries') =>
           disk'[q] = before'[q]
    BY <1>1, <1>4, <1>5, <2>1, <2>2
  <2> QED
    BY <1>5, <2>2, <2>3, <2>4, <2>5, <2>6 DEF Tracked
<1> QED
  BY <1>7, <1>8, <1>9 DEF SetupInv

\* A file is put at a path that was cleared for it.
LEMMA CreateKeeps ==
  ASSUME SetupInv, Create
  PROVE  SetupInv'
<1> PICK p : p = Current
  OBVIOUS
<1>1. /\ stage = "working" /\ todo # <<>> /\ Head(todo).do = "create" /\ todo' = Tail(todo)
      /\ disk' = [disk EXCEPT ![p] = NewFile(p)]
      /\ saved' = saved /\ entries' = entries /\ created' = Append(created, p)
  BY DEF Create, Working
<1>2. UNCHANGED <<script, errors, outcome, run, before>>
  BY DEF Create
<1>3. todo' \in Seq(Step) /\ p \in Paths /\ Cleared(p)
  BY <1>1, FirstStep DEF SetupInv
<1>4. /\ disk' \in Disk /\ disk'[p].owner = "us"
      /\ \A q \in Paths \ {p} : disk'[q] = disk[q]
  BY <1>1, <1>3, NewFileOf DEF SetupInv, TypeOK, Disk
<1>5. created' \in Seq(Paths) /\ Elems(created') = Elems(created) \union {p}
  BY <1>1, <1>3, AppendOf DEF SetupInv, TypeOK
<1>6. Running' /\ Planned' /\ Over' /\ Respected' /\ Progress'
  BY <1>1, <1>2, <1>4, <1>5, WorkStep
<1>7. TypeOK'
  BY <1>1, <1>2, <1>3, <1>4, <1>5 DEF SetupInv, TypeOK, script
<1>8. Tracked'
  <2>1. stage' = stage /\ before' = before /\ errors' = errors
    BY <1>2 DEF script
  <2>2. \A q : (Cleared(q) <=> Cleared(q)') /\ Was(q)' = Was(q)
    BY <1>1, <2>1 DEF Cleared, Was
  <2> QED
    BY <1>1, <1>3, <1>4, <1>5, <2>1, <2>2 DEF SetupInv, Tracked
<1> QED
  BY <1>6, <1>7, <1>8 DEF SetupInv

\* A file cannot be moved away: the roll back begins.
LEMMA StashFailsKeeps ==
  ASSUME SetupInv, StashFails
  PROVE  SetupInv'
<1>1. /\ stage = "working" /\ stage' = "undoing"
      /\ UNCHANGED <<disk, saved, kind, chosen, forced, todo, created, entries, errors,
                     outcome, run, before>>
  BY DEF StashFails, Working
<1>2. TypeOK' /\ Running' /\ Planned' /\ Over'
  BY <1>1 DEF SetupInv, TypeOK, Running, Planned, Over
<1>3. Tracked'
  BY <1>1 DEF SetupInv, Tracked, Was, Cleared
<1>4. Respected'
  BY <1>1, SameProtected DEF SetupInv, Respected
<1>5. Progress'
  BY <1>1 DEF SetupInv, Progress, Straight, Running
<1> QED
  BY <1>2, <1>3, <1>4, <1>5 DEF SetupInv

\* A file is put down in part, or not at all: the roll back begins.
LEMMA CreateFailsKeeps ==
  ASSUME SetupInv, CreateFails
  PROVE  SetupInv'
<1> PICK p : p = Current
  OBVIOUS
<1>1. /\ stage = "working" /\ todo # <<>> /\ Head(todo).do = "create" /\ stage' = "undoing"
      /\ disk' \in {disk, [disk EXCEPT ![p] = NewFile(p)]}
      /\ created' = Append(created, p)
  BY DEF CreateFails, Working
<1>2. UNCHANGED <<saved, kind, chosen, forced, todo, entries, errors, outcome, run, before>>
  BY DEF CreateFails
<1>3. p \in Paths /\ p \in Left /\ Cleared(p)
  <2>1. PICK rest : rest = Tail(todo)
    OBVIOUS
  <2>2. 1 \in DOMAIN todo /\ todo[1] = Head(todo) /\ todo[1] \in Step
    BY <1>1, TailOf DEF SetupInv, TypeOK
  <2>3. p \in Paths /\ todo[1].path = p /\ p \in Left
    BY <2>2 DEF Current, Step, Left
  <2>4. ~StashBefore(todo, 1)
    BY <1>1, TailOf DEF StashBefore, SetupInv, TypeOK
  <2> QED
    BY <1>1, <2>2, <2>3, <2>4 DEF SetupInv, Planned, OutOfTheWay
<1>4. disk' \in Disk /\ \A q \in Paths \ {p} : disk'[q] = disk[q]
  BY <1>1, <1>3, NewFileOf DEF SetupInv, TypeOK, Disk
<1>5. created' \in Seq(Paths) /\ Elems(created') = Elems(created) \union {p}
  BY <1>1, <1>3, AppendOf DEF SetupInv, TypeOK
<1>6. TypeOK' /\ Running' /\ Planned' /\ Over'
  BY <1>1, <1>2, <1>4, <1>5 DEF SetupInv, TypeOK, Running, Planned, Over
<1>7. Tracked'
  <2>1. \A q : (Cleared(q) <=> Cleared(q)') /\ Was(q)' = Was(q)
    BY <1>2 DEF Cleared, Was
  <2> QED
    BY <1>1, <1>2, <1>3, <1>4, <1>5, <2>1 DEF SetupInv, Tracked
<1>8. Respected'
  <2>1. \A q \in Protected : q \in Paths
    BY DEF Protected
  <2> QED
    BY <1>1, <1>2, <1>3, <1>4, <1>5, <2>1, SameProtected DEF SetupInv, Respected
<1>9. Progress'
  BY <1>1, <1>2 DEF SetupInv, Progress, Straight, Running
<1> QED
  BY <1>6, <1>7, <1>8, <1>9 DEF SetupInv

\* All steps are done: what was moved away is no longer needed.
LEMMA CommitKeeps ==
  ASSUME SetupInv, Commit
  PROVE  SetupInv'
<1>1. /\ stage = "working" /\ todo = <<>> /\ stage' = "cleaning"
      /\ UNCHANGED <<disk, saved, kind, chosen, forced, todo, created, entries, errors,
                     outcome, run, before>>
  BY DEF Commit
<1>2. TypeOK' /\ Running' /\ Planned' /\ Over' /\ Tracked'
  BY <1>1 DEF SetupInv, TypeOK, Running, Planned, Over, Tracked
<1>3. Respected'
  BY <1>1, SameProtected DEF SetupInv, Respected
<1>4. Progress'
  BY <1>1 DEF SetupInv, Progress, Straight, HostProgress, ToDo, Left, Removed
<1> QED
  BY <1>2, <1>3, <1>4 DEF SetupInv

-----------------------------------------------------------------------------
(* The steps of a roll back.                                               *)

\* The roll back removes what the script created, the last first.
LEMMA RemoveCreatedKeeps ==
  ASSUME SetupInv, RemoveCreated
  PROVE  SetupInv'
<1> PICK c : c = Last(created)
  OBVIOUS
<1>1. /\ stage = "undoing" /\ created # <<>> /\ created' = Front(created)
      /\ \/ disk' = [disk EXCEPT ![c] = Absent] /\ errors' = errors
         \/ errors < MaxErrors /\ errors' = errors + 1 /\ disk' = disk
      /\ UNCHANGED <<saved, kind, stage, chosen, forced, todo, entries, outcome, run, before>>
  BY DEF RemoveCreated, Undo, script
<1>2. /\ created' \in Seq(Paths) /\ c \in Paths
      /\ Elems(created) = Elems(created') \union {c}
  BY <1>1, FrontOf DEF SetupInv, TypeOK
<1>3. disk' \in Disk /\ \A q \in Paths \ {c} : disk'[q] = disk[q]
  BY <1>1, <1>2 DEF SetupInv, TypeOK, Disk
<1>4. /\ errors \in Nat /\ errors' \in 0..MaxErrors
      /\ errors' = 0 => errors = 0 /\ disk'[c] = Absent
      /\ errors > 0 => errors' > 0
      /\ errors' > 0 => errors > 0 \/ disk' = disk
      /\ disk'[c] = Absent \/ errors' > 0
  BY <1>1, <1>2 DEF SetupInv, TypeOK, Disk
<1>5. TypeOK' /\ Running' /\ Planned' /\ Over'
  BY <1>1, <1>2, <1>3, <1>4 DEF SetupInv, TypeOK, Running, Planned, Over
<1>6. Tracked'
  <2>1. \A q : (Cleared(q) <=> Cleared(q)') /\ Was(q)' = Was(q)
    BY <1>1 DEF Cleared, Was
  <2>2. /\ \A s \in saved : s.file = before[s.path] /\ (errors = 0 => s.path \in Elems(entries))
        /\ \A q \in Elems(entries) : Was(q) \in saved
        /\ Injective(entries)
        /\ \A q \in Elems(created) : Cleared(q)
        /\ \A q \in Paths : q \notin Elems(created) /\ q \notin Elems(entries) =>
              disk[q] = before[q] \/ (errors > 0 /\ Cleared(q))
    BY <1>1 DEF SetupInv, Tracked
  <2>3. ASSUME c \notin Elems(entries) PROVE disk'[c] = before[c] \/ errors' > 0
    <3>1. CASE Was(c) \in saved
      <4>1. errors # 0
        BY <2>2, <2>3, <3>1 DEF Was
      <4> QED
        BY <1>4, <4>1
    <3>2. CASE before[c] = Absent
      BY <1>4, <3>2
    <3> QED
      BY <1>2, <2>2, <3>1, <3>2 DEF Cleared
  <2>4. ASSUME NEW q \in Paths, q \notin Elems(created'), q \notin Elems(entries)
        PROVE  disk'[q] = before[q] \/ (errors' > 0 /\ Cleared(q))
    <3>1. CASE q = c
      BY <1>2, <2>2, <2>3, <2>4, <3>1
    <3>2. CASE q # c
      BY <1>2, <1>3, <1>4, <2>2, <2>4, <3>2
    <3> QED
      BY <3>1, <3>2
  <2>5. \A q \in Elems(created') : Cleared(q)'
    BY <1>2, <2>1, <2>2
  <2> QED
    BY <1>1, <1>4, <2>1, <2>2, <2>4, <2>5 DEF Tracked
<1>7. Respected'
  <2>1. \A q \in Protected : q \in Paths
    BY DEF Protected
  <2> QED
    BY <1>1, <1>2, <1>3, <2>1, SameProtected DEF SetupInv, Respected
<1>8. Progress'
  BY <1>1 DEF SetupInv, Progress, Straight, Running
<1> QED
  BY <1>5, <1>6, <1>7, <1>8 DEF SetupInv

\* What putting a file back, or failing to, has in common.
LEMMA UndoStep ==
  ASSUME SetupInv, stage = "undoing", created = <<>>, entries # <<>>,
         entries' = Front(entries),
         NEW e, e = Last(entries),
         UNCHANGED <<script, todo, created, outcome, run, before>>,
         disk' \in Disk, \A q \in Paths \ {e} : disk'[q] = disk[q],
         saved' \subseteq saved, errors' \in 0..MaxErrors
  PROVE  /\ TypeOK' /\ Running' /\ Planned' /\ Over' /\ Respected' /\ Progress'
         /\ e \in Paths /\ e \notin Elems(entries') /\ Injective(entries')
         /\ Elems(entries) = Elems(entries') \union {e} /\ Was(e) \in saved
<1>1. /\ stage' = "undoing" /\ created' = <<>>
      /\ UNCHANGED <<kind, stage, chosen, forced, todo, outcome, run, before>>
  BY DEF script
<1>2. /\ e \in Paths /\ entries' \in Seq(Paths)
      /\ Elems(entries) = Elems(entries') \union {e}
      /\ Injective(entries) => Injective(entries') /\ e \notin Elems(entries')
  BY FrontOf DEF SetupInv, TypeOK
<1>3. Injective(entries) /\ Was(e) \in saved
  BY <1>2 DEF SetupInv, Tracked
<1>4. TypeOK' /\ Running' /\ Planned' /\ Over'
  BY <1>1, <1>2 DEF SetupInv, TypeOK, Running, Planned, Over
<1>5. Respected'
  <2>1. \A q \in Protected : q \in Paths
    BY DEF Protected
  <2> QED
    BY <1>1, <1>2, <2>1, SameProtected DEF SetupInv, Respected
<1>6. Progress'
  BY <1>1 DEF SetupInv, Progress, Straight, Running
<1> QED
  BY <1>2, <1>3, <1>4, <1>5, <1>6

\* The roll back puts a file back at its path.
LEMMA RestoreKeeps ==
  ASSUME SetupInv, Restore
  PROVE  SetupInv'
<1> PICK e : e = Last(entries)
  OBVIOUS
<1>1. PICK s \in saved : /\ s.path = e /\ disk' = [disk EXCEPT ![e] = s.file]
                         /\ saved' = saved \ {s}
  BY DEF Restore
<1>2. /\ stage = "undoing" /\ created = <<>> /\ entries # <<>> /\ entries' = Front(entries)
      /\ UNCHANGED <<script, todo, created, errors, outcome, run, before>>
  BY DEF Restore, Undo
<1>3. e \in Paths
  BY <1>2, FrontOf DEF SetupInv, TypeOK
<1>4. /\ s = [path |-> s.path, file |-> s.file] /\ s.file \in File /\ s.file = before[e]
  BY <1>1, <1>2 DEF SetupInv, TypeOK, Tracked
<1>5. s = Was(e)
  BY <1>1, <1>4 DEF Was
<1>6. /\ disk' \in Disk /\ disk'[e] = before[e] /\ \A q \in Paths \ {e} : disk'[q] = disk[q]
      /\ saved' \subseteq saved /\ errors' \in 0..MaxErrors
  BY <1>1, <1>2, <1>3, <1>4 DEF SetupInv, TypeOK, Disk
<1>7. /\ TypeOK' /\ Running' /\ Planned' /\ Over' /\ Respected' /\ Progress'
      /\ e \notin Elems(entries') /\ Injective(entries')
      /\ Elems(entries) = Elems(entries') \union {e}
  BY <1>2, <1>6, UndoStep
<1>8. Tracked'
  <2>1. stage' = stage /\ before' = before /\ errors' = errors /\ created' = <<>>
    BY <1>2 DEF script
  <2>2. /\ \A t \in saved : t.file = before[t.path] /\ (errors = 0 => t.path \in Elems(entries))
        /\ \A q \in Elems(entries) : Was(q) \in saved
        /\ \A q \in Paths : q \notin Elems(created) /\ q \notin Elems(entries) =>
              disk[q] = before[q] \/ (errors > 0 /\ Cleared(q))
    BY <1>2 DEF SetupInv, Tracked
  <2>3. \A q : q # e => Was(q) # s
    BY <1>5 DEF Was
  <2>4. \A q : q # e => Was(q)' = Was(q) /\ (Cleared(q) => Cleared(q)')
    BY <1>1, <2>1, <2>3 DEF Cleared, Was
  <2>5. \A t \in saved' : t.path # e
    <3>1. \A t \in saved : t = [path |-> t.path, file |-> t.file]
      BY DEF SetupInv, TypeOK
    <3>2. \A t \in saved : t.path = e => t = Was(e)
      BY <2>2, <3>1 DEF Was
    <3> QED
      BY <1>1, <1>5, <3>2
  <2>6. \A t \in saved' : t.file = before[t.path] /\ (errors = 0 => t.path \in Elems(entries'))
    BY <1>1, <1>7, <2>2, <2>5
  <2>7. \A q \in Elems(entries') : Was(q)' \in saved'
    <3> SUFFICES ASSUME NEW q \in Elems(entries') PROVE Was(q)' \in saved'
      OBVIOUS
    <3>1. q # e /\ Was(q) \in saved
      BY <1>7, <2>2
    <3> QED
      BY <1>1, <2>3, <2>4, <3>1
  <2>8. Elems(created) = {} /\ Elems(created') = {}
    BY <1>2, <2>1 DEF Elems
  <2>9. ASSUME NEW q \in Paths, q \notin Elems(entries')
        PROVE  disk'[q] = before[q] \/ (errors > 0 /\ Cleared(q)')
    <3>1. CASE q = e
      BY <1>6, <3>1
    <3>2. CASE q # e
      BY <1>6, <1>7, <2>2, <2>4, <2>8, <2>9, <3>2
    <3> QED
      BY <3>1, <3>2
  <2> QED
    BY <1>7, <2>1, <2>6, <2>7, <2>8, <2>9 DEF Tracked
<1> QED
  BY <1>7, <1>8 DEF SetupInv

\* A file cannot be put back: it stays beside its path.
LEMMA RestoreFailsKeeps ==
  ASSUME SetupInv, RestoreFails
  PROVE  SetupInv'
<1> PICK e : e = Last(entries)
  OBVIOUS
<1>1. /\ stage = "undoing" /\ created = <<>> /\ entries # <<>> /\ entries' = Front(entries)
      /\ disk' \in {disk, [disk EXCEPT ![e] = Absent]}
      /\ errors < MaxErrors /\ errors' = errors + 1
      /\ UNCHANGED <<saved, script, todo, created, outcome, run, before>>
  BY DEF RestoreFails, Undo
<1>2. e \in Paths
  BY <1>1, FrontOf DEF SetupInv, TypeOK
<1>3. /\ disk' \in Disk /\ \A q \in Paths \ {e} : disk'[q] = disk[q]
      /\ saved' \subseteq saved /\ errors' \in 0..MaxErrors /\ errors' > 0
  BY <1>1, <1>2 DEF SetupInv, TypeOK, Disk
<1>4. /\ TypeOK' /\ Running' /\ Planned' /\ Over' /\ Respected' /\ Progress'
      /\ Injective(entries') /\ Was(e) \in saved
      /\ Elems(entries) = Elems(entries') \union {e}
  BY <1>1, <1>3, UndoStep
<1>5. Tracked'
  <2>1. stage' = stage /\ before' = before /\ created' = created
    BY <1>1 DEF script
  <2>2. \A q : (Cleared(q) <=> Cleared(q)') /\ Was(q)' = Was(q)
    BY <1>1, <2>1 DEF Cleared, Was
  <2>3. /\ \A t \in saved : t.file = before[t.path]
        /\ \A q \in Elems(entries) : Was(q) \in saved
        /\ \A q \in Elems(created) : Cleared(q)
        /\ \A q \in Paths : q \notin Elems(created) /\ q \notin Elems(entries) =>
              disk[q] = before[q] \/ (errors > 0 /\ Cleared(q))
    BY <1>1 DEF SetupInv, Tracked
  <2>4. ASSUME NEW q \in Paths, q \notin Elems(created), q \notin Elems(entries')
        PROVE  disk'[q] = before[q] \/ (errors' > 0 /\ Cleared(q))
    <3>1. CASE q = e
      BY <1>3, <1>4, <3>1 DEF Cleared
    <3>2. CASE q # e
      BY <1>3, <1>4, <2>3, <2>4, <3>2
    <3> QED
      BY <3>1, <3>2
  <2> QED
    BY <1>1, <1>3, <1>4, <2>1, <2>2, <2>3, <2>4 DEF Tracked
<1> QED
  BY <1>4, <1>5 DEF SetupInv

\* The roll back is over.
LEMMA UndoneKeeps ==
  ASSUME SetupInv, Undone
  PROVE  SetupInv'
<1>1. /\ stage = "undoing" /\ created = <<>> /\ entries = <<>>
      /\ stage' = "idle" /\ todo' = <<>> /\ errors' = 0
      /\ outcome' = IF errors > 0 THEN "ROLLBACK_FAILED" ELSE "FAILED"
      /\ UNCHANGED <<disk, saved, kind, chosen, forced, created, entries, run, before>>
  BY DEF Undone, Undo
<1>2. /\ outcome' \in {"ROLLBACK_FAILED", "FAILED"}
      /\ outcome' = "FAILED" => errors = 0
  BY <1>1 DEF SetupInv, TypeOK
<1>3. TypeOK'
  BY <1>1, <1>2 DEF SetupInv, TypeOK, Outcomes
<1>4. Running' /\ Planned' /\ Tracked'
  BY <1>1, <1>2 DEF SetupInv, Running, Planned, Tracked
<1>5. Over'
  <2>1. Elems(created) = {} /\ Elems(entries) = {}
    BY <1>1 DEF Elems
  <2>2. /\ \A s \in saved : errors = 0 => s.path \in Elems(entries)
        /\ \A q \in Paths : disk[q] = before[q] \/ (errors > 0 /\ Cleared(q))
    BY <1>1, <2>1 DEF SetupInv, Tracked
  <2>3. \A q : Cleared(q) <=> Cleared(q)'
    BY <1>1 DEF Cleared, Was
  <2>4. ASSUME errors = 0 PROVE disk = before /\ saved = {}
    <3>1. \A q \in Paths : disk[q] = before[q]
      BY <2>2, <2>4
    <3>2. disk = before
      BY <3>1 DEF SetupInv, TypeOK, Disk
    <3> QED
      BY <2>1, <2>2, <2>4, <3>2
  <2> QED
    BY <1>1, <1>2, <2>2, <2>3, <2>4 DEF Over
<1>6. Respected'
  BY <1>1, SameProtected DEF SetupInv, Respected
<1>7. Progress'
  BY <1>1, <1>2 DEF Progress, Straight
<1> QED
  BY <1>3, <1>4, <1>5, <1>6, <1>7 DEF SetupInv

-----------------------------------------------------------------------------
(* After the commit, and the end of a script that is killed.               *)

\* What was moved away is deleted after the commit, or cannot be.
LEMMA DiscardKeeps ==
  ASSUME SetupInv, Discard
  PROVE  SetupInv'
<1>1. /\ stage = "cleaning" /\ entries # <<>> /\ entries' = Tail(entries)
      /\ saved' \subseteq saved
      /\ UNCHANGED <<disk, kind, stage, chosen, forced, todo, created, errors, outcome, run,
                     before>>
  BY DEF Discard, script
<1>2. entries' \in Seq(Paths) /\ Elems(entries') \subseteq Elems(entries)
  BY <1>1, TailOf DEF SetupInv, TypeOK
<1>3. TypeOK' /\ Running' /\ Planned' /\ Tracked' /\ Over'
  BY <1>1, <1>2 DEF SetupInv, TypeOK, Running, Planned, Tracked, Over
<1>4. Respected'
  BY <1>1, <1>2, SameProtected DEF SetupInv, Respected
<1>5. Progress'
  BY <1>1 DEF SetupInv, Progress, Straight, HostProgress, ToDo, Left, Removed
<1> QED
  BY <1>3, <1>4, <1>5 DEF SetupInv

\* The script has run to its end.
LEMMA CleanedKeeps ==
  ASSUME SetupInv, Cleaned
  PROVE  SetupInv'
<1>1. /\ stage = "cleaning" /\ entries = <<>> /\ stage' = "idle" /\ created' = <<>>
      /\ outcome' = IF kind = "install" THEN "INSTALLED" ELSE "UNINSTALLED"
      /\ UNCHANGED <<disk, saved, kind, chosen, forced, todo, entries, errors, run, before>>
  BY DEF Cleaned
<1>2. todo = <<>> /\ errors = 0 /\ kind \in {"install", "uninstall"}
  BY <1>1 DEF SetupInv, TypeOK, Running
<1>3. TypeOK'
  BY <1>1, <1>2 DEF SetupInv, TypeOK, Outcomes
<1>4. Running' /\ Planned' /\ Tracked' /\ Over'
  BY <1>1, <1>2 DEF SetupInv, Running, Planned, Tracked, Over
<1>5. Respected'
  <2>1. Elems(created') = {}
    BY <1>1 DEF Elems
  <2> QED
    BY <1>1, <2>1, SameProtected DEF SetupInv, Respected
<1>6. Progress'
  BY <1>1 DEF SetupInv, Progress, Straight, HostProgress, ToDo, Left, Removed
<1> QED
  BY <1>3, <1>4, <1>5, <1>6 DEF SetupInv

\* The script is killed: what it had moved away stays beside its path.
LEMMA CrashKeeps ==
  ASSUME SetupInv, Crash
  PROVE  SetupInv'
<1>1. /\ stage # "idle" /\ stage' = "idle"
      /\ todo' = <<>> /\ created' = <<>> /\ entries' = <<>> /\ errors' = 0
      /\ outcome' = IF stage = "cleaning" THEN "CRASHED_LATE" ELSE "CRASHED"
      /\ UNCHANGED <<disk, saved, kind, chosen, forced, run, before>>
  BY DEF Crash
<1>2. TypeOK'
  BY <1>1 DEF SetupInv, TypeOK, Outcomes
<1>3. Running' /\ Planned' /\ Tracked'
  BY <1>1 DEF SetupInv, Running, Planned, Tracked
<1>4. Over'
  <2>1. ASSUME outcome' = "CRASHED" PROVE stage \in {"working", "undoing"}
    BY <1>1, <2>1 DEF SetupInv, TypeOK
  <2>2. ASSUME stage \in {"working", "undoing"}, NEW q \in Paths
        PROVE  before[q] = disk[q] \/ Cleared(q)
    BY <2>2 DEF SetupInv, Tracked, Cleared
  <2>3. \A q : Cleared(q) <=> Cleared(q)'
    BY <1>1 DEF Cleared, Was
  <2> QED
    BY <1>1, <2>1, <2>2, <2>3 DEF Over
<1>5. Respected'
  <2>1. Elems(created') = {} /\ Elems(entries') = {}
    BY <1>1 DEF Elems
  <2> QED
    BY <1>1, <2>1, SameProtected DEF SetupInv, Respected
<1>6. Progress'
  BY <1>1 DEF Progress, Straight
<1> QED
  BY <1>2, <1>3, <1>4, <1>5, <1>6 DEF SetupInv

\* Nothing happens.
LEMMA StutterKeeps ==
  ASSUME SetupInv, UNCHANGED vars
  PROVE  SetupInv'
BY SameProtected
   DEF SetupInv, vars, script, TypeOK, Running, Planned, AsFound, StashFirst, OutOfTheWay,
       StashBefore, Cleared, Was, Tracked, Over, Respected, Left, Progress, Straight,
       HostProgress, ToDo, Removed, Elems, Injective

-----------------------------------------------------------------------------
(* A script starts.                                                        *)

\* Something at a path is ours or somebody else's.
LEMMA OwnerOf ==
  ASSUME TypeOK, NEW p \in Paths
  PROVE  /\ Exists(p) => Owner(p) \in {"us", "them"}
         /\ Owner(p) \in {"us", "them"} => Exists(p)
BY DEF TypeOK, Disk, File, Absent, Exists, Owner

\* A script that starts is refused, or has steps before it that respect what is
\* not ours and, for each host it is about, do all that they should.
LEMMA StartStep ==
  ASSUME SetupInv, stage = "idle", run' = run + 1, saved' = {}, disk' \in Disk,
         before' = disk', kind' \in {"install", "uninstall"}, chosen' \subseteq Homes,
         forced' \in BOOLEAN, UNCHANGED <<created, entries, errors>>,
         NEW steps,
         \/ outcome' = "REFUSED" /\ UNCHANGED <<stage, todo>>
         \/ /\ outcome' = "RUNNING" /\ stage' = "working" /\ todo' = steps
            /\ steps \in Seq(Step) /\ StashFirst(steps) /\ Backed(steps)
            /\ kind' = "uninstall" => OnlyStashes(steps)
            /\ ~forced' => \A p \in Touches(steps) : p \notin Protected'
            /\ \A h \in Homes : HostProgress(h, Skill(h))' /\ HostProgress(h, Marker(h))'
  PROVE  SetupInv'
<1>1. /\ created' = <<>> /\ entries' = <<>> /\ errors' = 0
      /\ Elems(created') = {} /\ Elems(entries') = {} /\ Injective(entries')
  BY DEF SetupInv, TypeOK, Elems, Injective
<1>2. run' \in Nat /\ 0 \in 0..MaxErrors
  BY DEF SetupInv, TypeOK
<1>3. \A q \in Protected' : q \in Paths
  BY DEF Protected
<1>4. CASE outcome' = "REFUSED" /\ UNCHANGED <<stage, todo>>
  <2>1. stage' = "idle" /\ todo' = <<>>
    BY <1>4 DEF SetupInv, TypeOK
  <2>2. TypeOK'
    BY <1>1, <1>2, <1>4, <2>1 DEF TypeOK, Outcomes
  <2>3. Running' /\ Planned' /\ Tracked' /\ Over' /\ Progress'
    BY <1>1, <1>4, <2>1 DEF Running, Planned, Tracked, Over, Progress, Straight
  <2>4. Respected'
    BY <1>1, <2>1 DEF Respected
  <2> QED
    BY <2>2, <2>3, <2>4 DEF SetupInv
<1>5. ASSUME outcome' = "RUNNING", stage' = "working", todo' = steps,
             steps \in Seq(Step), StashFirst(steps), Backed(steps),
             kind' = "uninstall" => OnlyStashes(steps),
             ~forced' => \A p \in Touches(steps) : p \notin Protected',
             \A h \in Homes : HostProgress(h, Skill(h))' /\ HostProgress(h, Marker(h))'
      PROVE  SetupInv'
  <2>1. TypeOK'
    BY <1>1, <1>2, <1>5 DEF TypeOK, Outcomes
  <2>2. \A i \in DOMAIN steps : steps[i] \in Elems(steps)
    BY DEF Elems
  <2>3. Running'
    BY <1>1, <1>5, <2>2 DEF Running, OnlyStashes
  <2>4. Planned'
    <3>1. AsFound'
      BY <1>1, <1>5 DEF AsFound
    <3>2. OutOfTheWay'
      BY <1>5 DEF OutOfTheWay, Backed, StashBefore
    <3>3. StashFirst(todo)'
      BY <1>5 DEF StashFirst
    <3> QED
      BY <3>1, <3>2, <3>3 DEF Planned
  <2>5. Tracked'
    BY <1>1 DEF Tracked
  <2>6. Over'
    BY <1>5 DEF Over
  <2>7. Respected'
    <3>1. ~forced' => \A q \in Protected' : q \notin Left'
      BY <1>5, <2>2 DEF Left, Touches
    <3> QED
      BY <1>1, <3>1 DEF Respected
  <2>8. Progress'
    BY <1>5 DEF Progress
  <2> QED
    BY <2>1, <2>3, <2>4, <2>5, <2>6, <2>7, <2>8 DEF SetupInv
<1> QED
  BY <1>4, <1>5

\* An installation is begun, when its checks have passed.
LEMMA InstallKeeps ==
  ASSUME SetupInv, NEW codex \in CodexHomes \union {NoHome},
         NEW claude \in ClaudeHomes \union {NoHome},
         NEW force \in BOOLEAN, NEW runtime \in BOOLEAN, Install(codex, claude, force, runtime)
  PROVE  SetupInv'
<1> PICK homes : homes = {codex, claude} \ {NoHome}
  OBVIOUS
<1> PICK steps : steps = InstallSteps(codex, claude)
  OBVIOUS
<1>1. /\ stage = "idle" /\ run' = run + 1 /\ saved' = {} /\ before' = disk'
      /\ kind' = "install" /\ chosen' = homes /\ forced' = force
      /\ UNCHANGED <<created, entries, errors>>
      /\ MakeRuntime(runtime)
      /\ \/ InstallRefused(homes) /\ ~force
            /\ outcome' = "REFUSED" /\ UNCHANGED <<stage, todo>>
         \/ ~(InstallRefused(homes) /\ ~force)
            /\ outcome' = "RUNNING" /\ stage' = "working" /\ todo' = steps
  BY DEF Install
<1>2. /\ disk' \in Disk /\ \A q \in Paths \ {Runtime} : disk'[q] = disk[q]
  <2>1. [owner |-> "us", run |-> run', homes |-> {}] \in File
    BY <1>1 DEF File, SetupInv, TypeOK
  <2> QED
    BY <1>1, <2>1, PathsDiffer DEF MakeRuntime, SetupInv, TypeOK, Disk
<1>3. /\ steps \in Seq(Step) /\ StashFirst(steps) /\ Backed(steps) /\ homes \subseteq Homes
      /\ \A p \in Touches(steps) :
            p = State \/ \E h \in homes : p \in HostFiles(h) \union AgentFiles(h)
      /\ \A h \in homes : \A p \in HostFiles(h) : Does(steps, "create", p)
  <2>1. InstallWork(steps, homes, codex, claude)
    BY DEF InstallWork
  <2> QED
    BY <2>1, InstallStepsOf
<1>4. ASSUME ~InstallRefused(homes), NEW p \in Touches(steps)
      PROVE  p \notin Protected'
  <2> SUFFICES ASSUME p \in Protected' PROVE FALSE
    OBVIOUS
  <2>1. \/ \E h \in Homes : ForeignHost(h)' /\ p \in HostFiles(h)
        \/ \E h \in ClaudeHomes : ForeignAgent(h)' /\ p \in {Agent(h), AgentMarker(h)}
        \/ before'[State].owner = "them" /\ p = State
    BY DEF Protected, HostFiles
  <2>2. CASE before'[State].owner = "them"
    BY <1>1, <1>2, <1>4, <2>2, PathsDiffer DEF InstallRefused, Owner
  <2>3. ASSUME NEW h \in Homes, ForeignHost(h)', p \in HostFiles(h) PROVE FALSE
    <3>1. h \in homes
      BY <1>3, <2>3, PathsDiffer
    <3>2. disk'[Marker(h)] = disk[Marker(h)] /\ disk'[Skill(h)] = disk[Skill(h)]
      BY <1>2, PathsDiffer DEF HostFiles
    <3>3. Marker(h) \in Paths
      BY <2>3, PathsDiffer DEF HostFiles
    <3>4. Owner(Marker(h)) # "us" /\ (Exists(Marker(h)) \/ Exists(Skill(h)))
      BY <1>1, <2>3, <3>2 DEF ForeignHost, NotOurs, Owner, Exists
    <3>5. HostRefused(h)
      BY <3>3, <3>4, OwnerOf DEF HostRefused, SetupInv
    <3> QED
      BY <1>4, <3>1, <3>5 DEF InstallRefused
  <2>4. ASSUME NEW h \in ClaudeHomes, ForeignAgent(h)', p \in {Agent(h), AgentMarker(h)}
        PROVE  FALSE
    <3>1. h \in Homes /\ p \in AgentFiles(h)
      BY <2>4 DEF Homes, AgentFiles
    <3>2. h \in homes
      BY <1>3, <3>1, PathsDiffer
    <3>3. disk'[AgentMarker(h)] = disk[AgentMarker(h)] /\ disk'[Agent(h)] = disk[Agent(h)]
      BY <1>2, <3>1, PathsDiffer DEF AgentFiles
    <3>4. HostRefused(h)
      BY <1>1, <2>4, <3>1, <3>3, OwnerOf, PathsDiffer
         DEF ForeignAgent, NotOurs, HostRefused, Owner, Exists, SetupInv, AgentFiles
    <3> QED
      BY <1>4, <3>2, <3>4 DEF InstallRefused
  <2> QED
    BY <2>1, <2>2, <2>3, <2>4
<1>5. CASE outcome' = "RUNNING" /\ stage' = "working" /\ todo' = steps
           /\ ~(InstallRefused(homes) /\ ~force)
  <2>1. ASSUME NEW h \in Homes, NEW p \in HostFiles(h) PROVE HostProgress(h, p)'
    <3>1. CASE h \in homes
      <4>1. ToDo("create", p)'
        BY <1>3, <1>5, <3>1 DEF ToDo, Elems, Does
      <4> QED
        BY <1>1, <3>1, <4>1 DEF HostProgress
    <3>2. CASE h \notin homes
      <4>1. p \notin Touches(steps)
        BY <1>3, <3>2, PathsDiffer
      <4>2. p \notin Left'
        BY <1>5, <4>1 DEF Left, Elems, Touches
      <4> QED
        BY <1>1, <3>2, <4>2 DEF HostProgress
    <3> QED
      BY <3>1, <3>2
  <2>2. \A h \in Homes : HostProgress(h, Skill(h))' /\ HostProgress(h, Marker(h))'
    BY <2>1 DEF HostFiles
  <2>3. kind' = "uninstall" => OnlyStashes(steps)
    BY <1>1
  <2>4. ~forced' => \A p \in Touches(steps) : p \notin Protected'
    BY <1>1, <1>4, <1>5
  <2> QED
    BY <1>1, <1>2, <1>3, <1>5, <2>2, <2>3, <2>4, StartStep
<1>6. CASE outcome' = "REFUSED" /\ UNCHANGED <<stage, todo>>
  BY <1>1, <1>2, <1>3, <1>6, StartStep
<1> QED
  BY <1>1, <1>5, <1>6

\* An uninstallation is begun, when its checks have passed.
LEMMA UninstallKeeps ==
  ASSUME SetupInv, NEW codex \in CodexHomes, NEW claude \in ClaudeHomes,
         NEW removeRuntime \in BOOLEAN, NEW homes \in {{codex}, {claude}, {codex, claude}},
         Uninstall(codex, claude, homes, removeRuntime)
  PROVE  SetupInv'
<1> PICK shared : shared = (Remaining({codex, claude}, homes) # {})
  OBVIOUS
<1> PICK rest : rest = SharedTargets(shared, removeRuntime)
  OBVIOUS
<1> PICK steps : steps = Steps("stash",
                   (IF codex \in homes THEN HostTargets(codex) ELSE <<>>)
                   \o (IF claude \in homes THEN HostTargets(claude) ELSE <<>>)
                   \o rest)
  OBVIOUS
<1>1. /\ stage = "idle" /\ run' = run + 1 /\ saved' = {} /\ before' = disk' /\ disk' = disk
      /\ kind' = "uninstall" /\ chosen' = homes /\ forced' = FALSE
      /\ UNCHANGED <<created, entries, errors>>
      /\ \/ outcome' = "REFUSED" /\ UNCHANGED <<stage, todo>>
         \/ (\A h \in homes : ~UninstallRefuses(h))
            /\ outcome' = "RUNNING" /\ stage' = "working" /\ todo' = steps
  BY DEF Uninstall
<1>2. disk' \in Disk
  BY <1>1 DEF SetupInv, TypeOK
<1>2a. /\ rest \in Seq(Paths) /\ Injective(rest) /\ Elems(rest) \subseteq {State, Runtime}
       /\ State \in Elems(rest) => Owner(State) = "us"
       /\ shared => Elems(rest) = {}
  BY SharedTargetsOf
<1>3. /\ steps \in Seq(Step) /\ StashFirst(steps) /\ homes \subseteq Homes
      /\ OnlyStashes(steps) /\ Touches(steps) \subseteq Paths
      /\ \A p \in Touches(steps) :
            p \in Elems(rest) \/ \E h \in homes : p \in Elems(HostTargets(h))
      /\ \A h \in homes : \A p \in Elems(HostTargets(h)) : Does(steps, "stash", p)
  <2>1. UninstallWork(steps, codex, claude, homes, rest)
    BY <1>2a DEF UninstallWork
  <2> QED
    BY ONLY <2>1, UninstallStepsOf
<1>4. Backed(steps)
  <2>1. \A i \in DOMAIN steps : steps[i] \in Elems(steps)
    BY DEF Elems
  <2> QED
    BY <1>3, <2>1 DEF Backed, OnlyStashes
<1>5. \A h \in homes :
         /\ Elems(HostTargets(h)) \subseteq HostFiles(h) \union AgentFiles(h)
         /\ Exists(Marker(h)) => HostFiles(h) \subseteq Elems(HostTargets(h))
         /\ ~Exists(Marker(h)) => HostFiles(h) \intersect Elems(HostTargets(h)) = {}
         /\ ~Exists(AgentMarker(h)) => AgentFiles(h) \intersect Elems(HostTargets(h)) = {}
  BY <1>3, HostTargetsOf
<1>6. ASSUME \A h \in homes : ~UninstallRefuses(h), NEW p \in Touches(steps)
      PROVE  p \notin Protected'
  <2> SUFFICES ASSUME p \in Protected' PROVE FALSE
    OBVIOUS
  <2>1. \/ \E h \in Homes : ForeignHost(h)' /\ p \in HostFiles(h)
        \/ \E h \in ClaudeHomes : ForeignAgent(h)' /\ p \in {Agent(h), AgentMarker(h)}
        \/ before'[State].owner = "them" /\ p = State
    BY DEF Protected, HostFiles
  <2>2. CASE before'[State].owner = "them" /\ p = State
    BY <1>1, <1>2a, <1>3, <1>5, <2>2, PathsDiffer DEF Owner
  <2>3. ASSUME NEW h \in Homes, ForeignHost(h)', p \in HostFiles(h) PROVE FALSE
    <3>1. h \in homes /\ p \in Elems(HostTargets(h))
      <4>1. p # State /\ p # Runtime
        BY <2>3, PathsDiffer
      <4>2. PICK g \in homes : p \in Elems(HostTargets(g))
        BY <1>2a, <1>3, <4>1
      <4>3. g \in Homes /\ p \in HostFiles(g) \union AgentFiles(g)
        BY <1>3, <1>5, <4>2
      <4>4. g = h
        BY <2>3, <4>3, PathsDiffer
      <4> QED
        BY <4>2, <4>4
    <3>2. Exists(Marker(h)) /\ Marker(h) \in Paths
      BY <1>5, <2>3, <3>1, PathsDiffer DEF HostFiles
    <3>3. UninstallRefuses(h)
      BY <1>1, <2>3, <3>2, OwnerOf DEF ForeignHost, NotOurs, UninstallRefuses, Owner, SetupInv
    <3> QED
      BY <1>6, <3>1, <3>3
  <2>4. ASSUME NEW h \in ClaudeHomes, ForeignAgent(h)', p \in {Agent(h), AgentMarker(h)}
        PROVE  FALSE
    <3>1. h \in Homes /\ p \in AgentFiles(h)
      BY <2>4 DEF Homes, AgentFiles
    <3>2. h \in homes /\ p \in Elems(HostTargets(h))
      <4>1. p # State /\ p # Runtime
        BY <3>1, PathsDiffer
      <4>2. PICK g \in homes : p \in Elems(HostTargets(g))
        BY <1>2a, <1>3, <4>1
      <4>3. g \in Homes /\ p \in HostFiles(g) \union AgentFiles(g)
        BY <1>3, <1>5, <4>2
      <4>4. g = h
        BY <3>1, <4>3, PathsDiffer
      <4> QED
        BY <4>2, <4>4
    <3>3. Exists(AgentMarker(h)) /\ AgentMarker(h) \in Paths
      BY <1>5, <2>4, <3>1, <3>2, PathsDiffer DEF AgentFiles
    <3>4. UninstallRefuses(h)
      BY <1>1, <2>4, <3>3, OwnerOf DEF ForeignAgent, NotOurs, UninstallRefuses, Owner, SetupInv
    <3> QED
      BY <1>6, <3>2, <3>4
  <2> QED
    BY <2>1, <2>2, <2>3, <2>4
<1>7. CASE outcome' = "RUNNING" /\ stage' = "working" /\ todo' = steps
           /\ \A h \in homes : ~UninstallRefuses(h)
  <2>1. ASSUME NEW h \in Homes, NEW p \in HostFiles(h) PROVE HostProgress(h, p)'
    <3>0. Removed(h)' <=> h \in homes /\ Exists(Marker(h))
      BY <1>1 DEF Removed, Exists
    <3>1. CASE h \in homes /\ Exists(Marker(h))
      <4>1. Does(steps, "stash", p)
        BY <1>3, <1>5, <3>1
      <4>2. ToDo("stash", p)'
        BY ONLY <1>7, <4>1 DEF ToDo, Elems, Does
      <4> QED
        BY <1>1, <3>0, <3>1, <4>2 DEF HostProgress
    <3>2. CASE ~(h \in homes /\ Exists(Marker(h)))
      <4>1. p \notin Touches(steps)
        <5> SUFFICES ASSUME p \in Touches(steps) PROVE FALSE
          OBVIOUS
        <5>1. p # State /\ p # Runtime
          BY PathsDiffer
        <5>2. PICK g \in homes : p \in Elems(HostTargets(g))
          BY <1>2a, <1>3, <5>1
        <5>3. g \in Homes /\ p \in HostFiles(g) \union AgentFiles(g)
          BY <1>3, <1>5, <5>2
        <5>4. g = h
          BY <5>3, PathsDiffer
        <5> QED
          BY <1>5, <3>2, <5>2, <5>4
      <4>2. p \notin Left'
        BY <1>7, <4>1 DEF Left, Elems, Touches
      <4> QED
        BY <1>1, <3>0, <3>2, <4>2 DEF HostProgress
    <3> QED
      BY <3>1, <3>2
  <2>2. \A h \in Homes : HostProgress(h, Skill(h))' /\ HostProgress(h, Marker(h))'
    BY <2>1 DEF HostFiles
  <2>3. \A p \in Touches(steps) : p \notin Protected'
    BY <1>6, <1>7
  <2>4. /\ chosen' \subseteq Homes /\ forced' \in BOOLEAN /\ kind' \in {"install", "uninstall"}
        /\ OnlyStashes(steps)
    BY <1>1, <1>3
  <2> QED
    BY <1>1, <1>2, <1>3, <1>4, <1>7, <2>2, <2>3, <2>4, StartStep
<1>8. CASE outcome' = "REFUSED" /\ UNCHANGED <<stage, todo>>
  BY <1>1, <1>2, <1>3, <1>8, StartStep
<1> QED
  BY <1>1, <1>7, <1>8

-----------------------------------------------------------------------------
(* What the skills share.                                                  *)

OneHostEach ==
    /\ \A g, h \in CodexHomes : g = h
    /\ \A g, h \in ClaudeHomes : g = h

\* The hosts whose skill an uninstall is sure to see: those the install state
\* records, and all of them if there is one directory of each kind.
Seen(h) == OneHostEach \/ h \in before[State].homes

\* As long as nothing has gone wrong, an uninstall that leaves a skill of ours
\* has not touched what it shares with the others.
SharedKept ==
    Straight /\ kind = "uninstall" /\ (\E h \in Homes \ chosen : Owned(before, h) /\ Seen(h)) =>
        \A p \in {State, Runtime} : p \notin Left /\ disk[p] = before[p]

\* No step moves away what the hosts that stay share.
LEMMA SharedKeptTry ==
  ASSUME SetupInv, SharedKept, Skip \/ Stash \/ Create
  PROVE  SharedKept'
<1> PICK p : p = Current
  OBVIOUS
<1>1. /\ stage = "working" /\ todo # <<>> /\ todo' = Tail(todo)
      /\ UNCHANGED <<script, outcome, before>>
      /\ \/ disk' = disk
         \/ \E f : disk' = [disk EXCEPT ![p] = f]
  BY DEF Skip, Stash, Create, Working
<1>2. p \in Paths /\ p \in Left /\ Left' \subseteq Left
  BY <1>1, FirstStep DEF SetupInv
<1>3. \A q \in Paths \ {p} : disk'[q] = disk[q]
  BY <1>1, <1>2 DEF SetupInv, TypeOK, Disk
<1>4. /\ stage' = stage /\ kind' = kind /\ chosen' = chosen /\ outcome' = outcome
      /\ before' = before
  BY <1>1 DEF script
<1> QED
  BY <1>2, <1>3, <1>4, PathsDiffer DEF SharedKept, Straight, Owned, Seen

\* No script is begun that would move it away.
LEMMA SharedKeptStart ==
  ASSUME SetupInv, SharedKept, Start
  PROVE  SharedKept'
<1>1. CASE \E codex \in CodexHomes \union {NoHome}, claude \in ClaudeHomes \union {NoHome},
              force, runtime \in BOOLEAN : Install(codex, claude, force, runtime)
  BY <1>1 DEF Install, SharedKept
<1>2. ASSUME NEW codex \in CodexHomes, NEW claude \in ClaudeHomes, NEW removeRuntime \in BOOLEAN,
             NEW homes \in {{codex}, {claude}, {codex, claude}},
             Uninstall(codex, claude, homes, removeRuntime)
      PROVE  SharedKept'
  <2> PICK shared : shared = (Remaining({codex, claude}, homes) # {})
    OBVIOUS
  <2> PICK rest : rest = SharedTargets(shared, removeRuntime)
    OBVIOUS
  <2> PICK steps : steps = Steps("stash",
                     (IF codex \in homes THEN HostTargets(codex) ELSE <<>>)
                     \o (IF claude \in homes THEN HostTargets(claude) ELSE <<>>)
                     \o rest)
    OBVIOUS
  <2>1. /\ stage = "idle" /\ before' = disk' /\ disk' = disk /\ chosen' = homes
        /\ \/ outcome' = "REFUSED" /\ UNCHANGED <<stage, todo>>
           \/ outcome' = "RUNNING" /\ todo' = steps
    BY <1>2 DEF Uninstall
  <2>2. CASE outcome' = "REFUSED" /\ UNCHANGED <<stage, todo>>
    BY <2>1, <2>2 DEF SharedKept, Straight
  <2>3. CASE outcome' = "RUNNING" /\ todo' = steps
    <3> SUFFICES ASSUME NEW h \in Homes \ homes, Owned(disk, h), OneHostEach \/ h \in disk[State].homes
                 PROVE  \A q \in {State, Runtime} : q \notin Left'
      BY <2>1 DEF SharedKept, Seen, Owned
    <3>1. h \in ({codex, claude} \union disk[State].homes) \ homes
      BY DEF OneHostEach, Homes
    <3>2. Exists(Skill(h)) /\ Owner(Marker(h)) = "us"
      BY DEF Owned, Exists, Owner, Absent
    <3>3. h \in Remaining({codex, claude}, homes)
      BY <3>1, <3>2 DEF Remaining
    <3>4. shared
      BY <3>3
    <3>5. rest \in Seq(Paths) /\ Injective(rest) /\ Elems(rest) = {}
      BY <3>4, SharedTargetsOf
    <3>6. UninstallWork(steps, codex, claude, homes, rest)
      BY <3>5 DEF UninstallWork
    <3>7. /\ homes \subseteq Homes
          /\ \A q \in Touches(steps) :
                q \in Elems(rest) \/ \E g \in homes : q \in Elems(HostTargets(g))
      BY ONLY <3>6, UninstallStepsOf
    <3>8. \A g \in homes : State \notin Elems(HostTargets(g)) /\ Runtime \notin Elems(HostTargets(g))
      BY <3>7, HostTargetsOf, PathsDiffer
    <3>9. State \notin Touches(steps) /\ Runtime \notin Touches(steps)
      BY <3>5, <3>7, <3>8
    <3>10. Left' \subseteq Touches(steps)
      BY ONLY <2>3 DEF Left, Touches, Elems
    <3> QED
      BY <3>9, <3>10
  <2> QED
    BY <2>1, <2>2, <2>3
<1> QED
  BY <1>1, <1>2 DEF Start

-----------------------------------------------------------------------------
(* The invariants hold.                                                    *)

\* The invariants hold of the disk as it is found.
LEMMA SetupInvInit ==
  ASSUME Init
  PROVE  SetupInv /\ SharedKept
<1>1. TypeOK
  <2>1. disk \in Disk /\ before \in Disk
    BY DisksAssumption DEF Init
  <2>2. 0 \in 0..MaxErrors /\ 0 \in Nat
    OBVIOUS
  <2>3. <<>> \in Seq(Step) /\ <<>> \in Seq(Paths)
    OBVIOUS
  <2>4. "NONE" \in Outcomes
    BY DEF Outcomes
  <2> QED
    BY <2>1, <2>2, <2>3, <2>4 DEF Init, TypeOK
<1>2. Running /\ Planned /\ Tracked /\ Over
  BY DEF Init, Running, Planned, Tracked, Over
<1>3. Respected
  BY DEF Init, Respected, Elems
<1>4. Progress /\ SharedKept
  BY DEF Init, Progress, Straight, SharedKept
<1> QED
  BY <1>1, <1>2, <1>3, <1>4 DEF SetupInv

\* Every step of both scripts keeps the invariant.
LEMMA SetupInvNext ==
  ASSUME SetupInv, [Next]_vars
  PROVE  SetupInv'
<1>1. CASE Start
  <2>1. ASSUME NEW codex \in CodexHomes \union {NoHome}, NEW claude \in ClaudeHomes \union {NoHome},
               NEW force \in BOOLEAN, NEW runtime \in BOOLEAN,
               Install(codex, claude, force, runtime)
        PROVE  SetupInv'
    BY <2>1, InstallKeeps
  <2>2. ASSUME NEW codex \in CodexHomes, NEW claude \in ClaudeHomes,
               NEW removeRuntime \in BOOLEAN, NEW homes \in {{codex}, {claude}, {codex, claude}},
               Uninstall(codex, claude, homes, removeRuntime)
        PROVE  SetupInv'
    BY <2>2, UninstallKeeps
  <2> QED
    BY <1>1, <2>1, <2>2 DEF Start
<1>2. CASE Work
  BY <1>2, SkipKeeps, StashKeeps, CreateKeeps, StashFailsKeeps, CreateFailsKeeps, CommitKeeps
  DEF Work
<1>3. CASE RollBack
  BY <1>3, RemoveCreatedKeeps, RestoreKeeps, RestoreFailsKeeps, UndoneKeeps DEF RollBack
<1>4. CASE CleanUp
  BY <1>4, DiscardKeeps, CleanedKeeps DEF CleanUp
<1>5. CASE Crash
  BY <1>5, CrashKeeps
<1>6. CASE UNCHANGED vars
  BY <1>6, StutterKeeps
<1> QED
  BY <1>1, <1>2, <1>3, <1>4, <1>5, <1>6 DEF Next

\* And what the hosts that stay share remains.
LEMMA SharedKeptNext ==
  ASSUME SetupInv, SharedKept, [Next]_vars
  PROVE  SharedKept'
<1>1. CASE Start
  BY <1>1, SharedKeptStart
<1>2. CASE Skip \/ Stash \/ Create
  BY <1>2, SharedKeptTry
<1>3. CASE StashFails \/ CreateFails
  BY <1>3 DEF StashFails, CreateFails, Working, SharedKept, Straight, SetupInv, Running
<1>4. CASE Commit \/ Discard
  BY <1>4 DEF Commit, Discard, script, SharedKept, Straight, Seen, Owned, Left
<1>5. CASE RollBack
  BY <1>5 DEF RollBack, RemoveCreated, Restore, RestoreFails, Undone, Undo, script, SharedKept,
              Straight, SetupInv, Running
<1>6. CASE Cleaned
  BY <1>6 DEF Cleaned, SharedKept, Straight, Seen, Owned, Left
<1>7. CASE Crash
  BY <1>7 DEF Crash, SharedKept, Straight
<1>8. CASE UNCHANGED vars
  BY <1>8 DEF vars, script, SharedKept, Straight, Seen, Owned, Left
<1> QED
  BY <1>1, <1>2, <1>3, <1>4, <1>5, <1>6, <1>7, <1>8 DEF Next, Work, CleanUp

\* The variables keep their types, and a script leaves no work behind.
THEOREM SetupTyped == Spec => []TypeOK
<1>1. Init => SetupInv
  BY SetupInvInit
<1>2. SetupInv /\ [Next]_vars => SetupInv'
  BY SetupInvNext
<1>3. SetupInv => TypeOK
  BY DEF SetupInv
<1> QED
  BY <1>1, <1>2, <1>3, PTL DEF Spec

\* The inductive invariant holds through any sequence of installations and
\* uninstallations, each with any failure or crash (install.ps1, uninstall.ps1).
THEOREM SetupInvariant == Spec => []SetupInv
<1>1. Init => SetupInv
  BY SetupInvInit
<1>2. SetupInv /\ [Next]_vars => SetupInv'
  BY SetupInvNext
<1> QED
  BY <1>1, <1>2, PTL DEF Spec

\* Whatever fails and whenever the script is killed, until it has done all its work
\* every file it found is in its place or kept aside.
THEOREM NothingIsLost == Spec => []NothingLost
<1>1. ASSUME SetupInv PROVE NothingLost
  <2> SUFFICES ASSUME stage # "cleaning",
                      outcome \in {"RUNNING", "FAILED", "ROLLBACK_FAILED", "CRASHED"},
                      NEW p \in Paths
               PROVE  before[p] = disk[p] \/ Cleared(p)
    BY DEF NothingLost, Cleared, Was
  <2>1. CASE outcome = "RUNNING"
    <3>1. stage \in {"working", "undoing"}
      BY <1>1, <2>1 DEF SetupInv, TypeOK, Running
    <3> QED
      BY <1>1, <3>1 DEF SetupInv, Tracked, Cleared
  <2>2. CASE outcome \in {"FAILED", "ROLLBACK_FAILED", "CRASHED"}
    BY <1>1, <2>2 DEF SetupInv, Running, Over
  <2> QED
    BY <2>1, <2>2
<1> QED
  BY <1>1, SetupInvariant, PTL

\* A roll back without an error restores everything, and a refusal touches nothing.
THEOREM RollBackRestores == Spec => []FailureRestores
<1>1. SetupInv => FailureRestores
  BY DEF SetupInv, Over, Running, FailureRestores
<1> QED
  BY <1>1, SetupInvariant, PTL

\* Without -Force, what does not carry this repository's marker is never touched.
THEOREM ForeignFilesSafe == Spec => []ForeignUntouched
<1>1. ASSUME SetupInv, ~forced
      PROVE  /\ \A h \in Homes : ForeignHost(h) =>
                   disk[Skill(h)] = before[Skill(h)] /\ disk[Marker(h)] = before[Marker(h)]
             /\ \A h \in ClaudeHomes : ForeignAgent(h) =>
                   disk[Agent(h)] = before[Agent(h)] /\ disk[AgentMarker(h)] = before[AgentMarker(h)]
             /\ before[State].owner = "them" => disk[State] = before[State]
  <2>1. \A p \in Protected : disk[p] = before[p]
    BY <1>1 DEF SetupInv, Respected
  <2>2. \A h \in Homes : ForeignHost(h) => {Skill(h), Marker(h)} \subseteq Protected
    BY PathsDiffer DEF Protected, HostFiles
  <2>3. \A h \in ClaudeHomes : ForeignAgent(h) => {Agent(h), AgentMarker(h)} \subseteq Protected
    <3>1. \A h \in ClaudeHomes : {Agent(h), AgentMarker(h)} \subseteq Paths
      BY PathsDiffer DEF AgentFiles, Homes
    <3> QED
      BY <3>1 DEF Protected
  <2>4. before[State].owner = "them" => State \in Protected
    BY PathsDiffer DEF Protected
  <2> QED
    BY <2>1, <2>2, <2>3, <2>4
<1>2. SetupInv => ForeignUntouched
  BY <1>1 DEF ForeignUntouched, ForeignHost, ForeignAgent
<1> QED
  BY <1>2, SetupInvariant, PTL

-----------------------------------------------------------------------------
(* What a finished script leaves.                                          *)

\* What a script that has run to its end has made of a skill and its marker.
LEMMA Finished ==
  ASSUME SetupInv, outcome \in {"INSTALLED", "UNINSTALLED"}, NEW h \in Homes
  PROVE  /\ kind = "install" \/ kind = "uninstall"
         /\ \/ disk[Skill(h)].owner = "us" /\ disk[Marker(h)].owner = "us" /\ kind = "install"
            \/ disk[Skill(h)] = Absent /\ disk[Marker(h)] = Absent
            \/ /\ disk[Skill(h)] = before[Skill(h)] /\ disk[Marker(h)] = before[Marker(h)]
               /\ kind = "uninstall" => h \notin chosen \/ disk[Marker(h)] = Absent
<1>1. stage = "idle" /\ todo = <<>> /\ (kind = "install" \/ kind = "uninstall")
  BY DEF SetupInv, TypeOK, Running
<1>2. \A d, p : ~ToDo(d, p)
  BY <1>1 DEF ToDo
<1>3. HostProgress(h, Skill(h)) /\ HostProgress(h, Marker(h))
  BY DEF SetupInv, Progress, Straight
<1> QED
  BY <1>1, <1>2, <1>3 DEF HostProgress, Removed

\* A script that runs to its end keeps our skills and our markers in pairs.
THEOREM PairsStay == Spec => []PairsKept
<1>1. ASSUME SetupInv, outcome \in {"INSTALLED", "UNINSTALLED"}, Paired(before), NEW h \in Homes
      PROVE  disk[Skill(h)].owner = "us" <=> disk[Marker(h)].owner = "us"
  BY <1>1, Finished DEF Paired
<1>2. ASSUME SetupInv, outcome \in {"FAILED", "REFUSED"} PROVE disk = before
  BY <1>2 DEF SetupInv, Running, Over
<1>3. SetupInv => PairsKept
  BY <1>1, <1>2 DEF PairsKept, Paired
<1> QED
  BY <1>3, SetupInvariant, PTL

\* A skill of ours that an uninstall leaves was there, and is of another host.
LEMMA LeftAlone ==
  ASSUME SetupInv, SharedKept, outcome = "UNINSTALLED", NEW h \in Homes, Owned(disk, h), Seen(h)
  PROVE  disk[State] = before[State] /\ disk[Runtime] = before[Runtime]
<1>1. kind = "uninstall"
  BY DEF SetupInv, Running
<1>2. h \notin chosen /\ Owned(before, h)
  BY <1>1, Finished DEF Owned, Absent
<1> QED
  BY <1>1, <1>2 DEF SharedKept, Straight

\* Where there is one directory of each kind, what a finished script leaves can be
\* used and removed by the next one.
THEOREM OneHostOwnership ==
  ASSUME OneHostEach
  PROVE  Spec => []OwnershipHolds
<1>1. Init => SharedKept
  BY SetupInvInit
<1>2. SetupInv /\ SharedKept /\ [Next]_vars => SharedKept'
  BY SharedKeptNext
<1>3. SetupInv /\ SharedKept => SharedOutlives
  BY LeftAlone DEF SharedOutlives, Seen
<1> QED
  BY <1>1, <1>2, <1>3, SetupInvariant, PairsStay, PTL DEF Spec, OwnershipHolds

\* With any number of directories: as long as a skill of ours is left in one of those
\* that the install state records, an uninstall leaves the state and the runtime.
RecordedOutlive ==
    outcome = "UNINSTALLED" /\ (\E h \in before[State].homes : Owned(disk, h)) =>
        disk[State] = before[State] /\ disk[Runtime] = before[Runtime]

\* An uninstall never takes the runtime from a skill the install state records.
THEOREM RecordedHostsKeepRuntime == Spec => []RecordedOutlive
<1>1. Init => SharedKept
  BY SetupInvInit
<1>2. SetupInv /\ SharedKept /\ [Next]_vars => SharedKept'
  BY SharedKeptNext
<1>3. SetupInv /\ SharedKept => RecordedOutlive
  <2>1. TypeOK => before[State].homes \subseteq Homes
    BY PathsDiffer DEF TypeOK, Disk, File, Absent
  <2> QED
    BY <2>1, LeftAlone DEF RecordedOutlive, Seen, SetupInv
<1> QED
  BY <1>1, <1>2, <1>3, SetupInvariant, PTL DEF Spec

=============================================================================
