-------------------------- MODULE ResolutionProofs -------------------------
(***************************************************************************)
(* Theorems about Resolution, for every file system: finite or not, with   *)
(* cycles, unreadable files and directories that fail.                     *)
(***************************************************************************)
EXTENDS Resolution, SequenceTheorems, TLAPS

-----------------------------------------------------------------------------
(* Sequence facts.                                                         *)

(* Append adds its element at the end.                                     *)
LEMMA Pushed ==
  ASSUME NEW S, NEW s \in Seq(S), NEW e \in S
  PROVE  /\ Append(s, e) \in Seq(S)
         /\ Len(Append(s, e)) = Len(s) + 1
         /\ DOMAIN Append(s, e) = 1..(Len(s) + 1)
         /\ \A i \in 1..Len(s) : Append(s, e)[i] = s[i]
         /\ Append(s, e)[Len(s) + 1] = e
         /\ DOMAIN s = 1..Len(s)
         /\ Len(s) \in Nat
  BY AppendProperties, LenProperties

(* Front drops the last element.                                           *)
LEMMA Popped ==
  ASSUME NEW S, NEW s \in Seq(S), s # <<>>
  PROVE  /\ Front(s) \in Seq(S)
         /\ Len(Front(s)) = Len(s) - 1
         /\ DOMAIN Front(s) = 1..(Len(s) - 1)
         /\ \A i \in 1..(Len(s) - 1) : Front(s)[i] = s[i]
         /\ DOMAIN s = 1..Len(s)
         /\ Len(s) \in Nat \ {0}
<1>1. Len(s) \in Nat \ {0} /\ DOMAIN s = 1..Len(s)
  BY LenProperties, EmptySeq
<1>2. \A i \in 1..(Len(s) - 1) : s[i] \in S
  BY <1>1
<1>3. /\ SubSeq(s, 1, Len(s) - 1) \in Seq(S)
      /\ Len(SubSeq(s, 1, Len(s) - 1)) = IF 1 <= Len(s) - 1 THEN (Len(s) - 1) - 1 + 1 ELSE 0
      /\ \A i \in 1..((Len(s) - 1) - 1 + 1) : SubSeq(s, 1, Len(s) - 1)[i] = s[1 + i - 1]
  <2>1. 1 \in Int /\ Len(s) - 1 \in Int
    BY <1>1
  <2> QED
    BY <1>2, <2>1, SubSeqProperties, SMTT(30)
<1>4. /\ Len(Front(s)) = Len(s) - 1
      /\ Front(s) \in Seq(S)
      /\ \A i \in 1..(Len(s) - 1) : Front(s)[i] = s[i]
  BY <1>1, <1>3 DEF Front
<1>5. DOMAIN Front(s) = 1..(Len(s) - 1)
  BY <1>4, LenProperties, Zenon
<1> QED
  BY <1>1, <1>4, <1>5

(* Append adds one element to the range.                                   *)
LEMMA RangeOfAppend ==
  ASSUME NEW S, NEW s \in Seq(S), NEW e \in S
  PROVE  Range(Append(s, e)) = Range(s) \union {e}
<1>1. /\ DOMAIN Append(s, e) = 1..(Len(s) + 1)
      /\ \A i \in 1..Len(s) : Append(s, e)[i] = s[i]
      /\ Append(s, e)[Len(s) + 1] = e
      /\ DOMAIN s = 1..Len(s)
      /\ Len(s) \in Nat
  BY Pushed
<1>2. DOMAIN Append(s, e) = DOMAIN s \union {Len(s) + 1}
  BY <1>1
<1> QED
  BY <1>1, <1>2 DEF Range

-----------------------------------------------------------------------------
(* The search for a name, and the graph.                                   *)

(* The phases that have a directory.                                       *)
LEMMA Directories == Range(loadPhaseMap) = {"Libs", "EarlyMods", "Mods", "Shim"}
<1>1. DOMAIN loadPhaseMap = 1..4
  BY DEF loadPhaseMap
<1>2. 1..4 = {1, 2, 3, 4}
  OBVIOUS
<1>3. /\ loadPhaseMap[1] = "Libs"
      /\ loadPhaseMap[2] = "EarlyMods"
      /\ loadPhaseMap[3] = "Mods"
      /\ loadPhaseMap[4] = "Shim"
  BY DEF loadPhaseMap
<1> QED
  BY <1>1, <1>2, <1>3 DEF Range

(* findSharedObject answers with a directory that it searched and that has *)
(* the name, or with none.                                                 *)
LEMMA SearchFinds ==
  ASSUME NEW fsys, NEW phase, NEW name
  PROVE  LET found == findSharedObject(fsys, phase, name)
         IN \/ found \in {"None", "Failed"}
            \/ /\ found \in Range(loadPhaseMap)
               /\ Searches(phase, found)
               /\ [dir |-> found, name |-> name] \in fsys.files
<1> DEFINE hits == {i \in DOMAIN loadPhaseMap :
                      /\ Searches(phase, loadPhaseMap[i])
                      /\ \/ loadPhaseMap[i] \in fsys.blocked
                         \/ [dir |-> loadPhaseMap[i], name |-> name] \in fsys.files}
<1>1. CASE hits = {}
  BY <1>1 DEF findSharedObject
<1>2. CASE hits # {}
  <2>1. DOMAIN loadPhaseMap = 1..4
    BY DEF loadPhaseMap
  <2>2. hits \subseteq 1..4
    BY <2>1
  <2>3. 1..4 = {1, 2, 3, 4}
    OBVIOUS
  <2>4. \E x \in hits : \A y \in hits : x <= y
    BY <1>2, <2>2, <2>3
  <2>5. Min(hits) \in hits
    BY <2>4 DEF Min
  <2> HIDE DEF hits
  <2>6. findSharedObject(fsys, phase, name)
          = IF loadPhaseMap[Min(hits)] \in fsys.blocked THEN "Failed" ELSE loadPhaseMap[Min(hits)]
    BY <1>2 DEF findSharedObject, hits
  <2>7. loadPhaseMap[Min(hits)] \in Range(loadPhaseMap)
    BY <2>5 DEF hits, Range
  <2> QED
    BY <2>5, <2>6, <2>7 DEF hits
<1> QED
  BY <1>1, <1>2

(* The path that the name at place n of p resolves to, if it resolves.     *)
Target(fsys, p, n) ==
  [dir |-> findSharedObject(fsys, p.dir, fsys.needed[p][n]), name |-> fsys.needed[p][n]]

(* What the names before place n resolve to.                               *)
TargetsBefore(fsys, p, n) == {q \in fsys.files : \E j \in 1..(n - 1) : q = Target(fsys, p, j)}

(* The dependencies of p are what its names resolve to.                    *)
LEMMA DependenciesAreTargets ==
  ASSUME NEW fsys, IsFileSystem(fsys), NEW p \in fsys.readable
  PROVE  DirectDependencies(fsys, p) = TargetsBefore(fsys, p, Len(fsys.needed[p]) + 1)
<1>1. /\ fsys.needed[p] \in Seq(Nat)
      /\ DOMAIN fsys.needed[p] = 1..Len(fsys.needed[p])
      /\ Len(fsys.needed[p]) \in Nat
  BY LenProperties DEF IsFileSystem
<1>2. (Len(fsys.needed[p]) + 1) - 1 = Len(fsys.needed[p])
  BY <1>1
<1>3. ASSUME NEW q \in fsys.files
      PROVE  q \in DirectDependencies(fsys, p)
               <=> \E j \in 1..Len(fsys.needed[p]) : q = Target(fsys, p, j)
  <2>1. q = [dir |-> q.dir, name |-> q.name]
    BY DEF IsFileSystem, FilePath
  <2>2. q.name \in Range(fsys.needed[p])
          <=> \E j \in 1..Len(fsys.needed[p]) : q.name = fsys.needed[p][j]
    BY <1>1 DEF Range
  <2>3. ASSUME NEW j \in 1..Len(fsys.needed[p])
        PROVE  q = Target(fsys, p, j)
                 <=> /\ q.name = fsys.needed[p][j]
                     /\ q.dir = findSharedObject(fsys, p.dir, q.name)
    BY <2>1 DEF Target
  <2> QED
    BY <2>2, <2>3 DEF DirectDependencies
<1> QED
  BY <1>2, <1>3 DEF DirectDependencies, TargetsBefore

(* A dependency in a later phase than its requester is a shim, or the      *)
(* requester is.                                                           *)
LEMMA PhaseOfDependency ==
  ASSUME NEW fsys, IsFileSystem(fsys), NEW p \in fsys.files,
         NEW q \in DirectDependencies(fsys, p)
  PROVE  q \in fsys.files /\ (PhaseRank[q.dir] <= PhaseRank[p.dir] \/ q.dir = "Shim")
<1>1. q \in fsys.files /\ q.dir = findSharedObject(fsys, p.dir, q.name)
  BY DEF DirectDependencies
<1>2. q.dir \in {"Libs", "EarlyMods", "Mods", "Shim"}
  BY <1>1, Directories DEF IsFileSystem, FilePath
<1> QED
  BY <1>1, <1>2, SearchFinds DEF Searches

(* Reachable is the smallest closed set that has obj's dependencies.       *)
LEMMA ReachableFacts ==
  ASSUME NEW fsys, NEW obj
  PROVE  /\ Reachable(fsys, obj) \subseteq fsys.files
         /\ DirectDependencies(fsys, obj) \subseteq Reachable(fsys, obj)
         /\ \A p \in Reachable(fsys, obj) :
              DirectDependencies(fsys, p) \subseteq Reachable(fsys, obj)
         /\ \A S \in SUBSET fsys.files :
              DirectDependencies(fsys, obj) \subseteq S /\ IsClosed(fsys, S)
                => Reachable(fsys, obj) \subseteq S
<1>1. \A p : DirectDependencies(fsys, p) \subseteq fsys.files
  BY DEF DirectDependencies
<1>2. ASSUME NEW p \in Reachable(fsys, obj), NEW q \in DirectDependencies(fsys, p)
      PROVE  q \in Reachable(fsys, obj)
  <2>1. ASSUME NEW S \in SUBSET fsys.files, DirectDependencies(fsys, obj) \subseteq S,
               IsClosed(fsys, S)
        PROVE  q \in S
    BY <2>1 DEF Reachable, IsClosed
  <2> QED
    BY <1>1, <2>1 DEF Reachable
<1> QED
  BY <1>1, <1>2 DEF Reachable

(* What is below an object that is below obj is below obj.                 *)
LEMMA BelowBelow ==
  ASSUME NEW fsys, NEW obj, NEW p \in Reachable(fsys, obj)
  PROVE  Reachable(fsys, p) \subseteq Reachable(fsys, obj)
<1>1. /\ Reachable(fsys, obj) \in SUBSET fsys.files
      /\ IsClosed(fsys, Reachable(fsys, obj))
      /\ DirectDependencies(fsys, p) \subseteq Reachable(fsys, obj)
  BY ReachableFacts DEF IsClosed
<1> QED
  BY <1>1, ReachableFacts

(* Without a cycle below obj there is none below what is below obj.        *)
LEMMA AcyclicBelow ==
  ASSUME NEW fsys, NEW obj, Acyclic(fsys, obj), NEW p \in Reachable(fsys, obj)
  PROVE  Acyclic(fsys, p)
<1>1. Reachable(fsys, p) \union {p} \subseteq Reachable(fsys, obj) \union {obj}
  BY BelowBelow
<1>2. SUBSET (Reachable(fsys, p) \union {p}) \subseteq SUBSET (Reachable(fsys, obj) \union {obj})
  BY <1>1
<1> QED
  BY <1>2 DEF Acyclic

(* No object lies among objects that each need one of the others, then:    *)
(* following these needs from obj one would stay below obj for ever.       *)
LEMMA NoWayBack ==
  ASSUME NEW fsys, NEW S, NEW obj \in S, Acyclic(fsys, obj),
         \A p \in S : DirectDependencies(fsys, p) \intersect S # {}
  PROVE  FALSE
<1> DEFINE T == S \intersect (Reachable(fsys, obj) \union {obj})
<1>1. PICK p \in T : DirectDependencies(fsys, p) \intersect T = {}
  <2>1. T \in SUBSET (Reachable(fsys, obj) \union {obj}) /\ T # {}
    OBVIOUS
  <2> QED
    BY <2>1 DEF Acyclic
<1>2. DirectDependencies(fsys, p) \subseteq Reachable(fsys, obj)
  BY ReachableFacts
<1> QED
  BY <1>1, <1>2

(* The objects from place k on of a stack, each needed by the one before   *)
(* it: none is acyclic if the last one needs that at place k.              *)
LEMMA NoStackWayBack ==
  ASSUME NEW fsys, NEW n \in Nat, NEW f, NEW k \in 1..n, NEW i \in k..n,
         \A j \in 1..(n - 1) : f[j + 1] \in DirectDependencies(fsys, f[j]),
         f[k] \in DirectDependencies(fsys, f[n])
  PROVE  ~Acyclic(fsys, f[i])
<1> DEFINE S == {f[j] : j \in k..n}
<1>1. ASSUME NEW j \in k..n PROVE DirectDependencies(fsys, f[j]) \intersect S # {}
  <2>1. CASE j = n
    <3>1. k \in k..n
      OBVIOUS
    <3> QED
      BY <2>1, <3>1
  <2>2. CASE j # n
    <3>1. j + 1 \in k..n /\ j \in 1..(n - 1)
      BY <2>2
    <3> QED
      BY <3>1
  <2> QED
    BY <2>1, <2>2
<1>2. f[i] \in S
  OBVIOUS
<1>3. \A p \in S : DirectDependencies(fsys, p) \intersect S # {}
  BY <1>1
<1> HIDE DEF S
<1> QED
  BY <1>2, <1>3, NoWayBack

(* The object itself is not below it, then.                                *)
LEMMA NotBelowItself ==
  ASSUME NEW fsys, NEW obj \in fsys.files, Acyclic(fsys, obj)
  PROVE  obj \notin Reachable(fsys, obj)
<1> DEFINE S == {p \in Reachable(fsys, obj) : obj \in Reachable(fsys, p)}
           T == {q \in fsys.files : obj \notin Reachable(fsys, q) /\ q # obj}
<1>1. SUFFICES ASSUME obj \in Reachable(fsys, obj) PROVE FALSE
  OBVIOUS
<1>2. PICK p \in S : DirectDependencies(fsys, p) \intersect S = {}
  <2>1. S \in SUBSET (Reachable(fsys, obj) \union {obj}) /\ S # {}
    BY <1>1
  <2> QED
    BY <2>1 DEF Acyclic
<1>3. DirectDependencies(fsys, p) \subseteq T
  BY <1>1, <1>2, ReachableFacts
<1>4. IsClosed(fsys, T)
  <2>1. ASSUME NEW q \in T, NEW r \in DirectDependencies(fsys, q) PROVE r \in T
    <3>1. r \in Reachable(fsys, q) /\ DirectDependencies(fsys, r) \subseteq Reachable(fsys, q)
      BY ReachableFacts
    <3>2. Reachable(fsys, r) \subseteq Reachable(fsys, q)
      BY <3>1, BelowBelow
    <3> QED
      BY <3>1, <3>2, ReachableFacts
  <2> QED
    BY <2>1 DEF IsClosed
<1>5. Reachable(fsys, p) \subseteq T
  BY <1>3, <1>4, ReachableFacts
<1> QED
  BY <1>2, <1>5

-----------------------------------------------------------------------------
(* The invariant of getToLoad.                                             *)

InCalls(obj) == \E i \in DOMAIN calls : calls[i].obj = obj

(* Each step of loadMod and what is there before and after it.             *)
Steps ==
  /\ pc = "getToLoad" <=> calls # <<>>
  /\ pc \in {"loadMod", "getToLoad"} => sorting = <<>> /\ visited = {} /\ order = <<>>
  /\ pc = "topologicalSort" <=> sorting # <<>>
  /\ pc = "loadMod" => DOMAIN cache = {}
  /\ pc \in {"topologicalSort", "sorted"} /\ root \in fs.readable => root \in DOMAIN cache

(* A search starts at the phase its object is in, and every object on the  *)
(* stack has a list.                                                       *)
CallsHaveLists ==
  \A i \in DOMAIN calls :
    /\ calls[i].phase = calls[i].obj.dir
    /\ calls[i].obj \in DOMAIN cache
    /\ calls[i].next <= Len(fs.needed[calls[i].obj]) + 1

(* Each call is for the name that the call below it is at, and no object   *)
(* is on the stack twice.                                                  *)
CallsAreNested ==
  /\ calls # <<>> => calls[1].obj = root
  /\ \A i \in DOMAIN calls :
       i + 1 \in DOMAIN calls =>
         /\ calls[i].next <= Len(fs.needed[calls[i].obj])
         /\ calls[i + 1].obj = Target(fs, calls[i].obj, calls[i].next)
  /\ \A i, j \in DOMAIN calls : calls[i].obj = calls[j].obj => i = j

(* A list has what the names that were looked at resolve to, and all of    *)
(* them once its call has returned.                                        *)
ListsSoFar ==
  /\ \A i \in DOMAIN calls :
       FoundIn(fs, cache[calls[i].obj]) = TargetsBefore(fs, calls[i].obj, calls[i].next)
  /\ \A obj \in DOMAIN cache :
       InCalls(obj) \/ FoundIn(fs, cache[obj]) = DirectDependencies(fs, obj)

(* Copies are no longer than what they are copies of.                      *)
IsCopy(result) ==
  result.path \in fs.files =>
    IF result.path \in fs.readable
    THEN result.path \in DOMAIN cache /\ result.count <= Len(cache[result.path])
    ELSE result.count = 0

CopiesAreCopies == \A obj \in DOMAIN cache : \A i \in DOMAIN cache[obj] : IsCopy(cache[obj][i])

(* Without a cycle below its object a copy is whole, because the object    *)
(* was not on the stack: the calls from it to the top would form one.      *)
IsWhole(result) ==
  result.path \in fs.readable /\ Acyclic(fs, result.path) =>
    ~InCalls(result.path) /\ result.count = Len(cache[result.path])

CopiesAreWholeAlways ==
  \A obj \in DOMAIN cache : \A i \in DOMAIN cache[obj] : IsWhole(cache[obj][i])

CachedIsBelow == DOMAIN cache \subseteq Reachable(fs, root) \union {root}

GetInv ==
  /\ Steps
  /\ CallsHaveLists
  /\ CallsAreNested
  /\ ListsSoFar
  /\ CopiesAreCopies
  /\ CopiesAreWholeAlways
  /\ CachedIsBelow

-----------------------------------------------------------------------------
(* The invariant of topologicalSort.                                       *)

Entered == DOMAIN sorting \ {1}

(* What a loop has left are places of dependencies in its object's list.   *)
FramesHaveLists ==
  \A i \in DOMAIN sorting : \A k \in sorting[i].left :
    /\ sorting[i].path \in DOMAIN cache
    /\ k \in DOMAIN cache[sorting[i].path]
    /\ cache[sorting[i].path][k].path \in fs.files

(* Each call is for a dependency of the one below it; an object is on the  *)
(* stack or in the order, and once.                                        *)
FramesAreNested ==
  /\ sorting # <<>> => sorting[1].path = root
  /\ \A i \in DOMAIN sorting :
       i + 1 \in DOMAIN sorting =>
         sorting[i + 1].path \in DirectDependencies(fs, sorting[i].path)
  /\ \A i, j \in Entered : sorting[i].path = sorting[j].path => i = j
  /\ \A i \in Entered : sorting[i].path \notin Range(order)
  /\ WithoutRepeats(order)

VisitedIsEntered == visited = Range(order) \union {sorting[i].path : i \in Entered}

VisitedIsBelow == visited \subseteq Reachable(fs, root)

ShimVisited ==
  \A p \in visited :
    PhaseRank[p.dir] > PhaseRank[root.dir] => \E q \in visited \union {root} : q.dir = "Shim"

(* The loops have everything that root needs, and everything that an       *)
(* object without a cycle below it needs: passed, and so visited, or still *)
(* to come.                                                                *)
LeftOf(frame) == {cache[frame.path][k].path : k \in frame.left}

PassedIsVisited ==
  /\ \A i \in DOMAIN sorting :
       i = 1 \/ Acyclic(fs, sorting[i].path) =>
         DirectDependencies(fs, sorting[i].path) \subseteq visited \union LeftOf(sorting[i])
  /\ pc = "sorted" => DirectDependencies(fs, root) \subseteq visited

OrderIsClosed ==
  \A i \in DOMAIN order :
    Acyclic(fs, order[i]) => DirectDependencies(fs, order[i]) \subseteq Before(order, i)

SortInv ==
  /\ FramesHaveLists
  /\ FramesAreNested
  /\ VisitedIsEntered
  /\ VisitedIsBelow
  /\ ShimVisited
  /\ PassedIsVisited
  /\ OrderIsClosed

IInv == TypeOK /\ GetInv /\ SortInv

-----------------------------------------------------------------------------
(* Facts about stacks, lists and names.                                    *)

(* The files, and the names that a readable one needs.                     *)
LEMMA FileFacts ==
  ASSUME TypeOK
  PROVE  /\ IsFileSystem(fs)
         /\ \A p \in fs.files : p.dir \in Range(loadPhaseMap) /\ p.dir # "None" /\ p.name \in Nat
         /\ fs.readable \subseteq fs.files
         /\ \A p \in fs.readable :
              /\ fs.needed[p] \in Seq(Nat)
              /\ Len(fs.needed[p]) \in Nat
              /\ \A n \in 1..Len(fs.needed[p]) : fs.needed[p][n] \in Nat
<1>1. IsFileSystem(fs)
  BY DEF TypeOK
<1>2. \A p \in fs.files : p.dir \in Range(loadPhaseMap) /\ p.name \in Nat
  BY <1>1 DEF IsFileSystem, FilePath
<1>3. "None" \notin Range(loadPhaseMap)
  BY Directories
<1>4. fs.readable \subseteq fs.files
  BY <1>1 DEF IsFileSystem
<1>5. ASSUME NEW p \in fs.readable
      PROVE  /\ fs.needed[p] \in Seq(Nat)
             /\ Len(fs.needed[p]) \in Nat
             /\ \A n \in 1..Len(fs.needed[p]) : fs.needed[p][n] \in Nat
  <2>1. fs.needed[p] \in Seq(Nat)
    BY <1>1, <1>4 DEF IsFileSystem
  <2> QED
    BY <2>1, LenProperties, ElementOfSeq
<1> QED
  BY <1>1, <1>2, <1>3, <1>4, <1>5

(* Advanced changes one place of a stack, and there the name only.         *)
LEMMA AdvancedFacts ==
  ASSUME TypeOK, NEW stack \in Seq(Call(fs)), NEW k \in 1..Len(stack)
  PROVE  /\ Advanced(stack, k) \in Seq(Call(fs))
         /\ Len(Advanced(stack, k)) = Len(stack)
         /\ DOMAIN Advanced(stack, k) = 1..Len(stack)
         /\ \A i \in 1..Len(stack) :
              /\ Advanced(stack, k)[i].obj = stack[i].obj
              /\ Advanced(stack, k)[i].phase = stack[i].phase
              /\ Advanced(stack, k)[i].next = IF i = k THEN stack[i].next + 1 ELSE stack[i].next
<1>1. /\ DOMAIN stack = 1..Len(stack)
      /\ Len(stack) \in Nat
      /\ \A i \in 1..Len(stack) : stack[i] \in Call(fs)
  BY LenProperties, ElementOfSeq
<1> DEFINE frame == [stack[k] EXCEPT !.next = @ + 1]
<1>2. /\ frame \in Call(fs)
      /\ frame.obj = stack[k].obj
      /\ frame.phase = stack[k].phase
      /\ frame.next = stack[k].next + 1
  BY <1>1 DEF Call
<1>3. Advanced(stack, k) = [stack EXCEPT ![k] = frame]
  BY DEF Advanced
<1> HIDE DEF frame
<1>4. /\ [stack EXCEPT ![k] = frame] \in Seq(Call(fs))
      /\ Len([stack EXCEPT ![k] = frame]) = Len(stack)
  BY <1>1, <1>2, ExceptSeq
<1>5. \A i \in 1..Len(stack) : Advanced(stack, k)[i] = IF i = k THEN frame ELSE stack[i]
  BY <1>1, <1>3
<1>6. DOMAIN Advanced(stack, k) = 1..Len(stack)
  BY <1>1, <1>3
<1> QED
  BY <1>2, <1>3, <1>4, <1>5, <1>6

(* The calls of getToLoad are for objects that have lists.                 *)
LEMMA CallFacts ==
  ASSUME TypeOK, CallsHaveLists
  PROVE  /\ DOMAIN calls = 1..Len(calls)
         /\ Len(calls) \in Nat
         /\ calls # <<>> => Len(calls) \in 1..Len(calls)
         /\ \A i \in 1..Len(calls) :
              /\ calls[i].obj \in fs.readable
              /\ calls[i].obj \in DOMAIN cache
              /\ calls[i].phase = calls[i].obj.dir
              /\ calls[i].next \in Nat \ {0}
<1>1. /\ calls \in Seq(Call(fs))
      /\ DOMAIN calls = 1..Len(calls)
      /\ Len(calls) \in Nat
      /\ \A i \in 1..Len(calls) : calls[i] \in Call(fs)
  BY LenProperties, ElementOfSeq DEF TypeOK
<1>2. calls # <<>> => Len(calls) \in 1..Len(calls)
  BY <1>1, EmptySeq
<1> QED
  BY <1>1, <1>2 DEF CallsHaveLists, Call

(* What the running call has found for its name.                           *)
LEMMA NameFacts ==
  ASSUME TypeOK, CallsHaveLists, HasName
  PROVE  /\ Path = Target(fs, Top.obj, Top.next)
         /\ Name \in Nat
         /\ Path.dir = Found
         /\ IsResolved => Path \in fs.files /\ Found \in Range(loadPhaseMap)
         /\ ~IsResolved => Path \notin fs.files
         /\ Found = "None" => Path \in MissingPath
<1>1. /\ Top.obj \in fs.readable
      /\ Top.phase = Top.obj.dir
      /\ Top.next \in 1..Len(fs.needed[Top.obj])
  BY CallFacts, FileFacts DEF HasName, Top
<1>2. Name \in Nat
  BY <1>1, FileFacts DEF Name
<1>3. Path = Target(fs, Top.obj, Top.next)
  BY <1>1 DEF Path, Target, Found, Name
<1>4. Path.dir = Found /\ Path = [dir |-> Found, name |-> Name]
  BY DEF Path
<1>5. IsResolved => Path \in fs.files /\ Found \in Range(loadPhaseMap)
  BY <1>4, SearchFinds DEF IsResolved, Found
<1>6. ~IsResolved => Path \notin fs.files
  <2>1. ASSUME Path \in fs.files PROVE Found \in Range(loadPhaseMap)
    BY <1>4, <2>1, FileFacts
  <2> QED
    BY <2>1, Directories DEF IsResolved
<1>7. Found = "None" => Path \in MissingPath
  BY <1>2, <1>4 DEF MissingPath
<1> QED
  BY <1>2, <1>3, <1>4, <1>5, <1>6, <1>7

(* A list is a sequence of results; the found ones are files.              *)
LEMMA ListFacts ==
  ASSUME TypeOK, NEW obj \in DOMAIN cache
  PROVE  /\ cache[obj] \in Seq(DependencyResult(fs))
         /\ Len(cache[obj]) \in Nat
         /\ DOMAIN cache[obj] = 1..Len(cache[obj])
         /\ \A i \in 1..Len(cache[obj]) :
              /\ cache[obj][i] \in DependencyResult(fs)
              /\ cache[obj][i].count \in Nat
              /\ IsFound(cache[obj][i]) <=> cache[obj][i].path \in fs.files
<1>1. /\ cache[obj] \in Seq(DependencyResult(fs))
      /\ Len(cache[obj]) \in Nat
      /\ DOMAIN cache[obj] = 1..Len(cache[obj])
  BY LenProperties DEF TypeOK
<1>2. \A i \in 1..Len(cache[obj]) : cache[obj][i] \in DependencyResult(fs)
  BY <1>1, ElementOfSeq
<1>3. \A r \in DependencyResult(fs) : r.count \in Nat /\ (IsFound(r) <=> r.path \in fs.files)
  BY FileFacts DEF DependencyResult, MissingPath, IsFound
<1> QED
  BY <1>1, <1>2, <1>3

(* One more result in a list.                                              *)
LEMMA FoundInAppend ==
  ASSUME NEW fsys, NEW S, NEW list \in Seq(S), NEW e \in S
  PROVE  FoundIn(fsys, Append(list, e)) = FoundIn(fsys, list) \union {p \in fsys.files : p = e.path}
<1>1. /\ DOMAIN Append(list, e) = 1..(Len(list) + 1)
      /\ \A i \in 1..Len(list) : Append(list, e)[i] = list[i]
      /\ Append(list, e)[Len(list) + 1] = e
      /\ DOMAIN list = 1..Len(list)
      /\ Len(list) \in Nat
  BY Pushed
<1>2. DOMAIN Append(list, e) = DOMAIN list \union {Len(list) + 1}
  BY <1>1
<1> QED
  BY <1>1, <1>2 DEF FoundIn

(* Passing a name adds what it resolves to.                                *)
LEMMA OneMoreTarget ==
  ASSUME NEW fsys, NEW p, NEW n \in Nat \ {0}
  PROVE  TargetsBefore(fsys, p, n + 1)
           = TargetsBefore(fsys, p, n) \union {q \in fsys.files : q = Target(fsys, p, n)}
<1>1. 1..((n + 1) - 1) = 1..(n - 1) \union {n}
  OBVIOUS
<1> QED
  BY <1>1 DEF TargetsBefore

-----------------------------------------------------------------------------
(* The steps of getToLoad.                                                 *)

(* Before the sort begins there is nothing to say about it.                *)
LEMMA NoSortYet ==
  ASSUME sorting' = <<>>, visited' = {}, order' = <<>>, pc' # "sorted"
  PROVE  SortInv'
<1>1. /\ DOMAIN sorting' = {}
      /\ DOMAIN order' = {}
      /\ Range(order') = {}
      /\ WithoutRepeats(order')
  BY DEF WithoutRepeats, IsInjective, Range
<1> QED
  BY <1>1 DEF SortInv, FramesHaveLists, FramesAreNested, VisitedIsEntered, Entered, VisitedIsBelow,
              ShimVisited, PassedIsVisited, OrderIsClosed

(* The call at place k appends a result for its name and goes on; it is    *)
(* the running call, or the one that a call returns to.                    *)
LEMMA Appended ==
  ASSUME TypeOK, GetInv, pc = "getToLoad",
         NEW k \in 1..Len(calls),
         calls[k].next <= Len(fs.needed[calls[k].obj]),
         NEW e \in DependencyResult(fs),
         e.path = Target(fs, calls[k].obj, calls[k].next),
         IsCopy(e),
         e.path \in fs.readable /\ Acyclic(fs, e.path) =>
           /\ e.count = Len(cache[e.path])
           /\ \A i \in 1..k : calls[i].obj # e.path,
         \A i \in 1..Len(calls) :
           i > k => FoundIn(fs, cache[calls[i].obj]) = DirectDependencies(fs, calls[i].obj),
         NEW stack \in Seq(Call(fs)), Len(stack) = k, \A i \in 1..k : stack[i] = calls[i],
         cache' = [cache EXCEPT ![calls[k].obj] = Append(@, e)],
         calls' = Advanced(stack, k),
         UNCHANGED <<fs, root, sorting, visited, order, pc>>
  PROVE  TypeOK' /\ GetInv'
<1> DEFINE o == calls[k].obj
<1>0. fs' = fs /\ root' = root
  OBVIOUS
<1>1. /\ DOMAIN calls = 1..Len(calls)
      /\ Len(calls) \in Nat
      /\ \A i \in 1..Len(calls) :
           /\ calls[i].obj \in fs.readable
           /\ calls[i].obj \in DOMAIN cache
           /\ calls[i].phase = calls[i].obj.dir
           /\ calls[i].next \in Nat \ {0}
  BY CallFacts DEF GetInv
<1>2. /\ calls' \in Seq(Call(fs))
      /\ Len(calls') = k
      /\ DOMAIN calls' = 1..k
      /\ \A i \in 1..k :
           /\ calls'[i].obj = calls[i].obj
           /\ calls'[i].phase = calls[i].phase
           /\ calls'[i].next = IF i = k THEN calls[i].next + 1 ELSE calls[i].next
  <2>1. k \in 1..Len(stack) /\ Len(stack) = k
    BY <1>1
  <2>2. /\ Advanced(stack, k) \in Seq(Call(fs))
        /\ Len(Advanced(stack, k)) = Len(stack)
        /\ DOMAIN Advanced(stack, k) = 1..Len(stack)
        /\ \A i \in 1..Len(stack) :
             /\ Advanced(stack, k)[i].obj = stack[i].obj
             /\ Advanced(stack, k)[i].phase = stack[i].phase
             /\ Advanced(stack, k)[i].next = IF i = k THEN stack[i].next + 1 ELSE stack[i].next
    BY <2>1, AdvancedFacts, Zenon
  <2> QED
    BY <2>1, <2>2
<1>3. /\ k \in Nat \ {0}
      /\ 1..k \subseteq 1..Len(calls)
  BY <1>1
<1>4. /\ cache[o] \in Seq(DependencyResult(fs))
      /\ DOMAIN cache' = DOMAIN cache
      /\ o \in DOMAIN cache
      /\ cache'[o] = Append(cache[o], e)
      /\ \A p \in DOMAIN cache : p # o => cache'[p] = cache[p]
  BY <1>1, ListFacts
<1>5. /\ cache'[o] \in Seq(DependencyResult(fs))
      /\ Len(cache[o]) \in Nat
      /\ Len(cache'[o]) = Len(cache[o]) + 1
      /\ DOMAIN cache'[o] = 1..(Len(cache[o]) + 1)
      /\ \A i \in 1..Len(cache[o]) : cache'[o][i] = cache[o][i]
      /\ cache'[o][Len(cache[o]) + 1] = e
      /\ DOMAIN cache[o] = 1..Len(cache[o])
  BY <1>4, Pushed
<1>6. TypeOK'
  <2>1. cache' \in [DOMAIN cache' -> Seq(DependencyResult(fs)')]
    <3>1. \A p \in DOMAIN cache : cache'[p] \in Seq(DependencyResult(fs))
      BY <1>4, <1>5, ListFacts
    <3>2. cache' = [p \in DOMAIN cache' |-> cache'[p]]
      BY <1>4
    <3>3. DependencyResult(fs)' = DependencyResult(fs)
      BY DEF DependencyResult
    <3> QED
      BY <1>4, <3>1, <3>2, <3>3
  <2>2. calls' \in Seq(Call(fs)')
    BY <1>2 DEF Call
  <2> QED
    BY <1>4, <2>1, <2>2 DEF TypeOK, IsFileSystem
<1>7. Steps'
  <2>1. calls' # <<>>
    BY <1>2, <1>3
  <2> QED
    BY <1>4, <2>1 DEF GetInv, Steps
<1>8. CallsHaveLists'
  <2>1. ASSUME NEW i \in 1..k PROVE calls'[i].next <= Len(fs.needed[calls'[i].obj]) + 1
    <3>1. calls[i].next <= Len(fs.needed[calls[i].obj]) + 1
      BY <1>1, <1>3 DEF GetInv, CallsHaveLists
    <3>2. Len(fs.needed[calls[k].obj]) \in Nat
      BY <1>1, FileFacts
    <3>3. CASE i = k
      BY <1>1, <1>2, <3>2, <3>3
    <3>4. CASE i # k
      <4>1. calls'[i].next = calls[i].next /\ calls'[i].obj = calls[i].obj
        BY <1>2, <3>4
      <4> QED
        BY <3>1, <4>1
    <3> QED
      BY <3>3, <3>4
  <2>2. ASSUME NEW i \in 1..k
        PROVE  calls'[i].phase = calls'[i].obj.dir /\ calls'[i].obj \in DOMAIN cache'
    <3>1. /\ calls'[i].phase = calls[i].phase
          /\ calls'[i].obj = calls[i].obj
          /\ i \in 1..Len(calls)
          /\ DOMAIN cache' = DOMAIN cache
      BY <1>2, <1>3, <1>4
    <3> QED
      BY <1>1, <3>1
  <2> QED
    BY <1>2, <2>1, <2>2 DEF CallsHaveLists
<1>9. CallsAreNested'
  <2>1. ASSUME NEW i \in 1..k, i + 1 \in 1..k
        PROVE  /\ calls'[i].next <= Len(fs.needed[calls'[i].obj])
               /\ calls'[i + 1].obj = Target(fs, calls'[i].obj, calls'[i].next)
    <3>1. i # k /\ i + 1 \in 1..Len(calls)
      BY <1>1, <2>1
    <3>2. /\ calls[i].next <= Len(fs.needed[calls[i].obj])
          /\ calls[i + 1].obj = Target(fs, calls[i].obj, calls[i].next)
      BY <1>1, <1>3, <3>1 DEF GetInv, CallsAreNested
    <3> QED
      BY <1>2, <2>1, <3>1, <3>2
  <2>2. calls'[1].obj = root
    <3>1. 1 \in 1..k /\ calls # <<>>
      BY <1>1, <1>3
    <3> QED
      BY <1>2, <3>1 DEF GetInv, CallsAreNested
  <2>3. ASSUME NEW i \in 1..k, NEW j \in 1..k, calls'[i].obj = calls'[j].obj PROVE i = j
    <3>1. calls[i].obj = calls[j].obj /\ i \in DOMAIN calls /\ j \in DOMAIN calls
      BY <1>1, <1>2, <1>3, <2>3
    <3> QED
      BY <3>1 DEF GetInv, CallsAreNested
  <2>4. \A i \in 1..k : i + 1 \in 1..k =>
          /\ calls'[i].next <= Len(fs'.needed[calls'[i].obj])
          /\ calls'[i + 1].obj = Target(fs', calls'[i].obj, calls'[i].next)
    BY <1>0, <2>1
  <2>5. DOMAIN calls' = 1..k
    BY <1>2
  <2> QED
    <3>1. calls' # <<>> => calls'[1].obj = root'
      BY <1>0, <2>2, Zenon
    <3>2. \A i \in DOMAIN calls' : i + 1 \in DOMAIN calls' =>
            /\ calls'[i].next <= Len(fs'.needed[calls'[i].obj])
            /\ calls'[i + 1].obj = Target(fs', calls'[i].obj, calls'[i].next)
      BY <2>4, <2>5, Zenon
    <3>3. \A i, j \in DOMAIN calls' : calls'[i].obj = calls'[j].obj => i = j
      BY <2>3, <2>5, Zenon
    <3> QED
      BY <3>1, <3>2, <3>3, Zenon DEF CallsAreNested
<1>10. \A p \in DOMAIN cache :
         FoundIn(fs, cache'[p]) = FoundIn(fs, cache[p]) \union {q \in fs.files : p = o /\ q = e.path}
  <2>1. FoundIn(fs, cache'[o]) = FoundIn(fs, cache[o]) \union {q \in fs.files : q = e.path}
    <3>1. cache[o] \in Seq(DependencyResult(fs)) /\ cache'[o] = Append(cache[o], e)
      BY <1>4
    <3>2. FoundIn(fs, Append(cache[o], e)) = FoundIn(fs, cache[o]) \union {q \in fs.files : q = e.path}
      <4>1. cache[o] \in Seq(DependencyResult(fs)) /\ e \in DependencyResult(fs)
        BY <3>1
      <4> HIDE DEF o
      <4> QED
        BY <4>1, FoundInAppend
    <3> QED
      BY <3>1, <3>2
  <2> QED
    BY <1>4, <2>1
<1>12. ListsSoFar'
  <2>1. ASSUME NEW i \in 1..k
        PROVE  FoundIn(fs, cache'[calls'[i].obj]) = TargetsBefore(fs, calls'[i].obj, calls'[i].next)
    <3>1. FoundIn(fs, cache[calls[i].obj]) = TargetsBefore(fs, calls[i].obj, calls[i].next)
      BY <1>1, <1>3 DEF GetInv, ListsSoFar
    <3>2. CASE i = k
      <4>1. TargetsBefore(fs, o, calls[k].next + 1)
              = TargetsBefore(fs, o, calls[k].next) \union {q \in fs.files : q = e.path}
        <5>1. calls[k].next \in Nat \ {0}
          BY <1>1
        <5>2. TargetsBefore(fs, o, calls[k].next + 1)
                = TargetsBefore(fs, o, calls[k].next)
                    \union {q \in fs.files : q = Target(fs, o, calls[k].next)}
          BY <5>1, OneMoreTarget
        <5> QED
          BY <5>2
      <4>2. calls'[k].obj = o /\ calls'[k].next = calls[k].next + 1
        BY <1>2
      <4>3. FoundIn(fs, cache'[o]) = FoundIn(fs, cache[o]) \union {q \in fs.files : q = e.path}
        BY <1>4, <1>10
      <4> QED
        BY <3>1, <3>2, <4>1, <4>2, <4>3
    <3>3. CASE i # k
      <4>1. calls[i].obj # o
        BY <1>1, <1>3, <3>3 DEF GetInv, CallsAreNested
      <4> QED
        BY <1>1, <1>2, <1>3, <1>4, <3>1, <3>3, <4>1
    <3> QED
      BY <3>2, <3>3
  <2>2. ASSUME NEW p \in DOMAIN cache, \A i \in 1..k : calls'[i].obj # p
        PROVE  FoundIn(fs, cache'[p]) = DirectDependencies(fs, p)
    <3>1. p # o /\ \A i \in 1..k : calls[i].obj # p
      BY <1>2, <1>3, <2>2
    <3>2. cache'[p] = cache[p]
      BY <1>4, <3>1
    <3>3. CASE InCalls(p)
      <4>1. PICK i \in 1..Len(calls) : calls[i].obj = p
        BY <1>1, <3>3 DEF InCalls
      <4>2. i > k
        BY <1>1, <3>1, <4>1
      <4> QED
        BY <3>2, <4>1, <4>2
    <3>4. CASE ~InCalls(p)
      BY <3>2, <3>4 DEF GetInv, ListsSoFar
    <3> QED
      BY <3>3, <3>4
  <2>3. \A i \in DOMAIN calls' :
          FoundIn(fs', cache'[calls'[i].obj]) = TargetsBefore(fs', calls'[i].obj, calls'[i].next)
    BY <1>0, <1>2, <2>1, Zenon
  <2>4. ASSUME NEW p \in DOMAIN cache', ~\E i \in DOMAIN calls' : calls'[i].obj = p
        PROVE  FoundIn(fs', cache'[p]) = DirectDependencies(fs', p)
    <3>1. DOMAIN cache' = DOMAIN cache /\ DOMAIN calls' = 1..k
      BY <1>2, <1>4
    <3>2. p \in DOMAIN cache /\ \A i \in 1..k : calls'[i].obj # p
      BY <2>4, <3>1, Zenon
    <3> QED
      BY <1>0, <2>2, <3>2
  <2> QED
    BY <2>3, <2>4, Zenon DEF ListsSoFar, InCalls
<1>13. ASSUME NEW p \in DOMAIN cache, NEW i \in DOMAIN cache'[p]
       PROVE  (i \in DOMAIN cache[p] /\ cache'[p][i] = cache[p][i]) \/ cache'[p][i] = e
  BY <1>4, <1>5
<1>14. CopiesAreCopies'
  <2>1. \A p \in DOMAIN cache : Len(cache[p]) \in Nat /\ Len(cache[p]) <= Len(cache'[p])
    BY <1>4, <1>5, ListFacts
  <2>2. ASSUME NEW r \in DependencyResult(fs), IsCopy(r)
        PROVE  r.path \in fs.files =>
                 IF r.path \in fs.readable
                 THEN r.path \in DOMAIN cache' /\ r.count <= Len(cache'[r.path])
                 ELSE r.count = 0
    <3>1. r.count \in Nat
      BY DEF DependencyResult
    <3>2. \A p \in DOMAIN cache : Len(cache'[p]) \in Nat
      BY <1>4, <1>5, ListFacts
    <3> QED
      BY <1>4, <2>1, <2>2, <3>1, <3>2 DEF IsCopy
  <2>3. ASSUME NEW p \in DOMAIN cache, NEW i \in DOMAIN cache'[p]
        PROVE  cache'[p][i] \in DependencyResult(fs) /\ IsCopy(cache'[p][i])
    BY <1>13, ListFacts DEF GetInv, CopiesAreCopies
  <2>4. ASSUME NEW p \in DOMAIN cache, NEW i \in DOMAIN cache'[p]
        PROVE  cache'[p][i].path \in fs.files =>
                 IF cache'[p][i].path \in fs.readable
                 THEN cache'[p][i].path \in DOMAIN cache'
                      /\ cache'[p][i].count <= Len(cache'[cache'[p][i].path])
                 ELSE cache'[p][i].count = 0
    BY <2>2, <2>3
  <2> QED
    BY <1>4, <2>4 DEF CopiesAreCopies, IsCopy
<1>15. CopiesAreWholeAlways'
  <2>1. ASSUME NEW p \in DOMAIN cache, NEW i \in DOMAIN cache'[p],
               cache'[p][i].path \in fs.readable, Acyclic(fs, cache'[p][i].path)
        PROVE  /\ \A j \in 1..k : calls'[j].obj # cache'[p][i].path
               /\ cache'[p][i].count = Len(cache'[cache'[p][i].path])
    <3> DEFINE r == cache'[p][i]
    <3>1. /\ \A j \in 1..k : calls[j].obj # r.path
          /\ r.count = Len(cache[r.path])
      <4>1. CASE r = e
        BY <2>1, <4>1
      <4>2. CASE i \in DOMAIN cache[p] /\ r = cache[p][i]
        <5>1. ~InCalls(r.path) /\ r.count = Len(cache[r.path])
          <6>1. IsWhole(cache[p][i])
            BY <2>1, <4>2 DEF GetInv, CopiesAreWholeAlways
          <6> QED
            BY <2>1, <4>2, <6>1 DEF IsWhole
        <5> HIDE DEF r
        <5> QED
          BY <1>1, <1>3, <5>1 DEF InCalls
      <4> QED
        BY <1>13, <4>1, <4>2
    <3>2. r.path # o /\ r.path \in DOMAIN cache
      <4>1. IsCopy(r)
        BY <1>13, ListFacts DEF GetInv, CopiesAreCopies
      <4>2. r.path \in fs.readable /\ r.path \in fs.files
        BY <2>1, FileFacts
      <4> HIDE DEF r
      <4>3. r.path # calls[k].obj
        BY <1>3, <3>1
      <4> QED
        BY <4>1, <4>2, <4>3 DEF IsCopy
    <3> QED
      BY <1>2, <1>4, <3>1, <3>2
  <2>2. ASSUME NEW p \in DOMAIN cache', NEW i \in DOMAIN cache'[p],
               cache'[p][i].path \in fs'.readable, Acyclic(fs', cache'[p][i].path)
        PROVE  /\ ~\E j \in DOMAIN calls' : calls'[j].obj = cache'[p][i].path
               /\ cache'[p][i].count = Len(cache'[cache'[p][i].path])
    <3>0. DOMAIN cache' = DOMAIN cache
      BY <1>4
    <3>1. p \in DOMAIN cache /\ cache'[p][i].path \in fs.readable /\ Acyclic(fs, cache'[p][i].path)
      <4>1. Acyclic(fs, cache'[p][i].path)
        BY <1>0, <2>2, Zenon
      <4>2. p \in DOMAIN cache
        BY <3>0, Zenon
      <4>3. cache'[p][i].path \in fs.readable
        <5>1. fs'.readable = fs.readable
          BY <1>0
        <5> QED
          BY <2>2, <5>1, Zenon
      <4> QED
        BY <4>1, <4>2, <4>3
    <3>2. /\ \A j \in 1..k : calls'[j].obj # cache'[p][i].path
          /\ cache'[p][i].count = Len(cache'[cache'[p][i].path])
      BY <2>1, <2>2, <3>1
    <3>3. DOMAIN calls' = 1..k
      BY <1>2
    <3> QED
      BY <3>2, <3>3, Zenon
  <2>3. ASSUME NEW p \in DOMAIN cache', NEW i \in DOMAIN cache'[p] PROVE IsWhole(cache[p][i])'
    BY <2>2, Zenon DEF IsWhole, InCalls
  <2> QED
    BY <2>3, Zenon DEF CopiesAreWholeAlways
<1>16. CachedIsBelow'
  BY <1>4 DEF GetInv, CachedIsBelow
<1> QED
  BY <1>6, <1>7, <1>8, <1>9, <1>12, <1>14, <1>15, <1>16 DEF GetInv

(* A list is entered into the cache and its call begins.                   *)
LEMMA Begun ==
  ASSUME TypeOK, GetInv,
         NEW obj \in fs.readable \ DOMAIN cache,
         obj \in Reachable(fs, root) \union {root},
         calls = <<>> => obj = root,
         calls # <<>> => HasName /\ obj = Target(fs, Top.obj, Top.next),
         Enter(obj, obj.dir),
         pc \in {"loadMod", "getToLoad"}, pc' = "getToLoad",
         UNCHANGED <<fs, root, sorting, visited, order>>
  PROVE  TypeOK' /\ GetInv'
<1> DEFINE n == Len(calls)
           call == [obj |-> obj, phase |-> obj.dir, next |-> 1]
<1>0. fs' = fs /\ root' = root /\ sorting' = sorting /\ visited' = visited /\ order' = order
  OBVIOUS
<1>1. /\ DOMAIN calls = 1..n
      /\ n \in Nat
      /\ \A i \in 1..n :
           /\ calls[i].obj \in fs.readable
           /\ calls[i].obj \in DOMAIN cache
           /\ calls[i].phase = calls[i].obj.dir
           /\ calls[i].next \in Nat \ {0}
  BY CallFacts DEF GetInv
<1>2. call \in Call(fs)
  BY FileFacts DEF Call
<1>3. /\ calls' \in Seq(Call(fs))
      /\ DOMAIN calls' = 1..(n + 1)
      /\ \A i \in 1..n : calls'[i] = calls[i]
      /\ calls'[n + 1] = call
      /\ Len(calls') = n + 1
  BY <1>2, Pushed DEF TypeOK, Enter
<1>4. /\ DOMAIN cache' = DOMAIN cache \union {obj}
      /\ cache'[obj] = <<>>
      /\ \A p \in DOMAIN cache : cache'[p] = cache[p]
  BY DEF Enter
<1>5. calls # <<>> => n \in 1..n /\ Top = calls[n]
  BY <1>1, EmptySeq DEF Top, TypeOK
<1>6. TypeOK'
  <2>1. cache' \in [DOMAIN cache' -> Seq(DependencyResult(fs))]
    <3>1. ASSUME NEW p \in DOMAIN cache' PROVE cache'[p] \in Seq(DependencyResult(fs))
      <4>1. CASE p = obj
        BY <1>4, <4>1, EmptySeq
      <4>2. CASE p \in DOMAIN cache
        BY <1>4, <4>2, ListFacts
      <4> QED
        BY <1>4, <4>1, <4>2
    <3>2. cache' = [p \in DOMAIN cache' |-> cache'[p]]
      BY <1>4 DEF Enter
    <3> QED
      BY <3>1, <3>2
  <2> QED
    BY <1>0, <1>3, <1>4, <2>1 DEF TypeOK
<1>7. Steps'
  <2>1. calls' # <<>>
    BY <1>1, <1>3
  <2> QED
    BY <1>0, <1>4, <2>1 DEF GetInv, Steps
<1>8. CallsHaveLists'
  <2>1. ASSUME NEW i \in 1..n
        PROVE  calls[i].next <= Len(fs.needed[calls[i].obj]) + 1
    BY <1>1 DEF GetInv, CallsHaveLists
  <2>2. 1 <= Len(fs.needed[obj]) + 1
    BY FileFacts
  <2>3. ASSUME NEW i \in 1..(n + 1)
        PROVE  /\ calls'[i].phase = calls'[i].obj.dir
               /\ calls'[i].obj \in DOMAIN cache'
               /\ calls'[i].next <= Len(fs.needed[calls'[i].obj]) + 1
    <3>1. CASE i = n + 1
      BY <1>3, <1>4, <2>2, <3>1
    <3>2. CASE i \in 1..n
      BY <1>1, <1>3, <1>4, <2>1, <3>2
    <3> QED
      BY <1>1, <3>1, <3>2
  <2> QED
    BY <1>0, <1>3, <2>3 DEF CallsHaveLists
<1>9. CallsAreNested'
  <2>1. calls'[1].obj = root
    <3>1. CASE calls = <<>>
      <4>1. n = 0
        BY <3>1, EmptySeq
      <4> QED
        BY <1>3, <3>1, <4>1
    <3>2. CASE calls # <<>>
      <4>1. 1 \in 1..n
        BY <1>1, <1>5, <3>2
      <4> QED
        BY <1>3, <3>2, <4>1 DEF GetInv, CallsAreNested
    <3> QED
      BY <3>1, <3>2
  <2>2. ASSUME NEW i \in 1..(n + 1), i + 1 \in 1..(n + 1)
        PROVE  /\ calls'[i].next <= Len(fs.needed[calls'[i].obj])
               /\ calls'[i + 1].obj = Target(fs, calls'[i].obj, calls'[i].next)
    <3>1. i \in 1..n
      BY <1>1, <2>2
    <3>2. CASE i = n
      <4>1. calls # <<>>
        BY <1>1, <3>1, EmptySeq
      <4> QED
        BY <1>3, <1>5, <3>1, <3>2, <4>1 DEF HasName
    <3>3. CASE i # n
      <4>1. i + 1 \in 1..n
        <5>1. n \in Nat
          BY <1>1
        <5> HIDE DEF n
        <5> QED
          BY <3>1, <3>3, <5>1
      <4>2. /\ calls[i].next <= Len(fs.needed[calls[i].obj])
            /\ calls[i + 1].obj = Target(fs, calls[i].obj, calls[i].next)
        BY <1>1, <3>1, <4>1 DEF GetInv, CallsAreNested
      <4> QED
        BY <1>3, <3>1, <4>1, <4>2
    <3> QED
      BY <3>2, <3>3
  <2>3. ASSUME NEW i \in 1..(n + 1), NEW j \in 1..(n + 1), calls'[i].obj = calls'[j].obj
        PROVE  i = j
    <3>1. \A l \in 1..n : calls'[l].obj # obj /\ calls'[l].obj = calls[l].obj
      BY <1>1, <1>3
    <3>2. CASE i \in 1..n /\ j \in 1..n
      BY <1>1, <2>3, <3>1, <3>2 DEF GetInv, CallsAreNested
    <3>3. CASE i = n + 1 \/ j = n + 1
      <4>1. calls'[n + 1].obj = obj
        BY <1>3
      <4> QED
        BY <1>1, <2>3, <3>1, <3>3, <4>1
    <3> QED
      BY <1>1, <3>2, <3>3
  <2>4. \A i \in 1..(n + 1) :
          i + 1 \in 1..(n + 1) =>
            /\ calls'[i].next <= Len(fs'.needed[calls'[i].obj])
            /\ calls'[i + 1].obj = Target(fs', calls'[i].obj, calls'[i].next)
    BY <1>0, <2>2
  <2> QED
    BY <1>0, <1>3, <2>1, <2>3, <2>4, Zenon DEF CallsAreNested
<1>10. ListsSoFar'
  <2>1. ASSUME NEW i \in 1..(n + 1)
        PROVE  FoundIn(fs, cache'[calls'[i].obj]) = TargetsBefore(fs, calls'[i].obj, calls'[i].next)
    <3>1. CASE i = n + 1
      <4>1. FoundIn(fs, <<>>) = {}
        BY DEF FoundIn
      <4>2. 1..(1 - 1) = {}
        OBVIOUS
      <4>3. TargetsBefore(fs, obj, 1) = {}
        BY <4>2 DEF TargetsBefore
      <4>4. calls'[i].obj = obj /\ calls'[i].next = 1
        BY <1>3, <3>1
      <4> QED
        BY <1>4, <4>1, <4>3, <4>4
    <3>2. CASE i \in 1..n
      BY <1>1, <1>3, <1>4, <3>2 DEF GetInv, ListsSoFar
    <3> QED
      BY <1>1, <3>1, <3>2
  <2>2. ASSUME NEW p \in DOMAIN cache', \A i \in 1..(n + 1) : calls'[i].obj # p
        PROVE  FoundIn(fs, cache'[p]) = DirectDependencies(fs, p)
    <3>1. n + 1 \in 1..(n + 1) /\ 1..n \subseteq 1..(n + 1)
      BY <1>1
    <3>2. p \in DOMAIN cache /\ ~InCalls(p)
      BY <1>1, <1>3, <1>4, <2>2, <3>1 DEF InCalls
    <3> QED
      BY <1>4, <3>2 DEF GetInv, ListsSoFar
  <2>3. \A i \in DOMAIN calls' :
          FoundIn(fs', cache'[calls'[i].obj]) = TargetsBefore(fs', calls'[i].obj, calls'[i].next)
    BY <1>0, <1>3, <2>1, Zenon
  <2>4. \A p \in DOMAIN cache' :
          \/ \E i \in DOMAIN calls' : calls'[i].obj = p
          \/ FoundIn(fs', cache'[p]) = DirectDependencies(fs', p)
    BY <1>0, <1>3, <2>2, Zenon
  <2> QED
    BY <2>3, <2>4, Zenon DEF ListsSoFar, InCalls
<1>11. ASSUME NEW p \in DOMAIN cache', NEW i \in DOMAIN cache'[p]
       PROVE  p \in DOMAIN cache /\ i \in DOMAIN cache[p] /\ cache'[p][i] = cache[p][i]
  BY <1>4
<1>12. CopiesAreCopies'
  <2>1. ASSUME NEW r, IsCopy(r) PROVE IsCopy(r)'
    BY <1>0, <1>4, <2>1 DEF IsCopy
  <2>2. \A p \in DOMAIN cache' : \A i \in DOMAIN cache'[p] : IsCopy(cache[p][i])'
    BY <1>11, <2>1 DEF GetInv, CopiesAreCopies
  <2> QED
    BY <1>11, <2>2 DEF CopiesAreCopies
<1>13. CopiesAreWholeAlways'
  <2>1. ASSUME NEW p \in DOMAIN cache, NEW i \in DOMAIN cache[p],
               cache[p][i].path \in fs.readable, Acyclic(fs, cache[p][i].path)
        PROVE  /\ \A j \in 1..(n + 1) : calls'[j].obj # cache[p][i].path
               /\ cache[p][i].count = Len(cache'[cache[p][i].path])
    <3>1. /\ ~InCalls(cache[p][i].path)
          /\ cache[p][i].count = Len(cache[cache[p][i].path])
      BY <2>1 DEF GetInv, CopiesAreWholeAlways, IsWhole
    <3>2. cache[p][i].path \in DOMAIN cache
      BY <2>1, FileFacts DEF GetInv, CopiesAreCopies, IsCopy
    <3>3. \A j \in 1..n : calls'[j].obj # cache[p][i].path
      BY <1>1, <1>3, <3>1 DEF InCalls
    <3>4. calls'[n + 1].obj # cache[p][i].path
      BY <1>3, <3>2
    <3>5. \A j \in 1..(n + 1) : j \in 1..n \/ j = n + 1
      BY <1>1
    <3>6. cache'[cache[p][i].path] = cache[cache[p][i].path]
      BY <1>4, <3>2
    <3> QED
      BY <3>1, <3>3, <3>4, <3>5, <3>6
  <2>2. ASSUME NEW p \in DOMAIN cache', NEW i \in DOMAIN cache'[p],
               cache'[p][i].path \in fs'.readable, Acyclic(fs', cache'[p][i].path)
        PROVE  /\ ~\E j \in DOMAIN calls' : calls'[j].obj = cache'[p][i].path
               /\ cache'[p][i].count = Len(cache'[cache'[p][i].path])
    <3>1. /\ p \in DOMAIN cache /\ i \in DOMAIN cache[p] /\ cache'[p][i] = cache[p][i]
          /\ cache[p][i].path \in fs.readable /\ Acyclic(fs, cache[p][i].path)
      BY <1>0, <1>11, <2>2
    <3>2. /\ \A j \in 1..(n + 1) : calls'[j].obj # cache[p][i].path
          /\ cache[p][i].count = Len(cache'[cache[p][i].path])
      BY <2>1, <3>1
    <3>3. DOMAIN calls' = 1..(n + 1)
      BY <1>3
    <3> QED
      BY <3>1, <3>2, <3>3
  <2> QED
    BY <2>2, Zenon DEF CopiesAreWholeAlways, IsWhole, InCalls
<1>14. CachedIsBelow'
  BY <1>0, <1>4 DEF GetInv, CachedIsBelow
<1> QED
  BY <1>6, <1>7, <1>8, <1>9, <1>10, <1>12, <1>13, <1>14 DEF GetInv

(* What a name resolves to is a dependency.                                *)
LEMMA TargetIsNeeded ==
  ASSUME NEW fsys, IsFileSystem(fsys), NEW p \in fsys.readable,
         NEW n \in Nat \ {0}, n <= Len(fsys.needed[p]), Target(fsys, p, n) \in fsys.files
  PROVE  Target(fsys, p, n) \in DirectDependencies(fsys, p)
<1>1. Len(fsys.needed[p]) \in Nat
  BY LenProperties DEF IsFileSystem
<1>2. n \in 1..((Len(fsys.needed[p]) + 1) - 1)
  BY <1>1
<1>3. Target(fsys, p, n) \in TargetsBefore(fsys, p, Len(fsys.needed[p]) + 1)
  BY <1>2 DEF TargetsBefore
<1> QED
  BY <1>3, DependenciesAreTargets

(* Where the running call is, and what its name leads to.                  *)
LEMMA RunningCall ==
  ASSUME TypeOK, GetInv, HasName
  PROVE  /\ Len(calls) \in 1..Len(calls)
         /\ calls[Len(calls)] = Top
         /\ Top.obj \in fs.readable
         /\ Top.obj \in DOMAIN cache
         /\ Top.next \in Nat \ {0}
         /\ Top.next <= Len(fs.needed[Top.obj])
         /\ Path = Target(fs, Top.obj, Top.next)
         /\ IsResolved => /\ Path \in DirectDependencies(fs, Top.obj)
                          /\ Path \in Reachable(fs, root)
<1>1. /\ Len(calls) \in 1..Len(calls)
      /\ calls[Len(calls)] = Top
      /\ Top.obj \in fs.readable
      /\ Top.obj \in DOMAIN cache
      /\ Top.next \in Nat \ {0}
      /\ Top.next <= Len(fs.needed[Top.obj])
  BY CallFacts DEF GetInv, HasName, Top
<1>2. Path = Target(fs, Top.obj, Top.next)
  BY NameFacts DEF GetInv
<1>3. ASSUME IsResolved PROVE Path \in DirectDependencies(fs, Top.obj)
  <2>1. Path \in fs.files
    BY <1>3, NameFacts DEF GetInv
  <2> QED
    BY <1>1, <1>2, <2>1, FileFacts, TargetIsNeeded
<1>4. ASSUME IsResolved PROVE Path \in Reachable(fs, root)
  <2>1. Top.obj \in Reachable(fs, root) \union {root}
    BY <1>1 DEF GetInv, CachedIsBelow
  <2> QED
    BY <1>3, <1>4, <2>1, ReachableFacts
<1> QED
  BY <1>1, <1>2, <1>3, <1>4

(* The calls on the stack form a chain of needs, so that the running one's *)
(* name leads to none of them without a cycle below what it leads to.      *)
LEMMA PathNotInCalls ==
  ASSUME TypeOK, GetInv, HasName, IsResolved, Acyclic(fs, Path)
  PROVE  \A i \in 1..Len(calls) : calls[i].obj # Path
<1> DEFINE f == [i \in 1..Len(calls) |-> calls[i].obj]
<1>1. /\ DOMAIN calls = 1..Len(calls)
      /\ Len(calls) \in Nat
      /\ Len(calls) \in 1..Len(calls)
      /\ \A i \in 1..Len(calls) :
           /\ calls[i].obj \in fs.readable
           /\ calls[i].obj \in DOMAIN cache
           /\ calls[i].next \in Nat \ {0}
  BY CallFacts, RunningCall DEF GetInv
<1>3. ASSUME NEW i \in 1..(Len(calls) - 1) PROVE f[i + 1] \in DirectDependencies(fs, f[i])
  <2>1. i \in 1..Len(calls) /\ i + 1 \in 1..Len(calls)
    BY <1>1
  <2>2. /\ calls[i].next <= Len(fs.needed[calls[i].obj])
        /\ calls[i + 1].obj = Target(fs, calls[i].obj, calls[i].next)
    BY <1>1, <2>1 DEF GetInv, CallsAreNested
  <2>3. calls[i + 1].obj \in fs.files /\ calls[i].obj \in fs.readable /\ calls[i].next \in Nat \ {0}
    BY <1>1, <2>1, FileFacts
  <2>4. calls[i + 1].obj \in DirectDependencies(fs, calls[i].obj)
    BY <2>2, <2>3, FileFacts, TargetIsNeeded
  <2> QED
    BY <2>1, <2>4
<1>4. SUFFICES ASSUME NEW k \in 1..Len(calls), f[k] = Path PROVE FALSE
  OBVIOUS
<1>5. f[k] \in DirectDependencies(fs, f[Len(calls)])
  BY <1>1, <1>4, RunningCall
<1>6. k \in k..Len(calls) /\ Acyclic(fs, f[k])
  BY <1>1, <1>4
<1> HIDE DEF f
<1> QED
  BY <1>1, <1>3, <1>5, <1>6, NoStackWayBack

(* The running call appends for its name: the three cases of EmplaceBack.  *)
LEMMA EmplacedBack ==
  ASSUME TypeOK, GetInv, pc = "getToLoad", HasName, NEW count \in Nat,
         EmplaceBack(Path, count),
         IsResolved => IF Path \in fs.readable
                       THEN Path \in DOMAIN cache /\ count = Len(cache[Path])
                       ELSE count = 0,
         IsResolved \/ Path \in MissingPath,
         UNCHANGED <<fs, root, sorting, visited, order, pc>>
  PROVE  TypeOK' /\ GetInv'
<1> DEFINE e == [path |-> Path, count |-> count]
           k == Len(calls)
<1>1. /\ k \in 1..Len(calls)
      /\ calls[k] = Top
      /\ calls[k].next <= Len(fs.needed[calls[k].obj])
      /\ e.path = Target(fs, calls[k].obj, calls[k].next)
  BY RunningCall
<1>2. e \in DependencyResult(fs)
  BY NameFacts DEF DependencyResult, GetInv
<1>3. IsResolved <=> Path \in fs.files
  BY NameFacts DEF GetInv
<1>4. IsCopy(e)
  <2>1. Path \in DOMAIN cache => Len(cache[Path]) \in Nat
    BY ListFacts
  <2> QED
    BY <1>3, <2>1 DEF IsCopy
<1>5. e.path \in fs.readable /\ Acyclic(fs, e.path) =>
        /\ e.count = Len(cache[e.path])
        /\ \A i \in 1..k : calls[i].obj # e.path
  BY <1>3, PathNotInCalls, FileFacts
<1>6. calls \in Seq(Call(fs)) /\ Len(calls) = k
  BY DEF TypeOK
<1>7. k \in Nat
  BY <1>6, LenProperties
<1>8. cache' = [cache EXCEPT ![calls[k].obj] = Append(@, e)] /\ calls' = Advanced(calls, k)
  BY <1>1 DEF EmplaceBack
<1>9. \A i \in 1..Len(calls) :
        i > k => FoundIn(fs, cache[calls[i].obj]) = DirectDependencies(fs, calls[i].obj)
  BY <1>7
<1> HIDE DEF e, k
<1> QED
  BY <1>1, <1>2, <1>4, <1>5, <1>6, <1>8, <1>9, Appended

(* A call returns its list, complete, to the call below it.                *)
LEMMA ReturnInv ==
  ASSUME TypeOK, GetInv, Return
  PROVE  TypeOK' /\ GetInv'
<1> DEFINE n == Len(calls)
           k == n - 1
           e == [path |-> Top.obj, count |-> Len(cache[Top.obj])]
<1>1. /\ DOMAIN calls = 1..n
      /\ n \in Nat
      /\ \A i \in 1..n :
           /\ calls[i].obj \in fs.readable
           /\ calls[i].obj \in DOMAIN cache
           /\ calls[i].next \in Nat \ {0}
  BY CallFacts DEF GetInv
<1>2. /\ k \in 1..n /\ k \in Nat /\ k = n - 1 /\ k + 1 = n
      /\ n \in 1..n /\ calls # <<>> /\ Top = calls[n]
      /\ n = Len(calls)
  BY <1>1, EmptySeq DEF Return, Top
<1> HIDE DEF n, k
<1>3. /\ calls[k].next <= Len(fs.needed[calls[k].obj])
      /\ Top.obj = Target(fs, calls[k].obj, calls[k].next)
  <2>1. k \in DOMAIN calls /\ k + 1 \in DOMAIN calls /\ Top = calls[k + 1]
    BY <1>1, <1>2
  <2> QED
    BY <2>1 DEF GetInv, CallsAreNested
<1>4. e \in DependencyResult(fs) /\ IsCopy(e)
  <2>1. Top.obj \in fs.readable /\ Top.obj \in DOMAIN cache /\ Top.obj \in fs.files
    BY <1>1, <1>2, FileFacts
  <2>2. Len(cache[Top.obj]) \in Nat
    BY <2>1, ListFacts
  <2> QED
    BY <2>1, <2>2 DEF DependencyResult, IsCopy
<1>5. /\ e.count = Len(cache[e.path])
      /\ \A i \in 1..k : calls[i].obj # e.path
  <2>1. n \in Nat /\ k = n - 1
    BY <1>1, <1>2
  <2>2. ASSUME NEW i \in 1..k PROVE calls[i].obj # calls[n].obj
    <3>1. i \in 1..n /\ n \in 1..n /\ i # n
      BY <2>1
    <3>2. i \in DOMAIN calls /\ n \in DOMAIN calls
      BY <1>1, <3>1
    <3> QED
      BY <3>1, <3>2 DEF GetInv, CallsAreNested
  <2>3. e.path = calls[n].obj /\ e.count = Len(cache[e.path])
    BY <1>2
  <2> HIDE DEF e
  <2> QED
    BY <2>2, <2>3
<1>6. FoundIn(fs, cache[Top.obj]) = DirectDependencies(fs, Top.obj)
  <2>1. Len(fs.needed[Top.obj]) \in Nat /\ Top.obj \in fs.readable /\ Top.next \in Nat
    BY <1>1, <1>2, FileFacts
  <2>2. Top.next <= Len(fs.needed[Top.obj]) + 1
    BY <1>1, <1>2 DEF GetInv, CallsHaveLists
  <2>3. ~(Top.next <= Len(fs.needed[Top.obj]))
    BY <1>2 DEF Return, HasName
  <2>4. Top.next = Len(fs.needed[Top.obj]) + 1
    BY <2>1, <2>2, <2>3
  <2>5. FoundIn(fs, cache[Top.obj]) = TargetsBefore(fs, Top.obj, Top.next)
    BY <1>1, <1>2 DEF GetInv, ListsSoFar
  <2> QED
    BY <2>1, <2>4, <2>5, FileFacts, DependenciesAreTargets
<1>7. \A i \in 1..Len(calls) :
        i > k => FoundIn(fs, cache[calls[i].obj]) = DirectDependencies(fs, calls[i].obj)
  <2>1. \A i \in 1..Len(calls) : i > k => i = n
    <3>1. n \in Nat /\ k = n - 1 /\ n = Len(calls)
      BY <1>1, <1>2
    <3> QED
      BY <3>1
  <2> QED
    BY <1>2, <1>6, <2>1
<1>8. /\ Front(calls) \in Seq(Call(fs))
      /\ Len(Front(calls)) = k
      /\ \A i \in 1..k : Front(calls)[i] = calls[i]
  <2>1. calls \in Seq(Call(fs)) /\ calls # <<>> /\ k = Len(calls) - 1
    BY <1>2 DEF TypeOK
  <2> QED
    BY <2>1, Popped
<1>9. /\ cache' = [cache EXCEPT ![calls[k].obj] = Append(@, e)]
      /\ calls' = Advanced(Front(calls), k)
      /\ pc = "getToLoad"
      /\ UNCHANGED <<fs, root, sorting, visited, order, pc>>
  BY <1>2 DEF Return
<1> HIDE DEF e
<1>10. e.path = Target(fs, calls[k].obj, calls[k].next)
  BY <1>3 DEF e
<1> QED
  BY <1>2, <1>3, <1>4, <1>5, <1>7, <1>8, <1>9, <1>10, Appended

(* exists() failed: the running call passes its name without a result.     *)
LEMMA SkipFailedInv ==
  ASSUME TypeOK, GetInv, SkipFailed
  PROVE  TypeOK' /\ GetInv'
<1> DEFINE n == Len(calls)
<1>0. /\ fs' = fs /\ root' = root /\ cache' = cache /\ sorting' = sorting
      /\ visited' = visited /\ order' = order /\ pc' = pc
      /\ HasName /\ ~IsResolved
  BY DEF SkipFailed, IsResolved
<1>1. /\ DOMAIN calls = 1..n
      /\ n \in Nat
      /\ \A i \in 1..n :
           /\ calls[i].obj \in fs.readable
           /\ calls[i].next \in Nat \ {0}
  BY CallFacts DEF GetInv
<1>2. /\ n \in 1..n
      /\ calls[n] = Top
      /\ Top.next \in Nat \ {0}
      /\ Top.next <= Len(fs.needed[Top.obj])
      /\ Path = Target(fs, Top.obj, Top.next)
  BY <1>0, RunningCall
<1>3. /\ calls' \in Seq(Call(fs))
      /\ DOMAIN calls' = 1..n
      /\ \A i \in 1..n :
           /\ calls'[i].obj = calls[i].obj
           /\ calls'[i].phase = calls[i].phase
           /\ calls'[i].next = IF i = n THEN calls[i].next + 1 ELSE calls[i].next
      /\ Len(calls') = n
  <2>1. calls \in Seq(Call(fs)) /\ calls' = Advanced(calls, n)
    BY DEF TypeOK, SkipFailed
  <2> QED
    BY <1>2, <2>1, AdvancedFacts
<1> HIDE DEF n
<1>4. TypeOK'
  BY <1>0, <1>3 DEF TypeOK
<1>5. Steps'
  <2>1. calls' # <<>>
    <3>1. n \in DOMAIN calls'
      BY <1>2, <1>3
    <3> QED
      BY <3>1
  <2>2. calls # <<>>
    BY <1>0 DEF HasName
  <2> QED
    BY <1>0, <2>1, <2>2 DEF GetInv, Steps
<1>6. CallsHaveLists'
  <2>1. ASSUME NEW i \in 1..n
        PROVE  /\ calls'[i].phase = calls'[i].obj.dir
               /\ calls'[i].obj \in DOMAIN cache
               /\ calls'[i].next <= Len(fs.needed[calls'[i].obj]) + 1
    <3>1. /\ calls[i].phase = calls[i].obj.dir
          /\ calls[i].obj \in DOMAIN cache
          /\ calls[i].next <= Len(fs.needed[calls[i].obj]) + 1
      BY <1>1 DEF GetInv, CallsHaveLists
    <3>2. CASE i = n
      <4>1. Len(fs.needed[Top.obj]) \in Nat
        BY <1>1, <1>2, FileFacts
      <4>2. calls'[n].next = Top.next + 1 /\ calls'[n].obj = Top.obj
        BY <1>2, <1>3
      <4>3. calls'[n].next <= Len(fs.needed[calls'[n].obj]) + 1
        BY <1>2, <4>1, <4>2
      <4> QED
        BY <1>3, <3>1, <3>2, <4>3
    <3>3. CASE i # n
      BY <1>3, <3>1, <3>3
    <3> QED
      BY <3>2, <3>3
  <2> QED
    BY <1>0, <1>3, <2>1 DEF CallsHaveLists
<1>7. CallsAreNested'
  <2>1. ASSUME NEW i \in 1..n, i + 1 \in 1..n
        PROVE  /\ calls'[i].next <= Len(fs.needed[calls'[i].obj])
               /\ calls'[i + 1].obj = Target(fs, calls'[i].obj, calls'[i].next)
    <3>1. /\ calls[i].next <= Len(fs.needed[calls[i].obj])
          /\ calls[i + 1].obj = Target(fs, calls[i].obj, calls[i].next)
      BY <1>1, <2>1 DEF GetInv, CallsAreNested
    <3>2. i # n
      BY <1>1, <2>1
    <3> QED
      BY <1>3, <2>1, <3>1, <3>2
  <2>2. calls'[1].obj = root
    <3>1. 1 \in 1..n /\ calls # <<>> /\ calls'[1].obj = calls[1].obj
      BY <1>1, <1>2, <1>3
    <3> QED
      BY <3>1 DEF GetInv, CallsAreNested
  <2>3. \A i \in 1..n : i + 1 \in 1..n =>
          /\ calls'[i].next <= Len(fs'.needed[calls'[i].obj])
          /\ calls'[i + 1].obj = Target(fs', calls'[i].obj, calls'[i].next)
    BY <1>0, <2>1
  <2>4. ASSUME NEW i \in 1..n, NEW j \in 1..n, calls'[i].obj = calls'[j].obj PROVE i = j
    <3>1. calls[i].obj = calls[j].obj /\ i \in DOMAIN calls /\ j \in DOMAIN calls
      BY <1>1, <1>3, <2>4
    <3> QED
      BY <3>1 DEF GetInv, CallsAreNested
  <2>5. DOMAIN calls' = 1..n
    BY <1>3
  <2> QED
    BY <1>0, <2>2, <2>3, <2>4, <2>5, Zenon DEF CallsAreNested
<1>8. ListsSoFar'
  <2>1. ASSUME NEW i \in 1..n
        PROVE  FoundIn(fs, cache[calls'[i].obj]) = TargetsBefore(fs, calls'[i].obj, calls'[i].next)
    <3>1. FoundIn(fs, cache[calls[i].obj]) = TargetsBefore(fs, calls[i].obj, calls[i].next)
      BY <1>1 DEF GetInv, ListsSoFar
    <3>2. CASE i = n
      <4>1. TargetsBefore(fs, Top.obj, Top.next + 1)
              = TargetsBefore(fs, Top.obj, Top.next)
                  \union {q \in fs.files : q = Target(fs, Top.obj, Top.next)}
        BY <1>2, OneMoreTarget
      <4>2. {q \in fs.files : q = Target(fs, Top.obj, Top.next)} = {}
        BY <1>0, <1>2, NameFacts DEF GetInv
      <4>3. calls'[n].next = Top.next + 1 /\ calls'[n].obj = Top.obj
        BY <1>2, <1>3
      <4> QED
        BY <1>2, <3>1, <3>2, <4>1, <4>2, <4>3
    <3>3. CASE i # n
      BY <1>3, <3>1, <3>3
    <3> QED
      BY <3>2, <3>3
  <2>2. ASSUME NEW p \in DOMAIN cache, \A i \in 1..n : calls'[i].obj # p
        PROVE  FoundIn(fs, cache[p]) = DirectDependencies(fs, p)
    BY <1>1, <1>3, <2>2 DEF GetInv, ListsSoFar, InCalls
  <2>3. \A i \in DOMAIN calls' :
          FoundIn(fs', cache'[calls'[i].obj]) = TargetsBefore(fs', calls'[i].obj, calls'[i].next)
    BY <1>0, <1>3, <2>1, Zenon
  <2>4. \A p \in DOMAIN cache' :
          \/ \E i \in DOMAIN calls' : calls'[i].obj = p
          \/ FoundIn(fs', cache'[p]) = DirectDependencies(fs', p)
    BY <1>0, <1>3, <2>2, Zenon
  <2> QED
    BY <2>3, <2>4, Zenon DEF ListsSoFar, InCalls
<1>9. CopiesAreCopies'
  BY <1>0 DEF GetInv, CopiesAreCopies, IsCopy
<1>10. CopiesAreWholeAlways'
  <2>1. \A p : InCalls(p)' <=> InCalls(p)
    BY <1>1, <1>3 DEF InCalls
  <2> QED
    BY <1>0, <2>1 DEF GetInv, CopiesAreWholeAlways, IsWhole
<1>11. CachedIsBelow'
  BY <1>0 DEF GetInv, CachedIsBelow
<1> QED
  BY <1>4, <1>5, <1>6, <1>7, <1>8, <1>9, <1>10, <1>11 DEF GetInv

-----------------------------------------------------------------------------
(* The steps of topologicalSort.                                           *)

(* They do not touch the lists.                                            *)
LEMMA ListsKept ==
  ASSUME GetInv, UNCHANGED <<fs, root, cache, calls>>, Steps'
  PROVE  GetInv'
<1>0. fs' = fs /\ root' = root /\ cache' = cache /\ calls' = calls
  OBVIOUS
<1>1. \A p : InCalls(p)' <=> InCalls(p)
  BY <1>0 DEF InCalls
<1>2. CallsHaveLists' /\ CallsAreNested' /\ ListsSoFar'
  BY <1>0, <1>1 DEF GetInv, CallsHaveLists, CallsAreNested, ListsSoFar
<1>3. CopiesAreCopies' /\ CopiesAreWholeAlways' /\ CachedIsBelow'
  BY <1>0, <1>1 DEF GetInv, CopiesAreCopies, IsCopy, CopiesAreWholeAlways, IsWhole, CachedIsBelow
<1> QED
  BY <1>2, <1>3 DEF GetInv

(* The frame of a call goes through dependencies in its object's list, and *)
(* through all of them when the copy is whole.                             *)
LEMMA FrameFacts ==
  ASSUME TypeOK, NEW path \in fs.files, NEW count \in Nat,
         IF path \in fs.readable THEN path \in DOMAIN cache /\ count <= Len(cache[path])
                                 ELSE count = 0
  PROVE  /\ SortFrame(path, count) \in [path : fs.files, left : SUBSET Nat]
         /\ SortFrame(path, count).path = path
         /\ \A k \in SortFrame(path, count).left :
              /\ path \in DOMAIN cache
              /\ k \in DOMAIN cache[path]
              /\ cache[path][k].path \in fs.files
         /\ (path \in fs.readable =>
               count = Len(cache[path]) /\ FoundIn(fs, cache[path]) = DirectDependencies(fs, path))
              => DirectDependencies(fs, path) \subseteq LeftOf(SortFrame(path, count))
<1> DEFINE left == {i \in 1..count : IsFound(cache[path][i])}
<1>1. SortFrame(path, count) = [path |-> path, left |-> left]
  BY DEF SortFrame
<1>2. left \in SUBSET Nat
  OBVIOUS
<1>3. ASSUME NEW k \in left
      PROVE  /\ path \in DOMAIN cache
             /\ k \in DOMAIN cache[path]
             /\ cache[path][k].path \in fs.files
  <2>1. path \in DOMAIN cache /\ count <= Len(cache[path])
    <3>1. count # 0
      OBVIOUS
    <3> QED
      BY <3>1
  <2>2. k \in 1..Len(cache[path])
    BY <2>1, ListFacts
  <2> QED
    BY <2>1, <2>2, ListFacts
<1>4. ASSUME path \in fs.readable =>
               count = Len(cache[path]) /\ FoundIn(fs, cache[path]) = DirectDependencies(fs, path)
      PROVE  DirectDependencies(fs, path) \subseteq {cache[path][k].path : k \in left}
  <2>1. CASE path \notin fs.readable
    BY <2>1 DEF DirectDependencies
  <2>2. CASE path \in fs.readable
    <3>1. ASSUME NEW d \in DirectDependencies(fs, path)
          PROVE  \E k \in left : cache[path][k].path = d
      <4>1. PICK i \in DOMAIN cache[path] : d \in fs.files /\ cache[path][i].path = d
        BY <1>4, <2>2, <3>1 DEF FoundIn
      <4>2. i \in 1..count /\ IsFound(cache[path][i])
        BY <1>4, <2>2, <4>1, ListFacts
      <4> QED
        BY <4>1, <4>2
    <3> QED
      BY <3>1
  <2> QED
    BY <2>1, <2>2
<1> HIDE DEF left
<1>5. /\ SortFrame(path, count).path = path
      /\ SortFrame(path, count).left = left
      /\ SortFrame(path, count) \in [path : fs.files, left : SUBSET Nat]
  BY <1>1, <1>2
<1> QED
  BY <1>3, <1>4, <1>5 DEF LeftOf

(* topologicalSort begins, with the lists complete.                        *)
LEMMA SortBegun ==
  ASSUME TypeOK, GetInv, pc \in {"loadMod", "getToLoad"}, NEW count \in Nat,
         IF root \in fs.readable THEN root \in DOMAIN cache /\ count = Len(cache[root])
                                 ELSE count = 0,
         \A p \in DOMAIN cache : FoundIn(fs, cache[p]) = DirectDependencies(fs, p),
         BeginSort(count), calls' = <<>>,
         UNCHANGED <<fs, root, cache, visited, order>>
  PROVE  TypeOK' /\ GetInv' /\ SortInv'
<1> DEFINE frame == SortFrame(root, count)
<1>0. /\ fs' = fs /\ root' = root /\ cache' = cache /\ visited' = {} /\ order' = <<>>
      /\ visited = {} /\ order = <<>>
      /\ sorting' = <<frame>> /\ pc' = "topologicalSort"
  BY DEF BeginSort, GetInv, Steps
<1>1. /\ frame \in [path : fs.files, left : SUBSET Nat]
      /\ frame.path = root
      /\ \A k \in frame.left :
           /\ root \in DOMAIN cache
           /\ k \in DOMAIN cache[root]
           /\ cache[root][k].path \in fs.files
      /\ DirectDependencies(fs, root) \subseteq LeftOf(frame)
  <2>1. root \in DOMAIN cache => Len(cache[root]) \in Nat
    BY ListFacts
  <2>2. root \in fs.files
    BY DEF TypeOK
  <2> HIDE DEF frame
  <2> QED
    BY <2>1, <2>2, FrameFacts DEF frame
<1> HIDE DEF frame
<1>2. /\ DOMAIN sorting' = {1}
      /\ sorting'[1] = frame
      /\ sorting' # <<>>
      /\ sorting' \in Seq([path : fs.files, left : SUBSET Nat])
  BY <1>0, <1>1
<1>3. TypeOK'
  <2>1. calls' \in Seq(Call(fs'))
    BY EmptySeq
  <2> QED
    BY <1>0, <1>2, <2>1 DEF TypeOK
<1>4. GetInv'
  <2>1. Steps'
    BY <1>0, <1>2 DEF Steps
  <2>2. DOMAIN calls' = {} /\ calls' = <<>>
    OBVIOUS
  <2>3. \A p : ~InCalls(p)'
    BY <2>2 DEF InCalls
  <2>4. CallsHaveLists' /\ CallsAreNested' /\ ListsSoFar'
    BY <1>0, <2>2 DEF CallsHaveLists, CallsAreNested, ListsSoFar
  <2>5. CopiesAreCopies' /\ CachedIsBelow'
    BY <1>0 DEF GetInv, CopiesAreCopies, IsCopy, CachedIsBelow
  <2>6. CopiesAreWholeAlways'
    BY <1>0, <2>3 DEF GetInv, CopiesAreWholeAlways, IsWhole
  <2> QED
    BY <2>1, <2>4, <2>5, <2>6 DEF GetInv
<1>5. SortInv'
  <2>1. Entered' = {} /\ DOMAIN order' = {} /\ Range(order') = {} /\ WithoutRepeats(order')
    BY <1>0, <1>2 DEF Entered, WithoutRepeats, IsInjective, Range
  <2>2. FramesHaveLists'
    BY <1>0, <1>1, <1>2 DEF FramesHaveLists
  <2>3. FramesAreNested'
    <3>1. \A i \in DOMAIN sorting' : i + 1 \notin DOMAIN sorting'
      BY <1>2
    <3> QED
      BY <1>0, <1>1, <1>2, <2>1, <3>1 DEF FramesAreNested
  <2>4. VisitedIsEntered' /\ VisitedIsBelow' /\ ShimVisited'
    BY <1>0, <2>1 DEF VisitedIsEntered, VisitedIsBelow, ShimVisited
  <2>5. PassedIsVisited'
    <3>1. DirectDependencies(fs, root) \subseteq {cache[frame.path][k].path : k \in frame.left}
      BY <1>1 DEF LeftOf
    <3>2. ASSUME NEW i \in DOMAIN sorting'
          PROVE  DirectDependencies(fs', sorting'[i].path)
                   \subseteq visited' \union {cache'[sorting'[i].path][k].path : k \in sorting'[i].left}
      BY <1>0, <1>1, <1>2, <3>1
    <3> QED
      BY <1>0, <3>2, Zenon DEF PassedIsVisited, LeftOf
  <2>6. OrderIsClosed'
    BY <2>1 DEF OrderIsClosed
  <2> QED
    BY <2>2, <2>3, <2>4, <2>5, <2>6 DEF SortInv
<1> QED
  BY <1>3, <1>4, <1>5

(* The steps from the first call of getToLoad to the last return.          *)
LEMMA GetSteps ==
  ASSUME IInv,
         \/ GetToLoad \/ SkipFailed \/ AddMissing \/ AddCached \/ AddUnreadable
         \/ Descend \/ Return
  PROVE  IInv'
<1>1. TypeOK /\ GetInv
  BY DEF IInv
<1>2. SortInv'
  <2>1. /\ pc \in {"loadMod", "getToLoad"}
        /\ pc' = "getToLoad"
        /\ sorting' = sorting /\ visited' = visited /\ order' = order
    BY DEF GetToLoad, SkipFailed, AddMissing, AddCached, AddUnreadable, Descend, Return
  <2>2. sorting = <<>> /\ visited = {} /\ order = <<>>
    BY <1>1, <2>1 DEF GetInv, Steps
  <2> QED
    BY <2>1, <2>2, NoSortYet
<1>3. CASE GetToLoad
  <2>1. /\ root \in fs.readable \ DOMAIN cache
        /\ root \in Reachable(fs, root) \union {root}
        /\ calls = <<>>
        /\ Enter(root, root.dir)
        /\ pc \in {"loadMod", "getToLoad"} /\ pc' = "getToLoad"
        /\ UNCHANGED <<fs, root, sorting, visited, order>>
    BY <1>1, <1>3 DEF GetToLoad, Enter, GetInv, Steps
  <2>2. TypeOK' /\ GetInv'
    BY <1>1, <2>1, Begun
  <2> QED
    BY <1>2, <2>2 DEF IInv
<1>4. CASE SkipFailed
  BY <1>1, <1>2, <1>4, SkipFailedInv DEF IInv
<1>5. CASE Return
  BY <1>1, <1>2, <1>5, ReturnInv DEF IInv
<1>6. CASE AddMissing
  <2>1. ~IsResolved /\ HasName /\ Found = "None"
    BY <1>6 DEF AddMissing, IsResolved
  <2>2. Path \in MissingPath
    BY <1>1, <2>1, NameFacts DEF GetInv
  <2>3. /\ pc = "getToLoad" /\ EmplaceBack(Path, 0) /\ 0 \in Nat
        /\ UNCHANGED <<fs, root, sorting, visited, order, pc>>
    BY <1>6 DEF AddMissing
  <2>4. TypeOK' /\ GetInv'
    BY <1>1, <2>1, <2>2, <2>3, EmplacedBack
  <2> QED
    BY <1>2, <2>4 DEF IInv
<1>7. CASE AddCached
  <2> DEFINE count == Len(cache[Path])
  <2>1. /\ pc = "getToLoad" /\ HasName /\ IsResolved /\ Path \in DOMAIN cache
        /\ EmplaceBack(Path, count)
        /\ UNCHANGED <<fs, root, sorting, visited, order, pc>>
    BY <1>7 DEF AddCached
  <2>2. count \in Nat /\ Path \in fs.readable
    BY <1>1, <2>1, ListFacts DEF TypeOK
  <2>3. count = Len(cache[Path])
    OBVIOUS
  <2> HIDE DEF count
  <2>4. TypeOK' /\ GetInv'
    BY <1>1, <2>1, <2>2, <2>3, EmplacedBack
  <2> QED
    BY <1>2, <2>4 DEF IInv
<1>8. CASE AddUnreadable
  <2>1. /\ pc = "getToLoad" /\ HasName /\ IsResolved /\ Path \notin fs.readable
        /\ EmplaceBack(Path, 0) /\ 0 \in Nat
        /\ UNCHANGED <<fs, root, sorting, visited, order, pc>>
    BY <1>8 DEF AddUnreadable
  <2>2. TypeOK' /\ GetInv'
    BY <1>1, <2>1, EmplacedBack
  <2> QED
    BY <1>2, <2>2 DEF IInv
<1>9. CASE Descend
  <2>1. /\ pc = "getToLoad" /\ HasName /\ IsResolved
        /\ Path \in fs.readable \ DOMAIN cache
        /\ Enter(Path, Found)
        /\ UNCHANGED <<fs, root, sorting, visited, order, pc>>
    BY <1>9 DEF Descend, Enter
  <2>2. /\ Path.dir = Found
        /\ Path = Target(fs, Top.obj, Top.next)
        /\ Path \in Reachable(fs, root)
        /\ calls # <<>>
    BY <1>1, <2>1, NameFacts, RunningCall DEF GetInv, HasName
  <2>3. Enter(Path, Path.dir)
    BY <2>1, <2>2
  <2>4. pc' = "getToLoad"
    BY <2>1
  <2>5. TypeOK' /\ GetInv'
    BY <1>1, <2>1, <2>2, <2>3, <2>4, Begun
  <2> QED
    BY <1>2, <2>5 DEF IInv
<1> QED
  BY <1>3, <1>4, <1>5, <1>6, <1>7, <1>8, <1>9

(* The results are complete when topologicalSort begins.                   *)
LEMMA SortBegins ==
  ASSUME IInv, GetNothing \/ ReturnAll
  PROVE  IInv'
<1>1. TypeOK /\ GetInv
  BY DEF IInv
<1>2. CASE GetNothing
  <2>1. /\ pc = "loadMod" /\ root \notin fs.readable /\ BeginSort(0)
        /\ UNCHANGED <<fs, root, cache, calls, visited, order>>
    BY <1>2 DEF GetNothing
  <2>2. calls = <<>> /\ DOMAIN cache = {}
    BY <1>1, <2>1 DEF GetInv, Steps
  <2>3. calls' = <<>> /\ 0 \in Nat
    BY <2>1, <2>2
  <2>4. TypeOK' /\ GetInv' /\ SortInv'
    BY <1>1, <2>1, <2>2, <2>3, SortBegun
  <2> QED
    BY <2>4 DEF IInv
<1>3. CASE ReturnAll
  <2> DEFINE count == Len(cache[root])
  <2>1. /\ pc = "getToLoad" /\ BeginSort(count) /\ calls' = <<>>
        /\ Len(calls) = 1 /\ ~HasName
        /\ UNCHANGED <<fs, root, cache, visited, order>>
    BY <1>3 DEF ReturnAll
  <2>2. /\ calls # <<>>
        /\ DOMAIN calls = {1}
        /\ Top = calls[1]
        /\ calls[1].obj \in fs.readable
        /\ calls[1].obj \in DOMAIN cache
        /\ calls[1].next \in Nat \ {0}
    <3>1. /\ DOMAIN calls = 1..Len(calls)
          /\ \A i \in 1..Len(calls) :
               /\ calls[i].obj \in fs.readable
               /\ calls[i].obj \in DOMAIN cache
               /\ calls[i].next \in Nat \ {0}
      BY <1>1, CallFacts DEF GetInv
    <3>2. 1..Len(calls) = {1}
      BY <2>1
    <3> QED
      BY <1>1, <2>1, <3>1, <3>2 DEF Top, GetInv, Steps
  <2>3. root = calls[1].obj
    BY <1>1, <2>2 DEF GetInv, CallsAreNested
  <2>4. FoundIn(fs, cache[root]) = DirectDependencies(fs, root)
    <3>1. Len(fs.needed[root]) \in Nat
      BY <1>1, <2>2, <2>3, FileFacts
    <3>2. calls[1].next <= Len(fs.needed[root]) + 1
      BY <1>1, <2>2, <2>3 DEF GetInv, CallsHaveLists
    <3>3. ~(calls[1].next <= Len(fs.needed[root]))
      BY <2>1, <2>2, <2>3 DEF HasName
    <3>4. calls[1].next = Len(fs.needed[root]) + 1
      BY <2>2, <3>1, <3>2, <3>3
    <3>5. FoundIn(fs, cache[root]) = TargetsBefore(fs, root, calls[1].next)
      BY <1>1, <2>2, <2>3 DEF GetInv, ListsSoFar
    <3> QED
      BY <1>1, <2>2, <2>3, <3>4, <3>5, FileFacts, DependenciesAreTargets
  <2>5. \A p \in DOMAIN cache : FoundIn(fs, cache[p]) = DirectDependencies(fs, p)
    BY <1>1, <2>2, <2>3, <2>4 DEF GetInv, ListsSoFar, InCalls
  <2>6. count \in Nat /\ root \in fs.readable /\ root \in DOMAIN cache
    BY <1>1, <2>2, <2>3, ListFacts
  <2>7. count = Len(cache[root])
    OBVIOUS
  <2> HIDE DEF count
  <2>8. TypeOK' /\ GetInv' /\ SortInv'
    BY <1>1, <2>1, <2>5, <2>6, <2>7, SortBegun
  <2> QED
    BY <2>8 DEF IInv
<1> QED
  BY <1>2, <1>3

(* The stack of topologicalSort.                                           *)
LEMMA StackFacts ==
  ASSUME TypeOK, sorting # <<>>
  PROVE  /\ DOMAIN sorting = 1..Len(sorting)
         /\ Len(sorting) \in Nat \ {0}
         /\ Len(sorting) \in 1..Len(sorting)
         /\ SortTop = sorting[Len(sorting)]
         /\ \A j \in 1..Len(sorting) : sorting[j].path \in fs.files /\ sorting[j].left \subseteq Nat
<1>1. /\ sorting \in Seq([path : fs.files, left : SUBSET Nat])
      /\ DOMAIN sorting = 1..Len(sorting)
      /\ Len(sorting) \in Nat
  BY LenProperties DEF TypeOK
<1>2. Len(sorting) # 0
  BY <1>1, EmptySeq
<1>3. \A j \in 1..Len(sorting) : sorting[j] \in [path : fs.files, left : SUBSET Nat]
  BY <1>1, ElementOfSeq
<1> QED
  BY <1>1, <1>2, <1>3 DEF SortTop

(* Passed changes the running loop only.                                   *)
LEMMA PassedFacts ==
  ASSUME TypeOK, sorting # <<>>, NEW i \in SortTop.left
  PROVE  /\ Passed(i) \in Seq([path : fs.files, left : SUBSET Nat])
         /\ Len(Passed(i)) = Len(sorting)
         /\ DOMAIN Passed(i) = 1..Len(sorting)
         /\ \A j \in 1..Len(sorting) :
              /\ Passed(i)[j].path = sorting[j].path
              /\ Passed(i)[j].left = IF j = Len(sorting) THEN sorting[j].left \ {i}
                                                         ELSE sorting[j].left
<1> DEFINE n == Len(sorting)
           frame == [sorting[n] EXCEPT !.left = @ \ {i}]
<1>1. /\ DOMAIN sorting = 1..n
      /\ n \in 1..n
      /\ \A j \in 1..n : sorting[j].path \in fs.files /\ sorting[j].left \subseteq Nat
      /\ \A j \in 1..n : sorting[j] \in [path : fs.files, left : SUBSET Nat]
      /\ sorting \in Seq([path : fs.files, left : SUBSET Nat])
  BY StackFacts, ElementOfSeq DEF TypeOK
<1>2. /\ frame \in [path : fs.files, left : SUBSET Nat]
      /\ frame.path = sorting[n].path
      /\ frame.left = sorting[n].left \ {i}
  BY <1>1
<1>3. Passed(i) = [sorting EXCEPT ![n] = frame]
  BY DEF Passed
<1> HIDE DEF frame
<1>4. /\ [sorting EXCEPT ![n] = frame] \in Seq([path : fs.files, left : SUBSET Nat])
      /\ Len([sorting EXCEPT ![n] = frame]) = n
  BY <1>1, <1>2, ExceptSeq
<1>5. \A j \in 1..n : Passed(i)[j] = IF j = n THEN frame ELSE sorting[j]
  BY <1>1, <1>3
<1>6. DOMAIN Passed(i) = 1..n
  BY <1>1, <1>3
<1> QED
  BY <1>2, <1>3, <1>4, <1>5, <1>6, Zenon

(* No list is being filled any more.                                       *)
LEMMA ListsComplete ==
  ASSUME IInv, pc # "getToLoad"
  PROVE  /\ calls = <<>>
         /\ \A p \in DOMAIN cache : FoundIn(fs, cache[p]) = DirectDependencies(fs, p)
         /\ \A p \in DOMAIN cache : \A k \in DOMAIN cache[p] :
              cache[p][k].path \in fs.readable /\ Acyclic(fs, cache[p][k].path) =>
                cache[p][k].count = Len(cache[cache[p][k].path])
<1>1. calls = <<>>
  BY DEF IInv, GetInv, Steps
<1>2. \A p : ~InCalls(p)
  BY <1>1 DEF InCalls
<1> QED
  BY <1>1, <1>2 DEF IInv, GetInv, ListsSoFar, CopiesAreWholeAlways, IsWhole

(* The running loop is of something that was visited, or of root.          *)
LEMMA TopIsBelow ==
  ASSUME TypeOK, SortInv, sorting # <<>>
  PROVE  SortTop.path \in visited \union {root}
<1>1. /\ DOMAIN sorting = 1..Len(sorting)
      /\ Len(sorting) \in 1..Len(sorting)
      /\ SortTop = sorting[Len(sorting)]
  BY StackFacts
<1>2. CASE Len(sorting) = 1
  BY <1>1, <1>2 DEF SortInv, FramesAreNested
<1>3. CASE Len(sorting) # 1
  BY <1>1, <1>3 DEF SortInv, VisitedIsEntered, Entered
<1> QED
  BY <1>2, <1>3

(* The next child of the running loop.                                     *)
LEMMA ChildFacts ==
  ASSUME IInv, pc = "topologicalSort", NEW i \in SortTop.left
  PROVE  /\ sorting # <<>>
         /\ SortTop.path \in visited \union {root}
         /\ Child(i).path \in fs.files
         /\ Child(i).count \in Nat
         /\ Child(i).path \in DirectDependencies(fs, SortTop.path)
         /\ Child(i).path \in Reachable(fs, root)
         /\ IF Child(i).path \in fs.readable
            THEN Child(i).path \in DOMAIN cache /\ Child(i).count <= Len(cache[Child(i).path])
            ELSE Child(i).count = 0
         /\ Child(i).path \in fs.readable /\ Acyclic(fs, Child(i).path) =>
              Child(i).count = Len(cache[Child(i).path])
<1>1. TypeOK /\ GetInv /\ SortInv /\ sorting # <<>>
  BY DEF IInv, GetInv, Steps
<1>2. /\ DOMAIN sorting = 1..Len(sorting)
      /\ Len(sorting) \in 1..Len(sorting)
      /\ SortTop = sorting[Len(sorting)]
  BY <1>1, StackFacts
<1> DEFINE p == SortTop.path
<1>3. p \in visited \union {root}
  BY <1>1, TopIsBelow
<1>4. p \in DOMAIN cache /\ i \in DOMAIN cache[p] /\ cache[p][i].path \in fs.files
  BY <1>1, <1>2 DEF SortInv, FramesHaveLists
<1>5. Child(i) = cache[p][i]
  BY DEF Child
<1>6. /\ FoundIn(fs, cache[p]) = DirectDependencies(fs, p)
      /\ cache[p][i].path \in fs.readable /\ Acyclic(fs, cache[p][i].path) =>
           cache[p][i].count = Len(cache[cache[p][i].path])
  BY <1>4, ListsComplete
<1>7. cache[p][i].path \in DirectDependencies(fs, p)
  BY <1>4, <1>6 DEF FoundIn
<1>8. cache[p][i].path \in Reachable(fs, root)
  BY <1>1, <1>3, <1>7, ReachableFacts DEF SortInv, VisitedIsBelow
<1>9. IsCopy(cache[p][i]) /\ cache[p][i].count \in Nat
  BY <1>1, <1>4, ListFacts DEF GetInv, CopiesAreCopies
<1> HIDE DEF p
<1> QED
  BY <1>1, <1>3, <1>4, <1>5, <1>6, <1>7, <1>8, <1>9 DEF IsCopy, p

(* The loop is done with a place: its child was visited, or is now.        *)
LEMMA LoopGoesOn ==
  ASSUME IInv, pc = "topologicalSort", NEW i \in SortTop.left,
         NEW seen, visited \union {Child(i).path} \subseteq seen
  PROVE  \A j \in 1..Len(sorting) :
           j = 1 \/ Acyclic(fs, sorting[j].path) =>
             DirectDependencies(fs, sorting[j].path) \subseteq seen \union LeftOf(Passed(i)[j])
<1>1. TypeOK /\ sorting # <<>> /\ PassedIsVisited
  BY ChildFacts DEF IInv, SortInv
<1>2. /\ DOMAIN sorting = 1..Len(sorting)
      /\ SortTop = sorting[Len(sorting)]
      /\ \A j \in 1..Len(sorting) :
           /\ Passed(i)[j].path = sorting[j].path
           /\ Passed(i)[j].left = IF j = Len(sorting) THEN sorting[j].left \ {i}
                                                      ELSE sorting[j].left
  BY <1>1, StackFacts, PassedFacts, Zenon
<1>3. ASSUME NEW j \in 1..Len(sorting)
      PROVE  LeftOf(sorting[j]) \subseteq LeftOf(Passed(i)[j]) \union {Child(i).path}
  <2>1. CASE j = Len(sorting)
    <3>1. /\ Passed(i)[j].left = sorting[j].left \ {i}
          /\ Passed(i)[j].path = sorting[j].path
          /\ sorting[j] = SortTop
      BY <1>2, <2>1
    <3> QED
      BY <3>1 DEF LeftOf, Child
  <2>2. CASE j # Len(sorting)
    <3>1. Passed(i)[j].left = sorting[j].left /\ Passed(i)[j].path = sorting[j].path
      BY <1>2, <2>2, Zenon
    <3> QED
      BY <3>1 DEF LeftOf
  <2> QED
    BY <2>1, <2>2
<1> QED
  <2>1. \A j \in 1..Len(sorting) :
          j = 1 \/ Acyclic(fs, sorting[j].path) =>
            DirectDependencies(fs, sorting[j].path) \subseteq visited \union LeftOf(sorting[j])
    BY <1>1, <1>2, Zenon DEF PassedIsVisited
  <2> QED
    BY <1>3, <2>1

(* topologicalSortRecurse returned at once.                                *)
LEMMA SkipVisitedInv ==
  ASSUME IInv, SkipVisited
  PROVE  IInv'
<1> DEFINE n == Len(sorting)
<1>1. PICK i \in SortTop.left : Child(i).path \in visited /\ sorting' = Passed(i)
  BY DEF SkipVisited
<1>0. /\ fs' = fs /\ root' = root /\ cache' = cache /\ calls' = calls
      /\ visited' = visited /\ order' = order /\ pc' = pc
      /\ pc = "topologicalSort"
  BY DEF SkipVisited
<1>2. TypeOK /\ GetInv /\ SortInv /\ sorting # <<>>
  BY <1>0, <1>1, ChildFacts DEF IInv
<1>3. /\ DOMAIN sorting = 1..n
      /\ n \in Nat \ {0}
      /\ n \in 1..n
      /\ sorting' \in Seq([path : fs.files, left : SUBSET Nat])
      /\ DOMAIN sorting' = DOMAIN sorting
      /\ \A j \in DOMAIN sorting :
           /\ sorting'[j].path = sorting[j].path
           /\ sorting'[j].left \subseteq sorting[j].left
  <2>1. /\ DOMAIN sorting = 1..n
        /\ n \in Nat \ {0}
        /\ n \in 1..n
    BY <1>2, StackFacts
  <2>2. /\ sorting' \in Seq([path : fs.files, left : SUBSET Nat])
        /\ DOMAIN sorting' = 1..n
        /\ \A j \in 1..n :
             /\ sorting'[j].path = sorting[j].path
             /\ sorting'[j].left = IF j = n THEN sorting[j].left \ {i} ELSE sorting[j].left
    BY <1>1, <1>2, PassedFacts
  <2>3. \A j \in 1..n : sorting'[j].left \subseteq sorting[j].left
    BY <2>2, Zenon
  <2> QED
    BY <2>1, <2>2, <2>3, Zenon
<1>4. TypeOK'
  BY <1>0, <1>2, <1>3 DEF TypeOK
<1>5. GetInv'
  <2>1. sorting' # <<>>
    <3>1. n \in DOMAIN sorting'
      BY <1>3
    <3> QED
      BY <3>1
  <2>2. Steps'
    BY <1>0, <1>2, <2>1 DEF GetInv, Steps
  <2> QED
    BY <1>0, <1>2, <2>2, ListsKept
<1>6. SortInv'
  <2>1. Entered' = Entered
    BY <1>3 DEF Entered
  <2>2. Entered \subseteq DOMAIN sorting
    BY DEF Entered
  <2>3. FramesHaveLists'
    <3>1. ASSUME NEW j \in DOMAIN sorting', NEW k \in sorting'[j].left
          PROVE  /\ sorting'[j].path \in DOMAIN cache'
                 /\ k \in DOMAIN cache'[sorting'[j].path]
                 /\ cache'[sorting'[j].path][k].path \in fs'.files
      BY <1>0, <1>2, <1>3 DEF SortInv, FramesHaveLists
    <3> QED
      BY <3>1 DEF FramesHaveLists
  <2>4. FramesAreNested'
    <3>1. sorting'[1].path = root'
      BY <1>0, <1>2, <1>3 DEF SortInv, FramesAreNested
    <3>2. \A j \in DOMAIN sorting' :
            j + 1 \in DOMAIN sorting' =>
              sorting'[j + 1].path \in DirectDependencies(fs', sorting'[j].path)
      BY <1>0, <1>2, <1>3 DEF SortInv, FramesAreNested
    <3>3. \A j, k \in Entered' : sorting'[j].path = sorting'[k].path => j = k
      BY <1>2, <1>3, <2>1, <2>2 DEF SortInv, FramesAreNested
    <3>4. \A j \in Entered' : sorting'[j].path \notin Range(order')
      BY <1>0, <1>2, <1>3, <2>1, <2>2 DEF SortInv, FramesAreNested
    <3>5. WithoutRepeats(order')
      BY <1>0, <1>2 DEF SortInv, FramesAreNested
    <3> QED
      BY <3>1, <3>2, <3>3, <3>4, <3>5, Zenon DEF FramesAreNested
  <2>5. VisitedIsEntered'
    <3>1. {sorting'[j].path : j \in Entered'} = {sorting[j].path : j \in Entered}
      BY <1>3, <2>1, <2>2
    <3> QED
      BY <1>0, <1>2, <3>1 DEF SortInv, VisitedIsEntered
  <2>6. VisitedIsBelow' /\ ShimVisited'
    BY <1>0, <1>2 DEF SortInv, VisitedIsBelow, ShimVisited
  <2>7. PassedIsVisited' /\ OrderIsClosed'
    <3>2. \A j \in 1..n :
            j = 1 \/ Acyclic(fs, sorting[j].path) =>
              DirectDependencies(fs, sorting[j].path) \subseteq visited \union LeftOf(Passed(i)[j])
      BY <1>0, <1>1, LoopGoesOn
    <3>3. ASSUME NEW j \in DOMAIN sorting', j = 1 \/ Acyclic(fs', sorting'[j].path)
          PROVE  DirectDependencies(fs', sorting'[j].path)
                   \subseteq visited' \union {cache'[sorting'[j].path][k].path : k \in sorting'[j].left}
      BY <1>0, <1>1, <1>3, <3>2, <3>3 DEF LeftOf
    <3>4. pc' # "sorted"
      BY <1>0
    <3>5. PassedIsVisited'
      BY <3>3, <3>4, Zenon DEF PassedIsVisited, LeftOf
    <3>6. OrderIsClosed'
      BY <1>0, <1>2 DEF SortInv, OrderIsClosed
    <3> QED
      BY <3>5, <3>6
  <2> QED
    BY <2>3, <2>4, <2>5, <2>6, <2>7 DEF SortInv
<1> QED
  BY <1>4, <1>5, <1>6 DEF IInv

(* topologicalSortRecurse goes into a Dependency.                          *)
LEMMA VisitInv ==
  ASSUME IInv, Visit
  PROVE  IInv'
<1> DEFINE n == Len(sorting)
<1>1. PICK i \in SortTop.left :
        /\ Child(i).path \notin visited
        /\ visited' = visited \union {Child(i).path}
        /\ sorting' = Append(Passed(i), SortFrame(Child(i).path, Child(i).count))
  BY DEF Visit
<1> DEFINE c == Child(i).path
           frame == SortFrame(c, Child(i).count)
<1>0. /\ fs' = fs /\ root' = root /\ cache' = cache /\ calls' = calls
      /\ order' = order /\ pc' = pc
      /\ pc = "topologicalSort"
  BY DEF Visit
<1>2. TypeOK /\ GetInv /\ SortInv /\ sorting # <<>>
  BY <1>0, <1>1, ChildFacts DEF IInv
<1>3. /\ c \in fs.files
      /\ c \in DirectDependencies(fs, SortTop.path)
      /\ c \in Reachable(fs, root)
      /\ SortTop.path \in visited \union {root}
  BY <1>0, <1>1, ChildFacts
<1>4. /\ frame \in [path : fs.files, left : SUBSET Nat]
      /\ frame.path = c
      /\ \A k \in frame.left :
           /\ c \in DOMAIN cache
           /\ k \in DOMAIN cache[c]
           /\ cache[c][k].path \in fs.files
      /\ Acyclic(fs, c) =>
           DirectDependencies(fs, c) \subseteq {cache[frame.path][k].path : k \in frame.left}
  <2> DEFINE count == Child(i).count
  <2>1. /\ count \in Nat
        /\ IF c \in fs.readable THEN c \in DOMAIN cache /\ count <= Len(cache[c]) ELSE count = 0
        /\ c \in fs.readable /\ Acyclic(fs, c) => count = Len(cache[c])
    BY <1>0, <1>1, ChildFacts
  <2>2. c \in DOMAIN cache => FoundIn(fs, cache[c]) = DirectDependencies(fs, c)
    <3> HIDE DEF c
    <3> QED
      BY <1>0, ListsComplete
  <2>3. frame = SortFrame(c, count)
    OBVIOUS
  <2> HIDE DEF c, count, frame
  <2> QED
    BY <1>2, <1>3, <2>1, <2>2, <2>3, FrameFacts DEF LeftOf
<1>5. /\ DOMAIN sorting = 1..n
      /\ n \in Nat \ {0}
      /\ n \in 1..n
      /\ SortTop = sorting[n]
  BY <1>2, StackFacts
<1>6. /\ Passed(i) \in Seq([path : fs.files, left : SUBSET Nat])
      /\ Len(Passed(i)) = n
      /\ \A j \in 1..n :
           /\ Passed(i)[j].path = sorting[j].path
           /\ Passed(i)[j].left \subseteq sorting[j].left
  BY <1>1, <1>2, PassedFacts
<1> HIDE DEF c, frame
<1>7. /\ sorting' \in Seq([path : fs.files, left : SUBSET Nat])
      /\ DOMAIN sorting' = 1..(n + 1)
      /\ \A j \in 1..n : sorting'[j] = Passed(i)[j]
      /\ sorting'[n + 1] = frame
  <2>1. sorting' = Append(Passed(i), frame)
    BY <1>1 DEF frame, c
  <2> QED
    BY <1>4, <1>6, <2>1, Pushed
<1>8. /\ visited' = visited \union {c}
      /\ c \notin visited
  BY <1>1 DEF c
<1>9. /\ DOMAIN sorting' = DOMAIN sorting \union {n + 1}
      /\ n + 1 \notin DOMAIN sorting
      /\ Entered' = Entered \union {n + 1}
      /\ Entered \subseteq 1..n
  BY <1>5, <1>7 DEF Entered
<1>10. TypeOK'
  BY <1>0, <1>2, <1>3, <1>7, <1>8 DEF TypeOK
<1>11. GetInv'
  <2>1. sorting' # <<>>
    <3>1. n + 1 \in DOMAIN sorting'
      BY <1>9
    <3> QED
      BY <3>1
  <2>2. Steps'
    BY <1>0, <1>2, <2>1 DEF GetInv, Steps
  <2> QED
    BY <1>0, <1>2, <2>2, ListsKept
<1>12. SortInv'
  <2>1. FramesHaveLists'
    <3>1. ASSUME NEW j \in DOMAIN sorting', NEW k \in sorting'[j].left
          PROVE  /\ sorting'[j].path \in DOMAIN cache'
                 /\ k \in DOMAIN cache'[sorting'[j].path]
                 /\ cache'[sorting'[j].path][k].path \in fs'.files
      <4>1. CASE j = n + 1
        BY <1>0, <1>4, <1>7, <3>1, <4>1
      <4>2. CASE j \in 1..n
        BY <1>0, <1>2, <1>5, <1>6, <1>7, <3>1, <4>2 DEF SortInv, FramesHaveLists
      <4> QED
        BY <1>5, <1>9, <4>1, <4>2
    <3> QED
      BY <3>1 DEF FramesHaveLists
  <2>2. FramesAreNested'
    <3>1. sorting'[1].path = root'
      BY <1>0, <1>2, <1>5, <1>6, <1>7 DEF SortInv, FramesAreNested
    <3>2. ASSUME NEW j \in DOMAIN sorting', j + 1 \in DOMAIN sorting'
          PROVE  sorting'[j + 1].path \in DirectDependencies(fs', sorting'[j].path)
      <4>1. CASE j = n
        <5>1. sorting'[j + 1].path = c /\ sorting'[j].path = SortTop.path
          BY <1>4, <1>5, <1>6, <1>7, <4>1
        <5> QED
          BY <1>0, <1>3, <5>1
      <4>2. CASE j # n
        <5>1. j \in 1..n /\ j + 1 \in 1..n
          <6>1. n \in Nat /\ j \in 1..(n + 1) /\ j + 1 \in 1..(n + 1)
            BY <1>5, <1>7, <3>2
          <6> HIDE DEF n
          <6> QED
            BY <4>2, <6>1
        <5>2. sorting[j + 1].path \in DirectDependencies(fs, sorting[j].path)
          BY <1>2, <1>5, <5>1 DEF SortInv, FramesAreNested
        <5> QED
          BY <1>0, <1>6, <1>7, <5>1, <5>2
      <4> QED
        BY <4>1, <4>2
    <3>3. ASSUME NEW j \in Entered PROVE sorting'[j].path = sorting[j].path /\ sorting[j].path # c
      <4>1. sorting'[j].path = sorting[j].path
        BY <1>6, <1>7, <1>9
      <4>2. sorting[j].path \in visited
        BY <1>2 DEF SortInv, VisitedIsEntered
      <4> QED
        BY <1>8, <4>1, <4>2
    <3>4. \A j, k \in Entered' : sorting'[j].path = sorting'[k].path => j = k
      <4>1. \A j, k \in Entered : sorting'[j].path = sorting'[k].path => j = k
        BY <1>2, <3>3 DEF SortInv, FramesAreNested
      <4>2. sorting'[n + 1].path = c
        BY <1>4, <1>7
      <4> QED
        BY <1>9, <3>3, <4>1, <4>2
    <3>5. \A j \in Entered' : sorting'[j].path \notin Range(order')
      <4>1. \A j \in Entered : sorting'[j].path \notin Range(order)
        BY <1>2, <3>3 DEF SortInv, FramesAreNested
      <4>2. c \notin Range(order)
        BY <1>2, <1>8 DEF SortInv, VisitedIsEntered
      <4>3. sorting'[n + 1].path = c
        BY <1>4, <1>7
      <4> QED
        BY <1>0, <1>9, <4>1, <4>2, <4>3
    <3>6. WithoutRepeats(order')
      BY <1>0, <1>2 DEF SortInv, FramesAreNested
    <3> QED
      BY <3>1, <3>2, <3>4, <3>5, <3>6, Zenon DEF FramesAreNested
  <2>3. VisitedIsEntered'
    <3>1. {sorting'[j].path : j \in Entered'} = {sorting[j].path : j \in Entered} \union {c}
      <4>1. sorting'[n + 1].path = c
        BY <1>4, <1>7
      <4>2. \A j \in Entered : sorting'[j].path = sorting[j].path
        BY <1>6, <1>7, <1>9
      <4>3. Entered' = Entered \union {n + 1}
        BY <1>9
      <4>4. ASSUME NEW p
            PROVE  (\E j \in Entered' : p = sorting'[j].path)
                     <=> (\E j \in Entered : p = sorting[j].path) \/ p = c
        BY <4>1, <4>2, <4>3, Zenon
      <4> QED
        BY <4>4
    <3> QED
      BY <1>0, <1>2, <1>8, <3>1 DEF SortInv, VisitedIsEntered
  <2>4. VisitedIsBelow'
    BY <1>0, <1>2, <1>3, <1>8 DEF SortInv, VisitedIsBelow
  <2>5. ShimVisited'
    <3>1. ASSUME PhaseRank[c.dir] > PhaseRank[root.dir]
          PROVE  \E q \in visited' \union {root} : q.dir = "Shim"
      <4>1. CASE c.dir = "Shim"
        BY <1>8, <4>1
      <4>2. CASE c.dir # "Shim"
        <5>1. SortTop.path \in fs.files
          BY <1>2, StackFacts
        <5>2. PhaseRank[c.dir] <= PhaseRank[SortTop.path.dir]
          BY <1>2, <1>3, <4>2, <5>1, PhaseOfDependency DEF TypeOK
        <5>3. /\ PhaseRank[c.dir] \in Nat
              /\ PhaseRank[SortTop.path.dir] \in Nat
              /\ PhaseRank[root.dir] \in Nat
          <6>1. \A d \in Range(loadPhaseMap) : PhaseRank[d] \in Nat
            BY Directories DEF PhaseRank
          <6> QED
            BY <1>2, <1>3, <5>1, <6>1, FileFacts DEF TypeOK
        <5>4. PhaseRank[SortTop.path.dir] > PhaseRank[root.dir]
          BY <3>1, <5>2, <5>3
        <5>5. SortTop.path \in visited
          BY <1>3, <5>3, <5>4
        <5> QED
          BY <1>2, <1>8, <5>4, <5>5 DEF SortInv, ShimVisited
      <4> QED
        BY <4>1, <4>2
    <3>2. ASSUME NEW p \in visited, PhaseRank[p.dir] > PhaseRank[root.dir]
          PROVE  \E q \in visited' \union {root} : q.dir = "Shim"
      BY <1>2, <1>8, <3>2 DEF SortInv, ShimVisited
    <3>3. \A p \in visited' :
            PhaseRank[p.dir] > PhaseRank[root'.dir] => \E q \in visited' \union {root'} : q.dir = "Shim"
      BY <1>0, <1>8, <3>1, <3>2
    <3> QED
      BY <3>3, Zenon DEF ShimVisited
  <2>6. PassedIsVisited' /\ OrderIsClosed'
    <3>2. \A j \in 1..n :
            j = 1 \/ Acyclic(fs, sorting[j].path) =>
              DirectDependencies(fs, sorting[j].path) \subseteq visited' \union LeftOf(Passed(i)[j])
      <4>1. visited \union {Child(i).path} \subseteq visited'
        BY <1>8 DEF c
      <4> DEFINE seen == visited'
      <4>2. visited \union {Child(i).path} \subseteq seen
        BY <4>1
      <4> HIDE DEF seen
      <4>3. \A j \in 1..n :
              j = 1 \/ Acyclic(fs, sorting[j].path) =>
                DirectDependencies(fs, sorting[j].path) \subseteq seen \union LeftOf(Passed(i)[j])
        BY <1>0, <4>2, LoopGoesOn
      <4> QED
        BY <4>3 DEF seen
    <3>3. ASSUME NEW j \in DOMAIN sorting', j = 1 \/ Acyclic(fs', sorting'[j].path)
          PROVE  DirectDependencies(fs', sorting'[j].path)
                   \subseteq visited' \union {cache'[sorting'[j].path][k].path : k \in sorting'[j].left}
      <4>1. CASE j \in 1..n
        BY <1>0, <1>6, <1>7, <3>2, <3>3, <4>1 DEF LeftOf
      <4>2. CASE j = n + 1
        <5>1. sorting'[j] = frame /\ frame.path = c
          BY <1>4, <1>7, <4>2
        <5>2. Acyclic(fs, c)
          BY <1>0, <1>5, <3>3, <4>2, <5>1
        <5> QED
          BY <1>0, <1>4, <5>1, <5>2
      <4> QED
        BY <1>5, <1>9, <4>1, <4>2
    <3>4. pc' # "sorted"
      BY <1>0
    <3>5. PassedIsVisited'
      BY <3>3, <3>4, Zenon DEF PassedIsVisited, LeftOf
    <3>6. OrderIsClosed'
      BY <1>0, <1>2 DEF SortInv, OrderIsClosed
    <3> QED
      BY <3>5, <3>6
  <2> QED
    BY <2>1, <2>2, <2>3, <2>4, <2>5, <2>6 DEF SortInv
<1> QED
  BY <1>10, <1>11, <1>12 DEF IInv

(* The calls of topologicalSortRecurse form a chain of needs as well: when *)
(* there is no cycle below its object the running one has left nothing to  *)
(* the ones below it.                                                      *)
LEMMA TopIsReady ==
  ASSUME IInv, pc = "topologicalSort", Len(sorting) > 1, SortTop.left = {},
         Acyclic(fs, SortTop.path)
  PROVE  DirectDependencies(fs, SortTop.path) \subseteq Range(order)
<1> DEFINE n == Len(sorting)
           f == [j \in 1..n |-> sorting[j].path]
<1>1. TypeOK /\ SortInv /\ PassedIsVisited /\ sorting # <<>>
  BY DEF IInv, SortInv, GetInv, Steps
<1>2. /\ DOMAIN sorting = 1..n
      /\ n \in Nat
      /\ n \in 1..n
      /\ SortTop = sorting[n]
  BY <1>1, StackFacts
<1>3. DirectDependencies(fs, SortTop.path) \subseteq visited
  <2>1. LeftOf(SortTop) = {}
    BY DEF LeftOf
  <2> QED
    BY <1>1, <1>2, <2>1 DEF PassedIsVisited
<1>4. SUFFICES ASSUME NEW k \in Entered, sorting[k].path \in DirectDependencies(fs, SortTop.path)
               PROVE  FALSE
  BY <1>1, <1>3 DEF SortInv, VisitedIsEntered
<1>5. k \in 1..n
  BY <1>2 DEF Entered
<1>7. ASSUME NEW j \in 1..(n - 1) PROVE f[j + 1] \in DirectDependencies(fs, f[j])
  <2>1. j \in 1..n /\ j + 1 \in 1..n
    <3>1. n \in Nat
      BY <1>2
    <3> HIDE DEF n
    <3> QED
      BY <3>1
  <2> QED
    BY <1>1, <1>2, <2>1 DEF SortInv, FramesAreNested
<1>8. f[k] \in DirectDependencies(fs, f[n])
  BY <1>2, <1>4, <1>5
<1>9. n \in Nat /\ n \in k..n /\ Acyclic(fs, f[n])
  BY <1>2, <1>5
<1> HIDE DEF f, n
<1> QED
  BY <1>5, <1>7, <1>8, <1>9, NoStackWayBack

(* topologicalSortRecurse returns and its object joins the order.          *)
LEMMA EmplaceInv ==
  ASSUME IInv, Emplace
  PROVE  IInv'
<1> DEFINE n == Len(sorting)
           t == SortTop.path
<1>0. /\ fs' = fs /\ root' = root /\ cache' = cache /\ calls' = calls
      /\ visited' = visited /\ pc' = pc
      /\ pc = "topologicalSort" /\ n > 1 /\ SortTop.left = {}
      /\ order' = Append(order, t)
      /\ sorting' = Front(sorting)
  BY DEF Emplace
<1>1. TypeOK /\ GetInv /\ SortInv /\ sorting # <<>>
  BY <1>0 DEF IInv, GetInv, Steps
<1>2. /\ DOMAIN sorting = 1..n
      /\ n \in Nat
      /\ n \in 1..n
      /\ SortTop = sorting[n]
      /\ \A j \in 1..n : sorting[j].path \in fs.files
  BY <1>1, StackFacts
<1>3. /\ sorting' \in Seq([path : fs.files, left : SUBSET Nat])
      /\ DOMAIN sorting' = 1..(n - 1)
      /\ \A j \in 1..(n - 1) : sorting'[j] = sorting[j]
  BY <1>0, <1>1, Popped DEF TypeOK
<1>4. order \in Seq(fs.files) /\ t \in fs.files
  BY <1>1, <1>2 DEF TypeOK
<1>5. n \in Entered /\ t = sorting[n].path
  BY <1>0, <1>2 DEF Entered
<1> HIDE DEF t
<1>6. /\ order' \in Seq(fs.files)
      /\ Len(order) \in Nat
      /\ DOMAIN order = 1..Len(order)
      /\ DOMAIN order' = 1..(Len(order) + 1)
      /\ \A i \in 1..Len(order) : order'[i] = order[i]
      /\ order'[Len(order) + 1] = t
  BY <1>0, <1>4, Pushed
<1>7. Range(order') = Range(order) \union {t}
  BY <1>0, <1>4, RangeOfAppend
<1>8. Entered' = Entered \ {n} /\ DOMAIN sorting' \subseteq DOMAIN sorting
  <2>1. 1..(n - 1) = (1..n) \ {n}
    <3>1. n \in Nat
      BY <1>2
    <3> HIDE DEF n
    <3> QED
      BY <3>1
  <2> QED
    BY <1>2, <1>3, <2>1 DEF Entered
<1>9. \A j \in Entered : j # n => sorting'[j] = sorting[j]
  <2>1. \A j \in Entered : j # n => j \in DOMAIN sorting'
    BY <1>8 DEF Entered
  <2> QED
    BY <1>3, <2>1
<1>10. TypeOK'
  BY <1>0, <1>1, <1>3, <1>6 DEF TypeOK
<1>11. GetInv'
  <2>1. sorting' # <<>>
    <3>1. 1 \in DOMAIN sorting'
      BY <1>0, <1>2, <1>3
    <3> QED
      BY <3>1
  <2>2. Steps'
    BY <1>0, <1>1, <2>1 DEF GetInv, Steps
  <2> QED
    BY <1>0, <1>1, <2>2, ListsKept
<1>12. SortInv'
  <2>1. FramesHaveLists'
    <3>1. ASSUME NEW j \in DOMAIN sorting', NEW k \in sorting'[j].left
          PROVE  /\ sorting'[j].path \in DOMAIN cache'
                 /\ k \in DOMAIN cache'[sorting'[j].path]
                 /\ cache'[sorting'[j].path][k].path \in fs'.files
      BY <1>0, <1>1, <1>3, <1>8 DEF SortInv, FramesHaveLists
    <3> QED
      BY <3>1 DEF FramesHaveLists
  <2>2. FramesAreNested'
    <3>1. sorting'[1].path = root'
      <4>1. 1 \in 1..(n - 1)
        BY <1>0, <1>2
      <4> QED
        BY <1>0, <1>1, <1>3, <4>1 DEF SortInv, FramesAreNested
    <3>2. \A j \in DOMAIN sorting' :
            j + 1 \in DOMAIN sorting' =>
              sorting'[j + 1].path \in DirectDependencies(fs', sorting'[j].path)
      BY <1>0, <1>1, <1>3, <1>8 DEF SortInv, FramesAreNested
    <3>3. \A j, k \in Entered' : sorting'[j].path = sorting'[k].path => j = k
      BY <1>1, <1>8, <1>9 DEF SortInv, FramesAreNested
    <3>4. \A j \in Entered' : sorting'[j].path \notin Range(order')
      BY <1>1, <1>5, <1>7, <1>8, <1>9 DEF SortInv, FramesAreNested
    <3>5. WithoutRepeats(order')
      <4>1. WithoutRepeats(order) /\ t \notin Range(order)
        BY <1>1, <1>5 DEF SortInv, FramesAreNested
      <4>2. \A i \in 1..Len(order) : order'[i] # t
        BY <1>6, <4>1 DEF Range
      <4> QED
        BY <1>6, <4>1, <4>2 DEF WithoutRepeats, IsInjective
    <3> QED
      BY <3>1, <3>2, <3>3, <3>4, <3>5, Zenon DEF FramesAreNested
  <2>3. VisitedIsEntered'
    <3>1. ASSUME NEW p
          PROVE  (\E j \in Entered : p = sorting[j].path)
                   <=> (\E j \in Entered' : p = sorting'[j].path) \/ p = t
      BY <1>5, <1>8, <1>9
    <3>2. {sorting[j].path : j \in Entered} = {sorting'[j].path : j \in Entered'} \union {t}
      BY <3>1
    <3> QED
      BY <1>0, <1>1, <1>7, <3>2 DEF SortInv, VisitedIsEntered
  <2>4. VisitedIsBelow' /\ ShimVisited'
    BY <1>0, <1>1 DEF SortInv, VisitedIsBelow, ShimVisited
  <2>5. PassedIsVisited' /\ OrderIsClosed'
    <3>2. ASSUME NEW j \in DOMAIN sorting', j = 1 \/ Acyclic(fs', sorting'[j].path)
          PROVE  DirectDependencies(fs', sorting'[j].path)
                   \subseteq visited' \union {cache'[sorting'[j].path][k].path : k \in sorting'[j].left}
      <4>1. j \in DOMAIN sorting /\ sorting'[j] = sorting[j]
        BY <1>3, <1>8
      <4>2. DirectDependencies(fs, sorting[j].path) \subseteq visited \union LeftOf(sorting[j])
        BY <1>0, <1>1, <3>2, <4>1 DEF SortInv, PassedIsVisited
      <4> QED
        BY <1>0, <4>1, <4>2 DEF LeftOf
    <3>3. pc' # "sorted"
      BY <1>0
    <3>4. PassedIsVisited'
      BY <3>2, <3>3, Zenon DEF PassedIsVisited, LeftOf
    <3>5. ASSUME NEW i \in DOMAIN order', Acyclic(fs, order'[i])
          PROVE  DirectDependencies(fs, order'[i]) \subseteq Before(order', i)
      <4>1. CASE i = Len(order) + 1
        <5>1. DirectDependencies(fs, t) \subseteq Range(order)
          BY <1>0, <1>6, <3>5, <4>1, TopIsReady DEF t
        <5>2. (Len(order) + 1) - 1 = Len(order)
          BY <1>6
        <5>3. Before(order', i) = Range(order)
          BY <1>6, <4>1, <5>2 DEF Before, Range
        <5> QED
          BY <1>6, <4>1, <5>1, <5>3
      <4>2. CASE i \in 1..Len(order)
        <5>1. \A j \in 1..(i - 1) : j \in 1..Len(order)
          BY <1>6, <4>2
        <5>2. Before(order', i) = Before(order, i)
          BY <1>6, <5>1 DEF Before
        <5> QED
          BY <1>1, <1>6, <3>5, <4>2, <5>2 DEF SortInv, OrderIsClosed
      <4> QED
        BY <1>6, <4>1, <4>2
    <3>6. OrderIsClosed'
      BY <1>0, <3>5 DEF OrderIsClosed
    <3> QED
      BY <3>4, <3>6
  <2> QED
    BY <2>1, <2>2, <2>3, <2>4, <2>5 DEF SortInv
<1> QED
  BY <1>10, <1>11, <1>12 DEF IInv

(* topologicalSort returns.                                                *)
LEMMA SortedInv ==
  ASSUME IInv, Sorted
  PROVE  IInv'
<1>0. /\ fs' = fs /\ root' = root /\ cache' = cache /\ calls' = calls
      /\ visited' = visited /\ order' = order
      /\ pc = "topologicalSort" /\ pc' = "sorted"
      /\ Len(sorting) = 1 /\ SortTop.left = {}
      /\ sorting' = <<>>
  BY DEF Sorted
<1>1. TypeOK /\ GetInv /\ SortInv /\ sorting # <<>>
  BY <1>0 DEF IInv, GetInv, Steps
<1>2. /\ DOMAIN sorting = {1}
      /\ SortTop = sorting[1]
      /\ sorting[1].path = root
      /\ DOMAIN sorting' = {}
      /\ Entered = {}
      /\ Entered' = {}
  <2>1. DOMAIN sorting = 1..1 /\ SortTop = sorting[1]
    BY <1>0, <1>1, StackFacts
  <2>2. 1..1 = {1}
    OBVIOUS
  <2>3. DOMAIN sorting' = {}
    BY <1>0
  <2> QED
    BY <1>1, <2>1, <2>2, <2>3 DEF SortInv, FramesAreNested, Entered
<1>3. TypeOK'
  BY <1>0, <1>1 DEF TypeOK
<1>4. GetInv'
  <2>1. Steps'
    BY <1>0, <1>1 DEF GetInv, Steps
  <2> QED
    BY <1>0, <1>1, <2>1, ListsKept
<1>5. SortInv'
  <2>1. FramesHaveLists'
    BY <1>2 DEF FramesHaveLists
  <2>2. FramesAreNested'
    BY <1>0, <1>1, <1>2 DEF SortInv, FramesAreNested
  <2>3. VisitedIsEntered'
    <3>1. {sorting[j].path : j \in Entered} = {sorting'[j].path : j \in Entered'}
      BY <1>2
    <3> QED
      BY <1>0, <1>1, <3>1 DEF SortInv, VisitedIsEntered
  <2>4. VisitedIsBelow' /\ ShimVisited'
    BY <1>0, <1>1 DEF SortInv, VisitedIsBelow, ShimVisited
  <2>5. PassedIsVisited' /\ OrderIsClosed'
    <3>2. LeftOf(sorting[1]) = {}
      BY <1>0, <1>2 DEF LeftOf
    <3>3. DirectDependencies(fs, root) \subseteq visited
      BY <1>1, <1>2, <3>2 DEF SortInv, PassedIsVisited
    <3> QED
      BY <1>0, <1>1, <1>2, <3>3 DEF SortInv, PassedIsVisited, OrderIsClosed
  <2> QED
    BY <2>1, <2>2, <2>3, <2>4, <2>5 DEF SortInv
<1> QED
  BY <1>3, <1>4, <1>5 DEF IInv

-----------------------------------------------------------------------------
(* The steps of topologicalSort as steps of DepthFirst.                    *)

(* Paths have one order.                                                   *)
LEMMA PathsOrdered ==
  ASSUME NEW p \in FilePath, NEW q \in FilePath, Walk!PathLess(p, q), Walk!PathLess(q, p)
  PROVE  FALSE
<1>1. /\ p.dir \in {"Libs", "EarlyMods", "Mods", "Shim"}
      /\ q.dir \in {"Libs", "EarlyMods", "Mods", "Shim"}
      /\ p.name \in Nat /\ q.name \in Nat
  BY Directories DEF FilePath
<1> QED
  BY <1>1 DEF Walk!PathLess, Walk!DirRank

(* The stack of the walk has the paths of the frames.                      *)
WalkStack == [i \in DOMAIN sorting |-> sorting[i].path]

LEMMA WalkStackFacts ==
  ASSUME TypeOK, sorting # <<>>
  PROVE  /\ WalkStack \in Seq(fs.files)
         /\ Len(WalkStack) = Len(sorting)
         /\ WalkStack[Len(WalkStack)] = SortTop.path
         /\ SortTop.path \in fs.files
<1>1. /\ DOMAIN sorting = 1..Len(sorting)
      /\ Len(sorting) \in Nat
      /\ Len(sorting) \in 1..Len(sorting)
      /\ SortTop = sorting[Len(sorting)]
      /\ \A j \in 1..Len(sorting) : sorting[j].path \in fs.files
  BY StackFacts
<1>2. /\ WalkStack \in Seq(fs.files)
      /\ Len(WalkStack) = Len(sorting)
  BY <1>1, IsASeq DEF WalkStack
<1> QED
  BY <1>1, <1>2 DEF WalkStack

(* What is ahead of the walk is what the running loop has left and nothing *)
(* has visited, if no cycle is below the loop's object.                    *)
WalkAhead == DirectDependencies(fs, SortTop.path) \ visited

LEMMA AheadIsLeft ==
  ASSUME IInv, pc = "topologicalSort", Acyclic(fs, SortTop.path)
  PROVE  /\ sorting # <<>>
         /\ Walk!Ahead = WalkAhead
         /\ \A q \in WalkAhead : \E j \in SortTop.left : q = Child(j).path
<1>1. TypeOK /\ SortInv /\ sorting # <<>>
  BY DEF IInv, GetInv, Steps
<1>2. Walk!Ahead = WalkAhead
  <2>1. Walk!Ahead = [p \in fs.files |-> DirectDependencies(fs, p)][WalkStack[Len(WalkStack)]] \ visited
    BY DEF Walk!Ahead, WalkStack
  <2> QED
    BY <1>1, <2>1, WalkStackFacts DEF WalkAhead
<1>3. DirectDependencies(fs, SortTop.path) \subseteq visited \union LeftOf(SortTop)
  BY <1>1, StackFacts DEF SortInv, PassedIsVisited
<1> QED
  BY <1>1, <1>2, <1>3 DEF WalkAhead, LeftOf, Child

(* The next child is the greatest path ahead, unless it was visited.       *)
LEMMA NextIsGreatest ==
  ASSUME IInv, pc = "topologicalSort", Acyclic(fs, SortTop.path),
         NEW i \in SortTop.left, IsNext(i), Child(i).path \notin visited
  PROVE  Walk!Ahead # {} /\ Walk!Greatest(Walk!Ahead) = Child(i).path
<1> DEFINE c == Child(i).path
<1>1. /\ Walk!Ahead = WalkAhead
      /\ \A q \in WalkAhead : \E j \in SortTop.left : q = Child(j).path
  BY AheadIsLeft
<1>2. c \in WalkAhead
  BY ChildFacts DEF WalkAhead
<1>3. \A q \in WalkAhead : q = c \/ Walk!PathLess(q, c)
  BY <1>1 DEF IsNext, PathLess, DirRank, Walk!PathLess, Walk!DirRank
<1>4. WalkAhead \subseteq FilePath
  BY FileFacts DEF IInv, IsFileSystem, WalkAhead, DirectDependencies
<1> HIDE DEF c
<1>5. \A p \in WalkAhead : (\A q \in WalkAhead : q = p \/ Walk!PathLess(q, p)) => p = c
  BY <1>2, <1>3, <1>4, PathsOrdered
<1>6. Walk!Greatest(WalkAhead) = c
  BY <1>2, <1>3, <1>5 DEF Walk!Greatest
<1> QED
  BY <1>1, <1>2, <1>6 DEF c

(* Up to the end of getToLoad nothing is walked.                           *)
LEMMA GetWalks ==
  ASSUME \/ GetToLoad \/ GetNothing \/ SkipFailed \/ AddMissing \/ AddCached \/ AddUnreadable
         \/ Descend \/ Return \/ ReturnAll
  PROVE  Walk!Begin \/ UNCHANGED Walk!vars
<1>1. CASE GetToLoad \/ SkipFailed \/ AddMissing \/ AddCached \/ AddUnreadable \/ Descend \/ Return
  <2>1. /\ pc \in {"loadMod", "getToLoad"} /\ pc' = "getToLoad"
        /\ fs' = fs /\ root' = root
        /\ sorting' = sorting /\ visited' = visited /\ order' = order
    BY <1>1 DEF GetToLoad, SkipFailed, AddMissing, AddCached, AddUnreadable, Descend, Return
  <2> QED
    BY <2>1 DEF Walk!vars
<1>2. CASE GetNothing \/ ReturnAll
  <2>1. PICK count : sorting' = <<SortFrame(root, count)>>
    BY <1>2 DEF GetNothing, ReturnAll, BeginSort
  <2>2. /\ pc \in {"loadMod", "getToLoad"} /\ pc' = "topologicalSort"
        /\ fs' = fs /\ root' = root /\ visited' = visited /\ order' = order
    BY <1>2 DEF GetNothing, ReturnAll, BeginSort
  <2>3. WalkStack' = <<root>>
    <3>1. DOMAIN sorting' = 1..1 /\ sorting'[1].path = root
      BY <2>1 DEF SortFrame
    <3>2. WalkStack' = [i \in 1..1 |-> root]
      BY <3>1 DEF WalkStack
    <3> QED
      BY <3>2
  <2> QED
    BY <2>2, <2>3 DEF Walk!Begin, WalkStack
<1> QED
  BY <1>1, <1>2

(* A step of Resolution is a step of the walk, or none, or one at an       *)
(* object that a cycle is below.                                           *)
LEMMA StepWalks ==
  ASSUME IInv, Next
  PROVE  Walk!Next \/ AboveCycle \/ UNCHANGED Walk!vars
<1>0. TypeOK /\ GetInv /\ SortInv
  BY DEF IInv
<1>1. CASE \/ GetToLoad \/ GetNothing \/ SkipFailed \/ AddMissing \/ AddCached \/ AddUnreadable
           \/ Descend \/ Return \/ ReturnAll
  BY <1>1, GetWalks DEF Walk!Next
<1>3. CASE SkipVisited
  <2>1. PICK i \in SortTop.left : sorting' = Passed(i)
    BY <1>3 DEF SkipVisited
  <2>2. /\ pc = "topologicalSort" /\ pc' = pc /\ fs' = fs /\ root' = root
        /\ visited' = visited /\ order' = order
    BY <1>3 DEF SkipVisited
  <2>3. sorting # <<>>
    BY <1>0, <2>2 DEF GetInv, Steps
  <2>4. WalkStack' = WalkStack
    <3>1. /\ DOMAIN sorting' = DOMAIN sorting
          /\ \A j \in DOMAIN sorting : sorting'[j].path = sorting[j].path
      BY <1>0, <2>1, <2>3, PassedFacts, StackFacts, Zenon
    <3> QED
      BY <3>1 DEF WalkStack
  <2> QED
    BY <2>2, <2>4 DEF Walk!vars, WalkStack
<1>4. ASSUME Visit, Acyclic(fs, SortTop.path) PROVE Walk!Visit
  <2>1. PICK i \in SortTop.left :
          /\ IsNext(i)
          /\ Child(i).path \notin visited
          /\ visited' = visited \union {Child(i).path}
          /\ sorting' = Append(Passed(i), SortFrame(Child(i).path, Child(i).count))
    BY <1>4 DEF Visit
  <2> DEFINE c == Child(i).path
             frame == SortFrame(c, Child(i).count)
             n == Len(sorting)
  <2>2. /\ pc = "topologicalSort" /\ pc' = pc /\ fs' = fs /\ root' = root /\ order' = order
    BY <1>4 DEF Visit
  <2>3. Walk!Ahead # {} /\ Walk!Greatest(Walk!Ahead) = c
    BY <1>4, <2>1, <2>2, NextIsGreatest
  <2>4. sorting # <<>> /\ c \in fs.files
    BY <2>1, <2>2, ChildFacts
  <2>5. /\ WalkStack \in Seq(fs.files)
        /\ Len(WalkStack) = n
        /\ n \in Nat
    BY <1>0, <2>4, WalkStackFacts, StackFacts
  <2>6. WalkStack' = Append(WalkStack, c)
    <3>1. /\ Passed(i) \in Seq([path : fs.files, left : SUBSET Nat])
          /\ Len(Passed(i)) = n
          /\ DOMAIN sorting = 1..n
          /\ \A j \in 1..n : Passed(i)[j].path = sorting[j].path
      BY <1>0, <2>1, <2>4, PassedFacts, StackFacts, Zenon
    <3>2. frame \in [path : fs.files, left : SUBSET Nat] /\ frame.path = c
      <4>1. frame.left \subseteq Nat /\ frame = [path |-> c, left |-> frame.left]
        <5>1. Child(i).count \in Nat
          BY <2>1, <2>2, ChildFacts
        <5> QED
          BY <5>1 DEF SortFrame
      <4> QED
        BY <2>4, <4>1
    <3> HIDE DEF frame, c, n
    <3>3. /\ DOMAIN sorting' = 1..(n + 1)
          /\ \A j \in 1..n : sorting'[j] = Passed(i)[j]
          /\ sorting'[n + 1] = frame
      BY <2>1, <3>1, <3>2, Pushed DEF frame, c
    <3>4. WalkStack' = [j \in 1..(n + 1) |-> IF j = n + 1 THEN c ELSE sorting[j].path]
      <4>1. \A j \in 1..(n + 1) : j # n + 1 => j \in 1..n
        BY <2>5
      <4>2. \A j \in 1..(n + 1) : sorting'[j].path = IF j = n + 1 THEN c ELSE sorting[j].path
        BY <3>1, <3>2, <3>3, <4>1
      <4> QED
        BY <3>3, <4>2 DEF WalkStack
    <3>5. /\ DOMAIN Append(WalkStack, c) = 1..(n + 1)
          /\ \A j \in 1..n : Append(WalkStack, c)[j] = sorting[j].path
          /\ Append(WalkStack, c)[n + 1] = c
      <4>1. /\ DOMAIN Append(WalkStack, c) = 1..(n + 1)
            /\ \A j \in 1..n : Append(WalkStack, c)[j] = WalkStack[j]
            /\ Append(WalkStack, c)[n + 1] = c
        BY <2>4, <2>5, Pushed DEF c
      <4> QED
        BY <3>1, <4>1 DEF WalkStack
    <3>6. Append(WalkStack, c) \in Seq(fs.files)
      BY <2>4, <2>5, Pushed
    <3>7. Append(WalkStack, c) = [j \in 1..(n + 1) |-> Append(WalkStack, c)[j]]
      <4> DEFINE w == Append(WalkStack, c)
      <4>1. w \in Seq(fs.files) /\ DOMAIN w = 1..(n + 1)
        BY <3>5, <3>6
      <4> HIDE DEF w
      <4>2. w = [j \in 1..(n + 1) |-> w[j]]
        BY <4>1
      <4> QED
        BY <4>2 DEF w
    <3>8. \A j \in 1..(n + 1) :
            Append(WalkStack, c)[j] = IF j = n + 1 THEN c ELSE sorting[j].path
      BY <2>5, <3>5
    <3> QED
      BY <3>4, <3>7, <3>8
  <2>7. visited' = visited \union {c}
    BY <2>1
  <2> HIDE DEF c
  <2> QED
    BY <2>2, <2>3, <2>6, <2>7 DEF Walk!Visit, WalkStack
<1>5. ASSUME Emplace \/ Sorted, Acyclic(fs, SortTop.path)
      PROVE  /\ Walk!Ahead = {}
             /\ sorting # <<>>
             /\ Len(WalkStack) = Len(sorting)
             /\ WalkStack[Len(WalkStack)] = SortTop.path
  <2>1. pc = "topologicalSort" /\ SortTop.left = {}
    BY <1>5 DEF Emplace, Sorted
  <2> QED
    BY <1>0, <1>5, <2>1, AheadIsLeft, WalkStackFacts
<1>6. ASSUME Emplace, Acyclic(fs, SortTop.path) PROVE Walk!Leave
  <2> DEFINE n == Len(sorting)
  <2>1. /\ pc = "topologicalSort" /\ pc' = pc /\ fs' = fs /\ root' = root /\ visited' = visited
        /\ n > 1
        /\ order' = Append(order, SortTop.path)
        /\ sorting' = Front(sorting)
    BY <1>6 DEF Emplace
  <2>2. /\ DOMAIN sorting' = 1..(n - 1)
        /\ \A j \in 1..(n - 1) : sorting'[j] = sorting[j]
        /\ n \in Nat
    BY <1>0, <1>5, <1>6, <2>1, Popped DEF TypeOK
  <2>3. WalkStack \in Seq(fs.files) /\ WalkStack # <<>> /\ Len(WalkStack) = n
    <3>1. WalkStack \in Seq(fs.files) /\ Len(WalkStack) = n
      BY <1>0, <1>5, <1>6, WalkStackFacts
    <3> QED
      BY <2>1, <3>1
  <2> HIDE DEF n
  <2>4. /\ Front(WalkStack) \in Seq(fs.files)
        /\ DOMAIN Front(WalkStack) = 1..(n - 1)
        /\ \A j \in 1..(n - 1) : Front(WalkStack)[j] = WalkStack[j]
        /\ DOMAIN WalkStack = 1..n
    BY <2>3, Popped
  <2>5. DOMAIN sorting = 1..n
    BY <1>0, <1>5, <1>6, StackFacts DEF n
  <2>6. \A j \in 1..(n - 1) : j \in 1..n
    BY <2>2
  <2>7. \A j \in 1..(n - 1) : Front(WalkStack)[j] = sorting'[j].path
    BY <2>2, <2>4, <2>5, <2>6 DEF WalkStack
  <2>8. Front(WalkStack) = [j \in 1..(n - 1) |-> Front(WalkStack)[j]]
    BY <2>4
  <2>9. WalkStack' = Front(WalkStack)
    BY <2>2, <2>7, <2>8 DEF WalkStack
  <2> QED
    BY <1>5, <1>6, <2>1, <2>3, <2>9 DEF Walk!Leave, WalkStack, Walk!Front, Front, n
<1>7. ASSUME Sorted, Acyclic(fs, SortTop.path) PROVE Walk!Finish
  <2>1. /\ pc = "topologicalSort" /\ pc' = "sorted" /\ fs' = fs /\ root' = root
        /\ visited' = visited /\ order' = order
        /\ Len(sorting) = 1
        /\ sorting' = <<>>
    BY <1>7 DEF Sorted
  <2>2. WalkStack' = <<>>
    <3>1. DOMAIN sorting' = {}
      BY <2>1
    <3> QED
      BY <3>1 DEF WalkStack
  <2> QED
    BY <1>5, <1>7, <2>1, <2>2 DEF Walk!Finish, WalkStack
<1> QED
  <2>1. Visit \/ Emplace \/ Sorted => pc = "topologicalSort"
    BY DEF Visit, Emplace, Sorted
  <2> QED
    BY <1>1, <1>3, <1>4, <1>6, <1>7, <2>1 DEF Next, Walk!Next, AboveCycle

(* The walk waits when loadMod is called.                                  *)
LEMMA InitWalks == Init => Walk!Init
<1> SUFFICES ASSUME Init PROVE Walk!Init
  OBVIOUS
<1>1. root \in fs.files /\ sorting = <<>> /\ visited = {} /\ order = <<>> /\ pc = "loadMod"
  BY DEF Init
<1>2. \A p \in fs.files : DirectDependencies(fs, p) \subseteq fs.files
  BY DEF DirectDependencies
<1>3. WalkStack = <<>>
  <2>1. DOMAIN sorting = {}
    BY <1>1
  <2> QED
    BY <2>1 DEF WalkStack
<1> QED
  BY <1>1, <1>2, <1>3 DEF Walk!Init, WalkStack

-----------------------------------------------------------------------------
(* The theorems.                                                           *)

(* The invariant holds when loadMod is called.                             *)
LEMMA InitIInv == Init => IInv
<1> SUFFICES ASSUME Init PROVE IInv
  OBVIOUS
<1>1. /\ DOMAIN cache = {}
      /\ calls = <<>> /\ sorting = <<>> /\ visited = {} /\ order = <<>> /\ pc = "loadMod"
      /\ DOMAIN calls = {} /\ DOMAIN sorting = {} /\ DOMAIN order = {}
  BY DEF Init
<1>2. TypeOK
  <2>1. IsFileSystem(fs) /\ root \in fs.files
    BY FileSystemsAssumption DEF Init
  <2>2. cache \in [DOMAIN cache -> Seq(DependencyResult(fs))]
    BY DEF Init
  <2> QED
    BY <1>1, <2>1, <2>2, EmptySeq DEF TypeOK
<1>3. GetInv
  BY <1>1 DEF GetInv, Steps, CallsHaveLists, CallsAreNested, ListsSoFar, CopiesAreCopies,
              CopiesAreWholeAlways, CachedIsBelow
<1>4. SortInv
  <2>1. Entered = {} /\ Range(order) = {} /\ WithoutRepeats(order)
    BY <1>1 DEF Entered, Range, WithoutRepeats, IsInjective
  <2> QED
    BY <1>1, <2>1 DEF SortInv, FramesHaveLists, FramesAreNested, VisitedIsEntered, VisitedIsBelow,
                      ShimVisited, PassedIsVisited, OrderIsClosed
<1> QED
  BY <1>2, <1>3, <1>4 DEF IInv

(* Every step keeps it.                                                    *)
LEMMA NextIInv == IInv /\ [Next]_vars => IInv'
<1> SUFFICES ASSUME IInv, [Next]_vars PROVE IInv'
  OBVIOUS
<1>1. CASE \/ GetToLoad \/ SkipFailed \/ AddMissing \/ AddCached \/ AddUnreadable
           \/ Descend \/ Return
  BY <1>1, GetSteps
<1>2. CASE GetNothing \/ ReturnAll
  BY <1>2, SortBegins
<1>3. CASE SkipVisited
  BY <1>3, SkipVisitedInv
<1>4. CASE Visit
  BY <1>4, VisitInv
<1>5. CASE Emplace
  BY <1>5, EmplaceInv
<1>6. CASE Sorted
  BY <1>6, SortedInv
<1>7. CASE UNCHANGED vars
  <2>1. /\ fs' = fs /\ root' = root /\ cache' = cache /\ calls' = calls
        /\ sorting' = sorting /\ visited' = visited /\ order' = order /\ pc' = pc
    BY <1>7 DEF vars
  <2>2. TypeOK' /\ GetInv'
    <3>1. Steps'
      BY <2>1 DEF IInv, GetInv, Steps
    <3> QED
      BY <2>1, <3>1, ListsKept DEF IInv, TypeOK
  <2>3. Entered' = Entered
    BY <2>1 DEF Entered
  <2>4. /\ FramesHaveLists' /\ FramesAreNested' /\ VisitedIsEntered' /\ VisitedIsBelow'
        /\ ShimVisited'
    BY <2>1, <2>3 DEF IInv, SortInv, FramesHaveLists, FramesAreNested, VisitedIsEntered,
                      VisitedIsBelow, ShimVisited
  <2>5. PassedIsVisited' /\ OrderIsClosed'
    BY <2>1 DEF IInv, SortInv, PassedIsVisited, LeftOf, OrderIsClosed
  <2> QED
    BY <2>2, <2>4, <2>5 DEF IInv, SortInv
<1> QED
  BY <1>1, <1>2, <1>3, <1>4, <1>5, <1>6, <1>7 DEF Next

(* Type correctness: the lists of getToLoad, and both of its stacks.       *)
THEOREM Resolves == Spec => []TypeOK
<1>1. IInv => TypeOK
  BY DEF IInv
<1> QED
  BY InitIInv, NextIInv, <1>1, PTL DEF Spec

(* In the cache that getToLoad shares between all requesters each list has *)
(* exactly what a search from the phase of its object finds, and no copy   *)
(* was taken of a list still being filled but below an object on a cycle   *)
(* or above one.                                                           *)
THEOREM WholeCopies == Spec => []CopiesAreWhole
<1>1. IInv => CopiesAreWhole
  <2> SUFFICES ASSUME IInv, pc = "sorted", NEW obj \in DOMAIN cache, NEW i \in DOMAIN cache[obj],
                      cache[obj][i].path \in fs.readable
               PROVE  /\ cache[obj][i].path \in DOMAIN cache
                      /\ FoundIn(fs, cache[cache[obj][i].path])
                           = DirectDependencies(fs, cache[obj][i].path)
                      /\ Acyclic(fs, cache[obj][i].path) =>
                           cache[obj][i].count = Len(cache[cache[obj][i].path])
    BY DEF CopiesAreWhole
  <2>1. cache[obj][i].path \in DOMAIN cache
    BY FileFacts DEF IInv, GetInv, CopiesAreCopies, IsCopy
  <2> QED
    BY <2>1, ListsComplete
<1> QED
  BY InitIInv, NextIInv, <1>1, PTL DEF Spec

(* When topologicalSort is done nothing it entered is left on its stack.   *)
LEMMA VisitedIsOrder == IInv /\ pc = "sorted" => visited = Range(order)
<1> SUFFICES ASSUME IInv, pc = "sorted" PROVE visited = Range(order)
  OBVIOUS
<1>1. sorting = <<>> /\ VisitedIsEntered
  BY DEF IInv, GetInv, Steps, SortInv
<1>2. Entered = {}
  BY <1>1 DEF Entered
<1> QED
  BY <1>1, <1>2 DEF VisitedIsEntered

(* The order has nothing twice and nothing that is not needed.             *)
LEMMA OrderOnce == IInv => SortedWithoutRepeats
BY VisitedIsOrder DEF IInv, SortInv, FramesAreNested, VisitedIsBelow, SortedWithoutRepeats

(* It has what root needs, and dependencies first; it is closed without a  *)
(* cycle, and so has everything below root.                                *)
LEMMA OrderClosed == IInv => SortedIsClosedOrder
<1> SUFFICES ASSUME IInv, pc = "sorted"
             PROVE  /\ DirectDependencies(fs, root) \subseteq Range(order)
                    /\ OrderIsClosed
                    /\ Acyclic(fs, root) =>
                         Range(order) = Reachable(fs, root) /\ root \notin Range(order)
  BY DEF SortedIsClosedOrder, OrderIsClosed
<1>1. /\ root \in fs.files
      /\ order \in Seq(fs.files)
      /\ DOMAIN order = 1..Len(order)
      /\ Len(order) \in Nat
      /\ \A i \in DOMAIN order : order[i] \in fs.files
  BY LenProperties, ElementOfSeq DEF IInv, TypeOK
<1>2. /\ DirectDependencies(fs, root) \subseteq Range(order)
      /\ Range(order) \subseteq Reachable(fs, root)
      /\ OrderIsClosed
  BY VisitedIsOrder DEF IInv, SortInv, PassedIsVisited, VisitedIsBelow
<1>3. ASSUME Acyclic(fs, root)
      PROVE  Range(order) = Reachable(fs, root) /\ root \notin Range(order)
  <2>1. Range(order) \in SUBSET fs.files
    BY <1>1 DEF Range
  <2>2. ASSUME NEW i \in DOMAIN order
        PROVE  DirectDependencies(fs, order[i]) \subseteq Range(order)
    <3>1. Acyclic(fs, order[i])
      BY <1>2, <1>3, AcyclicBelow DEF Range
    <3>2. \A j \in 1..(i - 1) : j \in DOMAIN order
      BY <1>1
    <3>3. Before(order, i) \subseteq Range(order)
      BY <3>2 DEF Before, Range
    <3> QED
      BY <1>2, <3>1, <3>3 DEF OrderIsClosed
  <2>3. IsClosed(fs, Range(order))
    BY <2>2 DEF IsClosed, Range
  <2> QED
    BY <1>1, <1>2, <1>3, <2>1, <2>3, ReachableFacts, NotBelowItself
<1> QED
  BY <1>2, <1>3

(* topologicalSort opens nothing twice and nothing that is not needed,     *)
(* although it flattens a tree with repeated subtrees, and on cycles too.  *)
THEOREM SortedOnce == Spec => []SortedWithoutRepeats
BY InitIInv, NextIInv, OrderOnce, PTL DEF Spec

(* What root needs is opened, and each object after what it needs unless a *)
(* cycle is below that object; without a cycle below root everything below *)
(* it is opened: the promise that the loader's order of dlopens rests on.  *)
THEOREM SortedClosed == Spec => []SortedIsClosedOrder
BY InitIInv, NextIInv, OrderClosed, PTL DEF Spec

(* Only a shim brings in an object of a later phase.                       *)
THEOREM LaterThroughShim == Spec => []LaterPhaseOnlyThroughShim
<1>1. IInv => LaterPhaseOnlyThroughShim
  BY VisitedIsOrder DEF IInv, SortInv, ShimVisited, LaterPhaseOnlyThroughShim
<1> QED
  BY InitIInv, NextIInv, <1>1, PTL DEF Spec

(* Where no cycle is below topologicalSort is DepthFirst's walk: the order *)
(* of loadMod's dlopens is settled by the graph of needs and the paths.    *)
THEOREM DepthFirstOrder == Spec => ImplementsDepthFirst
<1>1. IInv /\ [Next]_vars => [Walk!Next \/ AboveCycle]_(Walk!vars)
  <2>1. vars' = vars => UNCHANGED Walk!vars
    BY DEF vars, Walk!vars
  <2> QED
    BY <2>1, StepWalks
<1> QED
  BY InitIInv, InitWalks, NextIInv, <1>1, PTL DEF Spec, ImplementsDepthFirst

(* Without a cycle below root every step is one of the walk: the walk of   *)
(* the graph from root is all that topologicalSort does.                   *)
THEOREM DepthFirstFromRoot == Spec /\ Acyclic(fs, root) => Walk!Spec
<1> DEFINE J == Acyclic(fs, root)
<1>1. J /\ [Next]_vars => J'
  <2> SUFFICES ASSUME J, [Next]_vars PROVE J'
    OBVIOUS
  <2>1. fs' = fs /\ root' = root
    BY DEF Next, vars, GetToLoad, GetNothing, SkipFailed, AddMissing, AddCached, AddUnreadable,
           Descend, Return, ReturnAll, SkipVisited, Visit, Emplace, Sorted
  <2> QED
    BY <2>1
<1>2. IInv /\ J /\ [Next]_vars => [Walk!Next]_(Walk!vars)
  <2> SUFFICES ASSUME IInv, J, [Next]_vars PROVE [Walk!Next]_(Walk!vars)
    OBVIOUS
  <2>1. CASE UNCHANGED vars
    BY <2>1 DEF vars, Walk!vars
  <2>2. CASE Next
    <3>1. ASSUME pc = "topologicalSort" PROVE Acyclic(fs, SortTop.path)
      <4>1. SortTop.path \in visited \union {root}
        BY <3>1, TopIsBelow DEF IInv, GetInv, Steps
      <4> QED
        BY <4>1, AcyclicBelow DEF IInv, SortInv, VisitedIsBelow
    <3> QED
      BY <2>2, <3>1, StepWalks DEF AboveCycle
  <2> QED
    BY <2>1, <2>2
<1> HIDE DEF J
<1>3. Spec /\ J => Walk!Spec
  BY InitIInv, InitWalks, NextIInv, <1>1, <1>2, PTL DEF Spec, Walk!Spec
<1> QED
  BY <1>3 DEF J
=============================================================================
