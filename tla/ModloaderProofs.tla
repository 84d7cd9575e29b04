-------------------------- MODULE ModloaderProofs --------------------------
(***************************************************************************)
(* Theorems about Modloader, for any objects, candidates, dependencies,    *)
(* exports, infos, requests and bounds, as long as no callback unloads a   *)
(* mod (a run shows what happens otherwise).  The mods may need each other, *)
(* and require each other from every callback, at any depth.               *)
(*                                                                         *)
(* What makes the lists truthful is a fact about the stack: no list is     *)
(* replaced, cleared or made shorter while a frame refers to a place in it.*)
(* So every frame keeps pointing at the object it was made for.            *)
(***************************************************************************)
EXTENDS Modloader, SequenceTheorems, TLAPS

CallbacksDoNotUnload == \A fn \in Callback : <<fn, "force_unload">> \notin Reentrant

-----------------------------------------------------------------------------
(* The shape of the stack.                                                 *)

(* Frames of functions that only the host and the game cause to be called. *)
Base(f) == f.at \in {"open", "for", "orig", "setup_unity_hook", "clear"}

(* A frame that does not refer to anything yet.                            *)
Fresh(f) ==
  /\ f.at \notin {"call", "require", "close"}
  /\ f.at = "open" => ~f.begun /\ ~f.loading
  /\ f.at = "for" => f.pos = 0

(* Below a frame of the base there are fresh ones only: two loops are never *)
(* under way at the same time.                                             *)
BaseAboveFresh ==
  \A i, j \in 1..Len(stack) : Base(stack[i]) /\ i < j => Fresh(stack[j])

(* A callback has a caller; the caller of a constructor is loadMods, which  *)
(* is at the object it opens.                                              *)
CallsHaveCallers ==
  \A i \in 1..Len(stack) : stack[i].at = "call" =>
    /\ i + 1 \in 1..Len(stack)
    /\ stack[i].fn = "ctor" <=> stack[i + 1].at = "open"
    /\ stack[i].fn = "ctor" =>
         /\ stack[i + 1].begun
         /\ stack[i + 1].loading
         /\ stack[i].mod = Opening(stack[i + 1])
         /\ stack[i + 1].deps # <<>> => stack[i].mod \notin skip_load

(* force_unload is called between the host's calls only.                   *)
TornDown == unloaded

ErasesAlone ==
  \A i \in 1..Len(stack) :
    stack[i].at = "close" =>
      /\ stack[i].by = "force_unload" => i = Len(stack)
      /\ stack[i].by = "close_all" => TornDown

Shape == BaseAboveFresh /\ CallsHaveCallers /\ ErasesAlone

-----------------------------------------------------------------------------
(* What the frames refer to.                                               *)

(* There is an object at the place.                                        *)
Holds(list, pos) == pos \in 1..Len(loaded[list]) /\ loaded[list][pos].ok

InPlace(f) ==
  /\ f.at = "for" =>
       /\ f.pos = 0 \/ f.end <= Len(loaded[f.list])
       /\ f.fn = "close" => TornDown
  /\ f.at \in {"require", "close"} => Holds(f.list, f.pos)
  /\ f.at = "call" /\ f.fn # "ctor" => Holds(f.list, f.pos)
  /\ f.at = "require" \/ (f.at = "call" /\ f.fn # "ctor") => loaded[f.list][f.pos].mod = f.mod

(* Nothing but its constructors was called of an object.                   *)
JustOpened(result) ==
  result.ok =>
    /\ result = LoadedMod(result.mod, result.as)
    /\ returned[result.mod] = {"ctor"}
    /\ Handle(result) \in handles

(* Two LoadResults of one object: it needs itself, and the roles differ.    *)
Twice(r1, r2) == r1.mod \in NeedsItself /\ r1.as # r2.as

Unlisted(m) ==
  \A list \in OpenedPhases : \A j \in 1..Len(loaded[list]) : loaded[list][j].mod # m

(* The candidate that loadMod is at: all that can have happened to it is    *)
(* that it was opened as a dependency of its own.                          *)
LoadsNew(f) ==
  LET m == Head(f.mods) IN
  /\ f.mods # <<>>
  /\ \A i \in 1..Len(f.deps) : f.deps[i] \in Range(Sorted[m])
  /\ Unlisted(m)
  /\ returned[m] \subseteq {"ctor"}
  /\ "ctor" \in returned[m] => IsOpen(m)
  /\ \A i \in 1..Len(f.results) :
       f.results[i].mod = m => m \in NeedsItself /\ f.results[i].as = "dependency"

(* What a loadMods has so far: objects of no list, each of them once, but    *)
(* for those that need themselves.                                         *)
ResultsNew(f) ==
  f.at = "open" =>
    /\ ~f.begun => f.results = <<>>
    /\ f.loading => f.begun /\ LoadsNew(f)
    /\ \A i, j \in 1..Len(f.results) :
         f.results[i].mod = f.results[j].mod => i = j \/ Twice(f.results[i], f.results[j])
    /\ \A i \in 1..Len(f.results) :
         /\ f.results[i].mod \in skip_load
         /\ JustOpened(f.results[i])
         /\ Unlisted(f.results[i].mod)

Frames == \A i \in 1..Len(stack) : InPlace(stack[i]) /\ ResultsNew(stack[i])

-----------------------------------------------------------------------------
(* The lists.                                                              *)

(* An object is listed once, or twice in one list if it needs itself.       *)
ListedOnce ==
  \A l1, l2 \in OpenedPhases : \A i \in 1..Len(loaded[l1]) : \A j \in 1..Len(loaded[l2]) :
    loaded[l1][i].mod = loaded[l2][j].mod =>
      l1 = l2 /\ (i = j \/ Twice(loaded[l1][i], loaded[l2][j]))

(* What is listed was opened, and is held before the teardown.               *)
ListedOpened ==
  \A list \in OpenedPhases : \A i \in 1..Len(loaded[list]) :
    LET result == loaded[list][i] IN
    /\ result.mod \in skip_load
    /\ result.ok => "ctor" \in returned[result.mod]
    /\ result.ok /\ ~TornDown => Handle(result) \in handles

(* Nothing has happened to an object that loadMods did not come to.        *)
Unknown == \A m \in Mod \ skip_load : returned[m] = {}

Lists == ListedOnce /\ ListedOpened /\ FlagsTruthful /\ Unknown

IInv ==
  /\ TypeOK
  /\ Shape
  /\ Frames
  /\ Lists
  /\ ~undefined
-----------------------------------------------------------------------------
(* The four things that happen to the stack.                               *)

LEMMA Pushed ==
  ASSUME NEW S, NEW s \in Seq(S), NEW f \in S
  PROVE  /\ <<f>> \o s \in Seq(S)
         /\ Len(<<f>> \o s) = Len(s) + 1
         /\ (<<f>> \o s)[1] = f
         /\ \A i \in 2..(Len(s) + 1) : (<<f>> \o s)[i] = s[i - 1]
OBVIOUS

LEMMA Popped ==
  ASSUME NEW S, NEW s \in Seq(S), s # <<>>
  PROVE  /\ Tail(s) \in Seq(S)
         /\ Len(Tail(s)) = Len(s) - 1
         /\ \A i \in 1..(Len(s) - 1) : Tail(s)[i] = s[i + 1]
OBVIOUS

LEMMA Replaced ==
  ASSUME NEW S, NEW s \in Seq(S), s # <<>>, NEW f \in S
  PROVE  /\ <<f>> \o Tail(s) \in Seq(S)
         /\ Len(<<f>> \o Tail(s)) = Len(s)
         /\ (<<f>> \o Tail(s))[1] = f
         /\ \A i \in 2..Len(s) : (<<f>> \o Tail(s))[i] = s[i]
OBVIOUS

LEMMA CalledFrom ==
  ASSUME NEW S, NEW s \in Seq(S), s # <<>>, NEW f \in S, NEW g \in S
  PROVE  /\ <<g, f>> \o Tail(s) \in Seq(S)
         /\ Len(<<g, f>> \o Tail(s)) = Len(s) + 1
         /\ (<<g, f>> \o Tail(s))[1] = g
         /\ (<<g, f>> \o Tail(s))[2] = f
         /\ \A i \in 3..(Len(s) + 1) : (<<g, f>> \o Tail(s))[i] = s[i - 1]
OBVIOUS

-----------------------------------------------------------------------------
(* The frames of each kind, and what the actions make of them.             *)

LEMMA FrameKinds ==
  ASSUME NEW f \in FrameType
  PROVE  /\ f.at = "open" => f \in OpenFrameType
         /\ f.at = "for" => f \in ForFrameType
         /\ f.at = "call" => f \in CallFrameType
         /\ f.at = "require" => f \in RequireFrameType
         /\ f.at = "close" => f \in CloseFrameType
BY DEF FrameType, OpenFrameType, ForFrameType, CallFrameType, RequireFrameType, CloseFrameType,
       PlainFrameType

LEMMA OpenFrames ==
  ASSUME NEW f \in OpenFrameType
  PROVE  /\ f.list \in OpenedPhases /\ f.begun \in BOOLEAN /\ f.loading \in BOOLEAN
         /\ f.mods \in Seq(Mod) /\ f.deps \in Seq(Mod) /\ f.results \in Seq(LoadResult)
         /\ LET g == [f EXCEPT !.begun = TRUE] IN
              /\ g \in OpenFrameType /\ g.at = "open" /\ g.begun /\ g.results = f.results
              /\ g.loading = f.loading
BY DEF OpenFrameType

LEMMA OpenFramesNext ==
  ASSUME NEW f \in OpenFrameType
  PROVE  /\ f.mods # <<>> =>
              LET g == [f EXCEPT !.mods = Tail(@)] IN
              /\ g \in OpenFrameType /\ g.at = "open" /\ g.begun = f.begun
              /\ g.results = f.results /\ g.loading = f.loading
         /\ \A deps \in Seq(Mod) :
              LET g == [f EXCEPT !.loading = TRUE, !.deps = deps] IN
              /\ g \in OpenFrameType /\ g.at = "open" /\ g.begun = f.begun
              /\ g.results = f.results /\ g.loading /\ g.mods = f.mods /\ g.deps = deps
         /\ f.deps # <<>> =>
              LET g == [f EXCEPT !.deps = Tail(@)] IN
              /\ g \in OpenFrameType /\ g.at = "open" /\ g.begun = f.begun
              /\ g.results = f.results /\ g.loading = f.loading /\ g.mods = f.mods
              /\ g.deps = Tail(f.deps)
<1>1. f.mods # <<>> => Tail(f.mods) \in Seq(Mod)
  BY DEF OpenFrameType
<1>2. f.deps # <<>> => Tail(f.deps) \in Seq(Mod)
  BY DEF OpenFrameType
<1> QED
  BY <1>1, <1>2 DEF OpenFrameType

LEMMA OpenFramesResult ==
  ASSUME NEW f \in OpenFrameType, f.mods # <<>>, NEW r \in LoadResult
  PROVE  LET g == Recorded(f, r) IN
           /\ g \in OpenFrameType /\ g.at = "open" /\ g.begun = f.begun /\ g.list = f.list
           /\ g.results = Append(f.results, r)
           /\ f.deps = <<>> => ~g.loading /\ g.mods = Tail(f.mods) /\ g.deps = <<>>
           /\ f.deps # <<>> => g.loading = f.loading /\ g.mods = f.mods /\ g.deps = Tail(f.deps)
<1>1. Tail(f.mods) \in Seq(Mod) /\ Append(f.results, r) \in Seq(LoadResult)
  BY DEF OpenFrameType
<1>2. f.deps # <<>> => Tail(f.deps) \in Seq(Mod)
  BY DEF OpenFrameType
<1>3. CASE f.deps = <<>>
  BY <1>1, <1>3 DEF OpenFrameType, Recorded
<1>4. CASE f.deps # <<>>
  BY <1>1, <1>2, <1>4 DEF OpenFrameType, Recorded
<1> QED
  BY <1>3, <1>4

LEMMA ForFrames ==
  ASSUME NEW f \in ForFrameType
  PROVE  f.list \in OpenedPhases /\ f.fn \in Flags \union {"close"} /\ f.pos \in Nat /\ f.end \in Nat
BY DEF ForFrameType

LEMMA ForFramesBegin ==
  ASSUME NEW f \in ForFrameType, NEW k \in Nat, NEW n \in Nat
  PROVE  LET g == [f EXCEPT !.pos = k, !.end = n] IN
           /\ g \in ForFrameType /\ g.at = "for" /\ g.list = f.list /\ g.fn = f.fn
           /\ g.pos = k /\ g.end = n
BY DEF ForFrameType

LEMMA ForFramesNext ==
  ASSUME NEW f \in ForFrameType
  PROVE  LET g == [f EXCEPT !.pos = @ + 1] IN
           /\ g \in ForFrameType /\ g.at = "for" /\ g.list = f.list /\ g.fn = f.fn
           /\ g.pos = f.pos + 1 /\ g.end = f.end
<1>1. f.pos \in Nat /\ f.pos + 1 \in Nat
  BY DEF ForFrameType
<1> QED
  BY <1>1 DEF ForFrameType

LEMMA RequireFrames ==
  ASSUME NEW f \in RequireFrameType
  PROVE  /\ f.list \in OpenedPhases /\ f.pos \in Nat /\ f.mod \in Mod /\ f.todo \in Seq(Flags)
         /\ f.todo # <<>> =>
              LET g == [f EXCEPT !.todo = Tail(@)] IN
                /\ g \in RequireFrameType /\ g.at = "require" /\ g.list = f.list
                /\ g.pos = f.pos /\ g.mod = f.mod
<1>1. f.todo # <<>> => Tail(f.todo) \in Seq(Flags)
  BY DEF RequireFrameType
<1> QED
  BY <1>1 DEF RequireFrameType

LEMMA CloseFrames ==
  ASSUME NEW f \in CloseFrameType
  PROVE  /\ f.list \in OpenedPhases /\ f.pos \in Nat /\ f.called \in BOOLEAN
         /\ LET g == [f EXCEPT !.called = TRUE] IN
              /\ g \in CloseFrameType /\ g.at = "close" /\ g.list = f.list
              /\ g.pos = f.pos /\ g.by = f.by
BY DEF CloseFrameType

LEMMA CallFrames ==
  ASSUME NEW f \in CallFrameType
  PROVE  f.fn \in Callback /\ f.mod \in Mod /\ f.list \in OpenedPhases /\ f.pos \in Nat
BY DEF CallFrameType

(* The frames that the actions make.                                       *)
LEMMA OpenFramesMade ==
  ASSUME NEW list \in OpenedPhases
  PROVE  OpenFrame(list) \in FrameType
<1>1. Candidates[list] \in Seq(Mod) /\ <<>> \in Seq(Mod) /\ <<>> \in Seq(LoadResult)
  BY ModAssumption
<1> QED
  BY <1>1 DEF OpenFrame, OpenFrameType, FrameType

LEMMA ForFramesMade ==
  ASSUME NEW list \in OpenedPhases, NEW fn \in Flags \union {"close"}
  PROVE  ForFrame(list, fn) \in FrameType
BY DEF ForFrame, ForFrameType, FrameType

LEMMA CallFramesMade ==
  ASSUME NEW fn \in Callback, NEW m \in Mod, NEW list \in OpenedPhases, NEW pos \in Nat
  PROVE  CallFrame(fn, m, list, pos) \in FrameType
BY DEF CallFrame, CallFrameType, FrameType

LEMMA RequireFramesMade ==
  ASSUME NEW list \in OpenedPhases, NEW pos \in Nat, NEW m \in Mod
  PROVE  RequireFrame(list, pos, m) \in FrameType
<1>1. <<"setup", "load", "late_load">> \in Seq(Flags) /\ <<"setup", "late_load">> \in Seq(Flags)
  BY DEF Flags
<1> QED
  BY <1>1 DEF RequireFrame, RequireFrameType, FrameType

LEMMA CloseFramesMade ==
  ASSUME NEW list \in OpenedPhases, NEW pos \in Nat, NEW by \in {"force_unload", "close_all"}
  PROVE  CloseFrame(list, pos, by) \in FrameType
BY DEF CloseFrame, CloseFrameType, FrameType

LEMMA PlainFramesMade ==
  OrigFrame \in FrameType /\ SetupUnityFrame \in FrameType /\ ClearFrame \in FrameType
BY DEF OrigFrame, SetupUnityFrame, ClearFrame, PlainFrameType, FrameType

-----------------------------------------------------------------------------
(* The shape of the stack is kept.                                         *)

(* Nothing but fresh frames: what the entry points and hooks leave.        *)
LEMMA ShapeFresh ==
  ASSUME \A i \in 1..Len(stack') : Fresh(stack'[i])
  PROVE  Shape'
BY DEF Shape, BaseAboveFresh, CallsHaveCallers, ErasesAlone, Fresh

LEMMA ShapePop ==
  ASSUME stack \in Seq(FrameType), Shape, stack # <<>>, stack' = Tail(stack),
         skip_load' = skip_load, TornDown => TornDown'
  PROVE  Shape'
<1>1. /\ Len(stack) \in Nat /\ Len(stack') = Len(stack) - 1
      /\ \A i \in 1..(Len(stack) - 1) : stack'[i] = stack[i + 1]
  BY Popped
<1>2. BaseAboveFresh'
  <2> SUFFICES ASSUME NEW i \in 1..(Len(stack) - 1), NEW j \in 1..(Len(stack) - 1),
                      Base(stack'[i]), i < j
               PROVE  Fresh(stack'[j])
    BY <1>1 DEF BaseAboveFresh, Base, Fresh
  <2> QED
    BY <1>1 DEF Shape, BaseAboveFresh
<1>3. CallsHaveCallers'
  <2> SUFFICES ASSUME NEW i \in 1..(Len(stack) - 1), stack'[i].at = "call"
               PROVE  /\ i + 1 \in 1..(Len(stack) - 1)
                      /\ stack'[i].fn = "ctor" <=> stack'[i + 1].at = "open"
                      /\ stack'[i].fn = "ctor" =>
                           /\ stack'[i + 1].begun
                           /\ stack'[i + 1].loading
                           /\ stack'[i].mod = Opening(stack'[i + 1])
                           /\ stack'[i + 1].deps # <<>> => stack'[i].mod \notin skip_load
    BY <1>1 DEF CallsHaveCallers
  <2>1. i + 1 \in 1..Len(stack) /\ stack'[i] = stack[i + 1]
    BY <1>1
  <2>2. (i + 1) + 1 \in 1..Len(stack)
    BY <2>1 DEF Shape, CallsHaveCallers
  <2>3. i + 1 \in 1..(Len(stack) - 1) /\ stack'[i + 1] = stack[(i + 1) + 1]
    BY <1>1, <2>2
  <2> QED
    BY <2>1, <2>2, <2>3 DEF Shape, CallsHaveCallers
<1>4. ErasesAlone'
  <2> SUFFICES ASSUME NEW i \in 1..(Len(stack) - 1), stack'[i].at = "close"
               PROVE  /\ stack'[i].by = "force_unload" => i = Len(stack) - 1
                      /\ stack'[i].by = "close_all" => TornDown
    BY <1>1 DEF ErasesAlone
  <2>1. i + 1 \in 1..Len(stack) /\ stack'[i] = stack[i + 1]
    BY <1>1
  <2>2. /\ stack[i + 1].by = "force_unload" => i + 1 = Len(stack)
        /\ stack[i + 1].by = "close_all" => TornDown
    BY <2>1 DEF Shape, ErasesAlone
  <2>3. i + 1 = Len(stack) => i = Len(stack) - 1
    <3>1. Len(stack) \in Nat
      BY <1>1
    <3> QED
      BY <3>1
  <2> QED
    BY <2>1, <2>2, <2>3
<1> QED
  BY <1>2, <1>3, <1>4 DEF Shape

(* The frame on top goes on.                                               *)
LEMMA ShapeAdvance ==
  ASSUME stack \in Seq(FrameType), Shape, stack # <<>>, NEW f \in FrameType,
         stack' = <<f>> \o Tail(stack), skip_load' = skip_load, TornDown => TornDown',
         f.at = Top.at, f.at # "call", f.at = "close" => f.by = Top.by
  PROVE  Shape'
<1>1. /\ Len(stack) \in Nat /\ Len(stack') = Len(stack) /\ stack'[1] = f /\ Top = stack[1]
      /\ \A i \in 2..Len(stack) : stack'[i] = stack[i]
  BY Replaced DEF Top
<1>2. BaseAboveFresh'
  <2> SUFFICES ASSUME NEW i \in 1..Len(stack), NEW j \in 1..Len(stack),
                      Base(stack'[i]), i < j
               PROVE  Fresh(stack'[j])
    BY <1>1 DEF BaseAboveFresh, Base, Fresh
  <2>1. Base(stack[i]) /\ stack'[j] = stack[j]
    BY <1>1 DEF Base
  <2> QED
    BY <2>1 DEF Shape, BaseAboveFresh
<1>3. CallsHaveCallers'
  <2> SUFFICES ASSUME NEW i \in 1..Len(stack), stack'[i].at = "call"
               PROVE  /\ i + 1 \in 1..Len(stack)
                      /\ stack'[i].fn = "ctor" <=> stack'[i + 1].at = "open"
                      /\ stack'[i].fn = "ctor" =>
                           /\ stack'[i + 1].begun
                           /\ stack'[i + 1].loading
                           /\ stack'[i].mod = Opening(stack'[i + 1])
                           /\ stack'[i + 1].deps # <<>> => stack'[i].mod \notin skip_load
    BY <1>1 DEF CallsHaveCallers
  <2>1. i \in 2..Len(stack) /\ stack'[i] = stack[i]
    BY <1>1
  <2>2. i + 1 \in 1..Len(stack) /\ stack'[i + 1] = stack[i + 1]
    BY <1>1, <2>1 DEF Shape, CallsHaveCallers
  <2> QED
    BY <2>1, <2>2 DEF Shape, CallsHaveCallers
<1>4. ErasesAlone'
  <2> SUFFICES ASSUME NEW i \in 1..Len(stack), stack'[i].at = "close"
               PROVE  /\ stack'[i].by = "force_unload" => i = Len(stack)
                      /\ stack'[i].by = "close_all" => TornDown
    BY <1>1 DEF ErasesAlone
  <2>1. stack[i].at = "close" /\ stack'[i].by = stack[i].by
    BY <1>1
  <2> QED
    BY <2>1 DEF Shape, ErasesAlone
<1> QED
  BY <1>2, <1>3, <1>4 DEF Shape

(* The frame on top goes on and calls g: a callback, or LoadedMod::close.   *)
LEMMA ShapeCall ==
  ASSUME stack \in Seq(FrameType), Shape, stack # <<>>, NEW f \in FrameType, NEW g \in FrameType,
         stack' = <<g, f>> \o Tail(stack), skip_load' = skip_load, TornDown => TornDown',
         f.at = Top.at, f.at # "call", f.at = "close" => f.by = Top.by,
         \/ /\ g.at = "call"
            /\ g.fn = "ctor" <=> f.at = "open"
            /\ g.fn = "ctor" =>
                 /\ f.begun /\ f.loading /\ g.mod = Opening(f)
                 /\ f.deps # <<>> => g.mod \notin skip_load
         \/ g.at = "close" /\ g.by = "close_all" /\ TornDown
  PROVE  Shape'
<1>1. /\ Len(stack) \in Nat /\ Len(stack) >= 1 /\ Len(stack') = Len(stack) + 1 /\ Top = stack[1]
      /\ stack'[1] = g /\ stack'[2] = f
      /\ \A i \in 3..(Len(stack) + 1) : stack'[i] = stack[i - 1]
  BY CalledFrom DEF Top
<1>2. BaseAboveFresh'
  <2> SUFFICES ASSUME NEW i \in 1..(Len(stack) + 1), NEW j \in 1..(Len(stack) + 1),
                      Base(stack'[i]), i < j
               PROVE  Fresh(stack'[j])
    BY <1>1 DEF BaseAboveFresh, Base, Fresh
  <2>1. i # 1
    BY <1>1 DEF Base
  <2>2. i - 1 \in 1..Len(stack) /\ j - 1 \in 1..Len(stack) /\ i - 1 < j - 1 /\ j \in 3..(Len(stack) + 1)
    BY <1>1, <2>1
  <2>3. Base(stack[i - 1]) /\ stack'[j] = stack[j - 1]
    BY <1>1, <2>1, <2>2 DEF Base
  <2> QED
    BY <2>2, <2>3 DEF Shape, BaseAboveFresh
<1>3. CallsHaveCallers'
  <2> SUFFICES ASSUME NEW i \in 1..(Len(stack) + 1), stack'[i].at = "call"
               PROVE  /\ i + 1 \in 1..(Len(stack) + 1)
                      /\ stack'[i].fn = "ctor" <=> stack'[i + 1].at = "open"
                      /\ stack'[i].fn = "ctor" =>
                           /\ stack'[i + 1].begun
                           /\ stack'[i + 1].loading
                           /\ stack'[i].mod = Opening(stack'[i + 1])
                           /\ stack'[i + 1].deps # <<>> => stack'[i].mod \notin skip_load
    BY <1>1 DEF CallsHaveCallers
  <2>1. CASE i = 1
    BY <1>1, <2>1
  <2>2. CASE i # 1
    <3>1. i \in 3..(Len(stack) + 1) /\ stack'[i] = stack[i - 1] /\ i - 1 \in 1..Len(stack)
      BY <1>1, <2>2
    <3>2. (i - 1) + 1 \in 1..Len(stack)
      BY <3>1 DEF Shape, CallsHaveCallers
    <3>3. i + 1 \in 3..(Len(stack) + 1) /\ (i - 1) + 1 = (i + 1) - 1
      <4>1. Len(stack) \in Nat
        BY <1>1
      <4> QED
        BY <3>1, <3>2, <4>1
    <3>4. stack'[i + 1] = stack[(i - 1) + 1]
      BY <1>1, <3>3
    <3> QED
      BY <3>1, <3>2, <3>3, <3>4 DEF Shape, CallsHaveCallers
  <2> QED
    BY <2>1, <2>2
<1>4. ErasesAlone'
  <2>1. \A i \in 3..(Len(stack) + 1) : i - 1 \in 1..Len(stack)
    <3>1. \A n \in Nat : \A i \in 3..(n + 1) : i - 1 \in 1..n
      OBVIOUS
    <3> QED
      BY <1>1, <3>1
  <2>2. ASSUME NEW i \in 3..(Len(stack) + 1), stack'[i].at = "close"
        PROVE  /\ stack'[i].by = "force_unload" => i = Len(stack) + 1
               /\ stack'[i].by = "close_all" => TornDown
    <3>1. stack'[i] = stack[i - 1] /\ i - 1 \in 1..Len(stack)
      BY <1>1, <2>1
    <3>2. /\ stack[i - 1].by = "force_unload" => i - 1 = Len(stack)
          /\ stack[i - 1].by = "close_all" => TornDown
      BY <2>2, <3>1 DEF Shape, ErasesAlone
    <3> QED
      BY <1>1, <3>1, <3>2
  <2>3. f.at = "close" =>
          /\ f.by = "force_unload" => 2 = Len(stack) + 1
          /\ f.by = "close_all" => TornDown
    BY <1>1 DEF Shape, ErasesAlone
  <2>4. 1..(Len(stack) + 1) = {1, 2} \union 3..(Len(stack) + 1)
    BY <1>1
  <2> QED
    BY <1>1, <2>2, <2>3, <2>4 DEF ErasesAlone
<1> QED
  BY <1>2, <1>3, <1>4 DEF Shape

(* A callback or the host calls the API.                                   *)
LEMMA ShapePush ==
  ASSUME stack \in Seq(FrameType), Shape, NEW f \in FrameType,
         stack' = <<f>> \o stack, skip_load' = skip_load, TornDown => TornDown',
         f.at = "require" \/ (f.at = "close" /\ f.by = "force_unload" /\ stack = <<>>)
  PROVE  Shape'
<1>1. /\ Len(stack) \in Nat /\ Len(stack') = Len(stack) + 1 /\ stack'[1] = f
      /\ \A i \in 2..(Len(stack) + 1) : stack'[i] = stack[i - 1]
  BY Pushed
<1>2. BaseAboveFresh'
  <2> SUFFICES ASSUME NEW i \in 1..(Len(stack) + 1), NEW j \in 1..(Len(stack) + 1),
                      Base(stack'[i]), i < j
               PROVE  Fresh(stack'[j])
    BY <1>1 DEF BaseAboveFresh, Base, Fresh
  <2>1. i # 1
    BY <1>1 DEF Base
  <2>2. i - 1 \in 1..Len(stack) /\ j - 1 \in 1..Len(stack) /\ i - 1 < j - 1
    BY <1>1, <2>1
  <2>3. stack'[i] = stack[i - 1] /\ stack'[j] = stack[j - 1]
    BY <1>1, <2>1, <2>2
  <2> QED
    BY <2>2, <2>3 DEF Shape, BaseAboveFresh
<1>3. CallsHaveCallers'
  <2> SUFFICES ASSUME NEW i \in 1..(Len(stack) + 1), stack'[i].at = "call"
               PROVE  /\ i + 1 \in 1..(Len(stack) + 1)
                      /\ stack'[i].fn = "ctor" <=> stack'[i + 1].at = "open"
                      /\ stack'[i].fn = "ctor" =>
                           /\ stack'[i + 1].begun
                           /\ stack'[i + 1].loading
                           /\ stack'[i].mod = Opening(stack'[i + 1])
                           /\ stack'[i + 1].deps # <<>> => stack'[i].mod \notin skip_load
    BY <1>1 DEF CallsHaveCallers
  <2>1. i \in 2..(Len(stack) + 1) /\ stack'[i] = stack[i - 1] /\ i - 1 \in 1..Len(stack)
    BY <1>1
  <2>2. (i - 1) + 1 \in 1..Len(stack)
    BY <2>1 DEF Shape, CallsHaveCallers
  <2>3. i + 1 \in 2..(Len(stack) + 1) /\ stack'[i + 1] = stack[(i - 1) + 1]
    BY <1>1, <2>1, <2>2
  <2> QED
    BY <2>1, <2>2, <2>3 DEF Shape, CallsHaveCallers
<1>4. ErasesAlone'
  <2> SUFFICES ASSUME NEW i \in 1..(Len(stack) + 1), stack'[i].at = "close"
               PROVE  /\ stack'[i].by = "force_unload" => i = Len(stack) + 1
                      /\ stack'[i].by = "close_all" => TornDown
    BY <1>1 DEF ErasesAlone
  <2>1. CASE i = 1
    <3>1. f.at = "close" /\ f.by = "force_unload" /\ Len(stack) = 0
      BY <1>1, <2>1
    <3> QED
      BY <1>1, <2>1, <3>1
  <2>2. CASE i # 1
    <3>1. stack'[i] = stack[i - 1] /\ i - 1 \in 1..Len(stack)
      BY <1>1, <2>2
    <3> QED
      BY <1>1, <3>1 DEF Shape, ErasesAlone
  <2> QED
    BY <2>1, <2>2
<1> QED
  BY <1>2, <1>3, <1>4 DEF Shape
-----------------------------------------------------------------------------
(* Steps that leave the lists alone: only new frames have to be looked at.  *)

KeepsLists ==
  /\ UNCHANGED <<loaded, skip_load, returned, handles>>
  /\ TornDown => TornDown'

LEMMA ListsKept == Lists /\ KeepsLists => Lists'
BY DEF Lists, KeepsLists, ListedOnce, ListedOpened, FlagsTruthful, Unknown

(* What holds of a frame holds of the place where it is.                   *)
LEMMA FrameOf ==
  ASSUME NEW f, NEW i, f = stack'[i], InPlace(f)', ResultsNew(f)'
  PROVE  InPlace(stack[i])' /\ ResultsNew(stack[i])'
<1>1. InPlace(stack[i])'
  BY Zenon DEF InPlace, Holds
<1>2. LoadsNew(f)' => LoadsNew(stack[i])'
  BY Zenon DEF LoadsNew, Unlisted, IsOpen
<1>3. ResultsNew(stack[i])'
  BY <1>2 DEF ResultsNew, JustOpened, Unlisted
<1> QED
  BY <1>1, <1>3

LEMMA FramesKept ==
  ASSUME KeepsLists, \A i \in 1..Len(stack') : InPlace(stack'[i]) /\ ResultsNew(stack'[i])
  PROVE  Frames'
<1>1. ASSUME NEW f PROVE (InPlace(f) => InPlace(f)') /\ (ResultsNew(f) => ResultsNew(f)')
  <2>1. InPlace(f) => InPlace(f)'
    BY DEF KeepsLists, InPlace, Holds
  <2>2. /\ LoadsNew(f) => LoadsNew(f)'
        /\ \A r : JustOpened(r) => JustOpened(r)'
        /\ \A n : Unlisted(n) => Unlisted(n)'
    BY DEF KeepsLists, LoadsNew, JustOpened, Unlisted, IsOpen
  <2>3. ResultsNew(f) => ResultsNew(f)'
    BY <2>2 DEF KeepsLists, ResultsNew
  <2> QED
    BY <2>1, <2>3
<1>2. ASSUME NEW i \in 1..Len(stack') PROVE InPlace(stack[i])' /\ ResultsNew(stack[i])'
  <2>1. PICK f : f = stack'[i] /\ InPlace(f) /\ ResultsNew(f)
    OBVIOUS
  <2>2. InPlace(f)' /\ ResultsNew(f)'
    BY <1>1, <2>1
  <2> QED
    BY <2>1, <2>2, FrameOf
<1> QED
  BY <1>2, Zenon DEF Frames

LEMMA StackTop ==
  ASSUME stack \in Seq(FrameType), Frames, stack # <<>>
  PROVE  /\ Len(stack) \in Nat /\ Len(stack) >= 1
         /\ Top = stack[1] /\ Top \in FrameType /\ InPlace(Top) /\ ResultsNew(Top)
<1>1. Len(stack) \in Nat /\ Len(stack) >= 1 /\ Head(stack) = stack[1] /\ stack[1] \in FrameType
  OBVIOUS
<1> QED
  BY <1>1 DEF Top, Frames

LEMMA StepPop ==
  ASSUME stack \in Seq(FrameType), Shape, Frames, Lists, KeepsLists,
         stack # <<>>, stack' = Tail(stack)
  PROVE  stack' \in Seq(FrameType) /\ Shape' /\ Frames' /\ Lists'
<1>1. stack' \in Seq(FrameType) /\ \A i \in 1..Len(stack') : \E k \in 1..Len(stack) : stack'[i] = stack[k]
  <2>1. /\ stack' \in Seq(FrameType) /\ Len(stack) \in Nat /\ Len(stack') = Len(stack) - 1
        /\ \A i \in 1..(Len(stack) - 1) : stack'[i] = stack[i + 1]
    BY Popped
  <2> QED
    BY <2>1
<1>2. Frames'
  BY <1>1, FramesKept DEF Frames
<1>3. Shape'
  BY ShapePop DEF KeepsLists
<1> QED
  BY <1>1, <1>2, <1>3, ListsKept

LEMMA StepAdvance ==
  ASSUME stack \in Seq(FrameType), Shape, Frames, Lists, KeepsLists,
         stack # <<>>, NEW f \in FrameType, stack' = <<f>> \o Tail(stack),
         f.at = Top.at, f.at # "call", f.at = "close" => f.by = Top.by,
         InPlace(f), ResultsNew(f)
  PROVE  stack' \in Seq(FrameType) /\ Shape' /\ Frames' /\ Lists'
<1>1. /\ stack' \in Seq(FrameType) /\ Len(stack) \in Nat /\ Len(stack') = Len(stack)
      /\ stack'[1] = f /\ \A i \in 2..Len(stack) : stack'[i] = stack[i]
  BY Replaced
<1>2. \A i \in 1..Len(stack') : InPlace(stack'[i]) /\ ResultsNew(stack'[i])
  <2> SUFFICES ASSUME NEW i \in 1..Len(stack) PROVE InPlace(stack'[i]) /\ ResultsNew(stack'[i])
    BY <1>1
  <2>1. stack'[i] = f \/ stack'[i] = stack[i]
    BY <1>1
  <2> QED
    BY <2>1 DEF Frames
<1>3. Frames'
  BY <1>2, FramesKept
<1>4. Shape'
  BY ShapeAdvance DEF KeepsLists
<1> QED
  BY <1>1, <1>3, <1>4, ListsKept

LEMMA StepCall ==
  ASSUME stack \in Seq(FrameType), Shape, Frames, Lists, KeepsLists,
         stack # <<>>, NEW f \in FrameType, NEW g \in FrameType, stack' = <<g, f>> \o Tail(stack),
         f.at = Top.at, f.at # "call", f.at = "close" => f.by = Top.by,
         \/ /\ g.at = "call"
            /\ g.fn = "ctor" <=> f.at = "open"
            /\ g.fn = "ctor" =>
                 /\ f.begun /\ f.loading /\ g.mod = Opening(f)
                 /\ f.deps # <<>> => g.mod \notin skip_load
         \/ g.at = "close" /\ g.by = "close_all" /\ TornDown,
         InPlace(f), ResultsNew(f), InPlace(g)
  PROVE  stack' \in Seq(FrameType) /\ Shape' /\ Frames' /\ Lists'
<1>1. /\ stack' \in Seq(FrameType) /\ Len(stack) \in Nat /\ Len(stack') = Len(stack) + 1
      /\ stack'[1] = g /\ stack'[2] = f /\ \A i \in 3..(Len(stack) + 1) : stack'[i] = stack[i - 1]
  BY CalledFrom
<1>2. \A i \in 1..Len(stack') : InPlace(stack'[i]) /\ ResultsNew(stack'[i])
  <2> SUFFICES ASSUME NEW i \in 1..(Len(stack) + 1)
               PROVE  InPlace(stack'[i]) /\ ResultsNew(stack'[i])
    BY <1>1
  <2>1. ResultsNew(g)
    BY DEF ResultsNew
  <2>2. stack'[i] = f \/ stack'[i] = g \/ (i - 1 \in 1..Len(stack) /\ stack'[i] = stack[i - 1])
    BY <1>1
  <2> QED
    BY <2>1, <2>2 DEF Frames
<1>3. Frames'
  BY <1>2, FramesKept
<1>4. Shape'
  BY ShapeCall DEF KeepsLists
<1> QED
  BY <1>1, <1>3, <1>4, ListsKept

LEMMA StepPush ==
  ASSUME stack \in Seq(FrameType), Shape, Frames, Lists, KeepsLists,
         NEW f \in FrameType, stack' = <<f>> \o stack,
         f.at = "require" \/ (f.at = "close" /\ f.by = "force_unload" /\ stack = <<>>),
         InPlace(f)
  PROVE  stack' \in Seq(FrameType) /\ Shape' /\ Frames' /\ Lists'
<1>1. /\ stack' \in Seq(FrameType) /\ Len(stack) \in Nat /\ Len(stack') = Len(stack) + 1
      /\ stack'[1] = f /\ \A i \in 2..(Len(stack) + 1) : stack'[i] = stack[i - 1]
  BY Pushed
<1>2. \A i \in 1..Len(stack') : InPlace(stack'[i]) /\ ResultsNew(stack'[i])
  <2> SUFFICES ASSUME NEW i \in 1..(Len(stack) + 1)
               PROVE  InPlace(stack'[i]) /\ ResultsNew(stack'[i])
    BY <1>1
  <2>1. ResultsNew(f)
    BY DEF ResultsNew
  <2>2. stack'[i] = f \/ (i - 1 \in 1..Len(stack) /\ stack'[i] = stack[i - 1])
    BY <1>1
  <2> QED
    BY <2>1, <2>2 DEF Frames
<1>3. Frames'
  BY <1>2, FramesKept
<1>4. Shape'
  BY ShapePush DEF KeepsLists
<1> QED
  BY <1>1, <1>3, <1>4, ListsKept

(* The entry points and hooks leave fresh frames and nothing else.         *)
LEMMA StepFresh ==
  ASSUME Lists, KeepsLists, stack' \in Seq(FrameType),
         \A i \in 1..Len(stack') :
           /\ Fresh(stack'[i])
           /\ stack'[i].at = "open" => stack'[i].results = <<>>
           /\ stack'[i].at = "for" /\ stack'[i].fn = "close" => TornDown'
  PROVE  Shape' /\ Frames' /\ Lists'
<1>1. Shape'
  BY ShapeFresh
<1>2. Frames'
  BY DEF Frames, Fresh, InPlace, ResultsNew
<1> QED
  BY <1>1, <1>2, ListsKept

LEMMA StepSame ==
  ASSUME Shape, Frames, Lists, KeepsLists, stack' = stack
  PROVE  Shape' /\ Frames' /\ Lists'
<1>1. Shape'
  BY DEF Shape, BaseAboveFresh, CallsHaveCallers, ErasesAlone, KeepsLists, Base, Fresh
<1>2. Frames'
  BY FramesKept DEF Frames
<1> QED
  BY <1>1, <1>2, ListsKept

(* Below a frame of the base, everything may stay as it is.                *)
LEMMA BelowBase ==
  ASSUME stack \in Seq(FrameType), Shape, Frames, stack # <<>>, Base(Top)
  PROVE  /\ Tail(stack) \in Seq(FrameType)
         /\ \A i \in 1..Len(Tail(stack)) :
              LET f == Tail(stack)[i] IN
              /\ Fresh(f)
              /\ f.at = "open" => f.results = <<>>
              /\ f.at = "for" /\ f.fn = "close" => TornDown
<1>1. /\ Tail(stack) \in Seq(FrameType) /\ Len(stack) \in Nat /\ Len(Tail(stack)) = Len(stack) - 1
      /\ \A i \in 1..(Len(stack) - 1) : Tail(stack)[i] = stack[i + 1]
  BY Popped
<1>2. Top = stack[1] /\ 1 \in 1..Len(stack)
  BY <1>1, StackTop
<1>3. \A i \in 1..(Len(stack) - 1) : i + 1 \in 1..Len(stack) /\ 1 < i + 1
  BY <1>1
<1>4. \A i \in 1..(Len(stack) - 1) :
        Fresh(stack[i + 1]) /\ InPlace(stack[i + 1]) /\ ResultsNew(stack[i + 1])
  BY <1>2, <1>3 DEF Shape, BaseAboveFresh, Frames
<1> QED
  BY <1>1, <1>4 DEF Fresh, InPlace, ResultsNew

(* What an action finds.                                                   *)
LEMMA Facts ==
  ASSUME IInv
  PROVE  /\ TypeOK /\ Shape /\ Frames /\ Lists /\ ~undefined
         /\ stack \in Seq(FrameType)
         /\ loaded \in [OpenedPhases -> Seq(LoadResult)]
         /\ skip_load \subseteq Mod /\ handles \subseteq Mod \X Role
         /\ returned \in [Mod -> SUBSET Callback]
BY DEF IInv, TypeOK

-----------------------------------------------------------------------------
(* The entry points and the hooks.                                         *)

LEMMA PreloadKeeps == IInv /\ modloader_preload => IInv'
<1> SUFFICES ASSUME IInv, modloader_preload PROVE IInv'
  OBVIOUS
<1>1. KeepsLists /\ stack' = stack
  BY DEF modloader_preload, KeepsLists, listVars, historyVars, TornDown
<1>2. TypeOK' /\ ~undefined'
  BY Facts DEF TypeOK, modloader_preload, listVars, historyVars
<1> QED
  BY <1>1, <1>2, Facts, StepSame DEF IInv

LEMMA LoadKeeps == IInv /\ modloader_load => IInv'
<1> SUFFICES ASSUME IInv, modloader_load PROVE IInv'
  OBVIOUS
<1>1. KeepsLists
  BY DEF modloader_load, KeepsLists, listVars, historyVars, TornDown
<1>2. stack' \in Seq(FrameType) => TypeOK' /\ ~undefined'
  BY Facts DEF TypeOK, modloader_load, listVars, historyVars
<1>3. CASE stack' = stack
  BY <1>1, <1>2, <1>3, Facts, StepSame DEF IInv
<1>4. CASE stack' # stack
  <2> DEFINE f1 == OpenFrame("Libs")
             f2 == OpenFrame("EarlyMods")
             f3 == ForFrame("EarlyMods", "setup")
  <2>1. f1 \in FrameType /\ f2 \in FrameType /\ f3 \in FrameType
    <3>1. \A list \in OpenedPhases : OpenFrame(list) \in FrameType
      BY OpenFramesMade
    <3>2. \A list \in OpenedPhases, fn \in Flags \union {"close"} : ForFrame(list, fn) \in FrameType
      BY ForFramesMade
    <3> QED
      BY <3>1, <3>2 DEF OpenedPhases, Flags
  <2>2. stack' = <<f1, f2, f3>>
    <3>1. stack = <<>> /\ stack' = <<f1, f2, f3>> \o stack
      BY <1>4 DEF modloader_load, Push, Idle
    <3> HIDE DEF f1, f2, f3
    <3> QED
      BY <2>1, <3>1
  <2>3. \A f \in {f1, f2, f3} :
          Fresh(f) /\ (f.at = "open" => f.results = <<>>) /\ ~(f.at = "for" /\ f.fn = "close")
    BY DEF OpenFrame, ForFrame, Fresh
  <2>4. stack' \in Seq(FrameType) /\ \A i \in 1..Len(stack') : stack'[i] \in {f1, f2, f3}
    <3> HIDE DEF f1, f2, f3
    <3> QED
      BY <2>1, <2>2
  <2>5. \A i \in 1..Len(stack') :
           /\ Fresh(stack'[i])
           /\ stack'[i].at = "open" => stack'[i].results = <<>>
           /\ stack'[i].at = "for" /\ stack'[i].fn = "close" => TornDown'
    <3> HIDE DEF f1, f2, f3
    <3> QED
      BY <2>3, <2>4
  <2> QED
    BY <1>1, <1>2, <2>4, <2>5, Facts, StepFresh DEF IInv
<1> QED
  BY <1>3, <1>4

LEMMA AcceptKeeps == IInv /\ modloader_accept_unity_handle => IInv'
<1> SUFFICES ASSUME IInv, modloader_accept_unity_handle PROVE IInv'
  OBVIOUS
<1>1. KeepsLists /\ stack' = stack
  BY DEF modloader_accept_unity_handle, KeepsLists, listVars, historyVars, TornDown
<1>2. TypeOK' /\ ~undefined'
  BY Facts DEF TypeOK, modloader_accept_unity_handle, listVars, historyVars
<1> QED
  BY <1>1, <1>2, Facts, StepSame DEF IInv

LEMMA Il2cppInitKeeps == IInv /\ Il2cppInit => IInv'
<1> SUFFICES ASSUME IInv, Il2cppInit PROVE IInv'
  OBVIOUS
<1>1. KeepsLists
  BY DEF Il2cppInit, KeepsLists, listVars, historyVars, TornDown
<1>2. stack' \in Seq(FrameType) => TypeOK' /\ ~undefined'
  BY Facts DEF TypeOK, Il2cppInit, listVars, historyVars
<1>3. CASE stack' = stack
  BY <1>1, <1>2, <1>3, Facts, StepSame DEF IInv
<1>4. CASE stack' # stack
  <2> DEFINE f1 == ForFrame("EarlyMods", "load")
             f2 == SetupUnityFrame
  <2>1. f1 \in FrameType /\ f2 \in FrameType
    BY ForFramesMade, PlainFramesMade DEF OpenedPhases, Flags
  <2>2. stack' = <<f1, f2>>
    <3>1. stack = <<>> /\ stack' = <<f1, f2>> \o stack
      BY <1>4 DEF Il2cppInit, Push, Idle
    <3> HIDE DEF f1, f2
    <3> QED
      BY <2>1, <3>1
  <2>3. \A f \in {f1, f2} : Fresh(f) /\ f.at # "open" /\ ~(f.at = "for" /\ f.fn = "close")
    BY DEF ForFrame, SetupUnityFrame, Fresh
  <2>4. stack' \in Seq(FrameType) /\ \A i \in 1..Len(stack') : stack'[i] \in {f1, f2}
    <3> HIDE DEF f1, f2
    <3> QED
      BY <2>1, <2>2
  <2>5. \A i \in 1..Len(stack') :
           /\ Fresh(stack'[i])
           /\ stack'[i].at = "open" => stack'[i].results = <<>>
           /\ stack'[i].at = "for" /\ stack'[i].fn = "close" => TornDown'
    <3> HIDE DEF f1, f2
    <3> QED
      BY <2>3, <2>4
  <2> QED
    BY <1>1, <1>2, <2>4, <2>5, Facts, StepFresh DEF IInv
<1> QED
  BY <1>3, <1>4

LEMMA SetupUnityKeeps == IInv /\ setup_unity_hook => IInv'
<1> SUFFICES ASSUME IInv, setup_unity_hook PROVE IInv'
  OBVIOUS
<1>1. KeepsLists /\ stack # <<>> /\ stack' = Tail(stack)
  BY DEF setup_unity_hook, KeepsLists, listVars, historyVars, TornDown, TopIs, Pop
<1>2. stack' \in Seq(FrameType) => TypeOK' /\ ~undefined'
  BY Facts DEF TypeOK, setup_unity_hook, listVars, historyVars
<1> QED
  BY <1>1, <1>2, Facts, StepPop DEF IInv

LEMMA DestroyObjectKeeps == IInv /\ DestroyObject => IInv'
<1> SUFFICES ASSUME IInv, DestroyObject PROVE IInv'
  OBVIOUS
<1>1. KeepsLists /\ stack' = <<OrigFrame>> \o stack
  BY DEF DestroyObject, KeepsLists, hostVars, listVars, historyVars, TornDown, Push
<1>2. stack' \in Seq(FrameType) => TypeOK' /\ ~undefined'
  BY Facts DEF TypeOK, DestroyObject, hostVars, listVars, historyVars
<1>3. /\ stack' \in Seq(FrameType) /\ Len(stack) \in Nat /\ Len(stack') = Len(stack) + 1
      /\ stack'[1] = OrigFrame /\ \A i \in 2..(Len(stack) + 1) : stack'[i] = stack[i - 1]
  BY <1>1, Facts, PlainFramesMade, Pushed
<1>4. \A i \in 1..Len(stack) :
        /\ Fresh(stack[i])
        /\ stack[i].at = "open" => stack[i].results = <<>>
        /\ stack[i].at = "for" /\ stack[i].fn = "close" => TornDown
  <2>1. CASE stack = <<>>
    BY <2>1
  <2>2. CASE stack # <<>>
    <3>1. Top.at = "orig" /\ Top = stack[1] /\ Len(stack) \in Nat
      BY <2>2, Facts, StackTop DEF DestroyObject, Idle, TopIs
    <3>2. \A i \in 2..Len(stack) : Fresh(stack[i]) /\ InPlace(stack[i]) /\ ResultsNew(stack[i])
      <4>1. Base(stack[1]) /\ 1 \in 1..Len(stack)
        BY <2>2, <3>1, Facts DEF Base
      <4>2. \A i \in 2..Len(stack) : i \in 1..Len(stack) /\ 1 < i
        BY <3>1
      <4> QED
        BY <4>1, <4>2, Facts DEF Shape, BaseAboveFresh, Frames
    <3> QED
      BY <3>1, <3>2 DEF Fresh, InPlace, ResultsNew
  <2> QED
    BY <2>1, <2>2
<1>5. \A i \in 1..Len(stack') :
        /\ Fresh(stack'[i])
        /\ stack'[i].at = "open" => stack'[i].results = <<>>
        /\ stack'[i].at = "for" /\ stack'[i].fn = "close" => TornDown'
  <2> SUFFICES ASSUME NEW i \in 1..(Len(stack) + 1)
               PROVE  /\ Fresh(stack'[i])
                      /\ stack'[i].at = "open" => stack'[i].results = <<>>
                      /\ stack'[i].at = "for" /\ stack'[i].fn = "close" => TornDown'
    BY <1>3
  <2>1. CASE i = 1
    BY <1>3, <2>1 DEF OrigFrame, Fresh
  <2>2. CASE i # 1
    <3>1. i - 1 \in 1..Len(stack) /\ stack'[i] = stack[i - 1]
      BY <1>3, <2>2
    <3> QED
      BY <1>1, <1>4, <3>1 DEF KeepsLists
  <2> QED
    BY <2>1, <2>2
<1> QED
  BY <1>1, <1>2, <1>3, <1>5, Facts, StepFresh DEF IInv

LEMMA OrigReturnsKeeps == IInv /\ OrigReturns => IInv'
<1> SUFFICES ASSUME IInv, OrigReturns PROVE IInv'
  OBVIOUS
<1>1. KeepsLists
  BY DEF OrigReturns, KeepsLists, listVars, historyVars, TornDown
<1>2. stack' \in Seq(FrameType) => TypeOK' /\ ~undefined'
  BY Facts DEF TypeOK, OrigReturns, listVars, historyVars
<1> DEFINE f1 == OpenFrame("Mods")
           f2 == ForFrame("Mods", "setup")
           f3 == ForFrame("EarlyMods", "late_load")
           f4 == ForFrame("Mods", "late_load")
           rest == Tail(stack)
<1>3. stack # <<>> /\ Base(Top) /\ stack' = <<f1, f2, f3, f4>> \o rest
  BY DEF OrigReturns, TopIs, Base
<1>4. f1 \in FrameType /\ f2 \in FrameType /\ f3 \in FrameType /\ f4 \in FrameType
  <2>1. \A list \in OpenedPhases, fn \in Flags \union {"close"} : ForFrame(list, fn) \in FrameType
    BY ForFramesMade
  <2> QED
    BY <2>1, OpenFramesMade DEF OpenedPhases, Flags
<1>5. \A f \in {f1, f2, f3, f4} :
        Fresh(f) /\ (f.at = "open" => f.results = <<>>) /\ ~(f.at = "for" /\ f.fn = "close")
  BY DEF OpenFrame, ForFrame, Fresh
<1>6. /\ rest \in Seq(FrameType)
      /\ \A i \in 1..Len(rest) :
           /\ Fresh(rest[i])
           /\ rest[i].at = "open" => rest[i].results = <<>>
           /\ rest[i].at = "for" /\ rest[i].fn = "close" => TornDown
  BY <1>3, Facts, BelowBase
<1> HIDE DEF f1, f2, f3, f4, rest
<1>7. /\ stack' \in Seq(FrameType)
      /\ \A i \in 1..Len(stack') :
           stack'[i] \in {f1, f2, f3, f4} \/ \E k \in 1..Len(rest) : stack'[i] = rest[k]
  <2>1. Len(rest) \in Nat /\ stack' \in Seq(FrameType) /\ Len(stack') = Len(rest) + 4
    BY <1>3, <1>4, <1>6
  <2>2. \A i \in 1..(Len(rest) + 4) :
          stack'[i] = IF i = 1 THEN f1 ELSE IF i = 2 THEN f2 ELSE IF i = 3 THEN f3
                      ELSE IF i = 4 THEN f4 ELSE rest[i - 4]
    BY <1>3, <1>4, <1>6
  <2>3. \A i \in 1..(Len(rest) + 4) : i \in {1, 2, 3, 4} \/ i - 4 \in 1..Len(rest)
    BY <2>1
  <2> QED
    BY <2>1, <2>2, <2>3
<1>8. \A i \in 1..Len(stack') :
        /\ Fresh(stack'[i])
        /\ stack'[i].at = "open" => stack'[i].results = <<>>
        /\ stack'[i].at = "for" /\ stack'[i].fn = "close" => TornDown'
  BY <1>1, <1>5, <1>6, <1>7 DEF KeepsLists
<1> QED
  BY <1>1, <1>2, <1>7, <1>8, Facts, StepFresh DEF IInv

LEMMA UnloadKeeps == IInv /\ modloader_unload => IInv'
<1> SUFFICES ASSUME IInv, modloader_unload PROVE IInv'
  OBVIOUS
<1>1. KeepsLists /\ TornDown'
  BY DEF modloader_unload, KeepsLists, listVars, TornDown
<1>2. stack' \in Seq(FrameType) => TypeOK' /\ ~undefined'
  BY Facts DEF TypeOK, modloader_unload, hostVars, listVars
<1>3. CASE stack' = stack
  BY <1>1, <1>2, <1>3, Facts, StepSame DEF IInv
<1>4. CASE stack' # stack
  <2> DEFINE f1 == ForFrame("Mods", "close")
             f2 == ForFrame("EarlyMods", "close")
             f3 == ForFrame("Libs", "close")
             f4 == ClearFrame
  <2>1. f1 \in FrameType /\ f2 \in FrameType /\ f3 \in FrameType /\ f4 \in FrameType
    <3>1. \A list \in OpenedPhases, fn \in Flags \union {"close"} : ForFrame(list, fn) \in FrameType
      BY ForFramesMade
    <3> QED
      BY <3>1, PlainFramesMade DEF OpenedPhases, Flags
  <2>2. stack' = <<f1, f2, f3, f4>>
    <3>1. stack = <<>> /\ stack' = <<f1, f2, f3, f4>> \o stack
      BY <1>4 DEF modloader_unload, Push, Idle
    <3> HIDE DEF f1, f2, f3, f4
    <3> QED
      BY <2>1, <3>1
  <2>3. \A f \in {f1, f2, f3, f4} : Fresh(f) /\ f.at # "open"
    BY DEF ForFrame, ClearFrame, Fresh
  <2>4. stack' \in Seq(FrameType) /\ \A i \in 1..Len(stack') : stack'[i] \in {f1, f2, f3, f4}
    <3> HIDE DEF f1, f2, f3, f4
    <3> QED
      BY <2>1, <2>2
  <2>5. \A i \in 1..Len(stack') : Fresh(stack'[i]) /\ stack'[i].at # "open"
    <3> HIDE DEF f1, f2, f3, f4
    <3> QED
      BY <2>3, <2>4
  <2> QED
    BY <1>1, <1>2, <2>4, <2>5, Facts, StepFresh DEF IInv
<1> QED
  BY <1>3, <1>4

-----------------------------------------------------------------------------
(* loadMods and the loops.                                                 *)

LEMMA OpenBeginKeeps == IInv /\ OpenBegin => IInv'
<1> SUFFICES ASSUME IInv, OpenBegin PROVE IInv'
  OBVIOUS
<1> DEFINE f == [Top EXCEPT !.begun = TRUE]
<1>1. KeepsLists /\ stack # <<>> /\ Top.at = "open" /\ stack' = <<f>> \o Tail(stack)
  BY DEF OpenBegin, KeepsLists, historyVars, TornDown, TopIs, Advance
<1>2. Top \in FrameType /\ Top \in OpenFrameType /\ InPlace(Top) /\ ResultsNew(Top)
  BY <1>1, Facts, StackTop, FrameKinds
<1>3. /\ f \in OpenFrameType /\ f.at = "open" /\ f.begun /\ f.results = Top.results
      /\ f.loading = Top.loading /\ ~Top.begun
  BY <1>2, OpenFrames DEF OpenBegin
<1>4. f \in FrameType
  BY <1>3 DEF FrameType
<1> HIDE DEF f
<1>5. InPlace(f) /\ ResultsNew(f)
  BY <1>1, <1>2, <1>3 DEF InPlace, ResultsNew
<1>6. stack' \in Seq(FrameType) /\ Shape' /\ Frames' /\ Lists'
  BY <1>1, <1>3, <1>4, <1>5, Facts, StepAdvance
<1>7. TypeOK' /\ ~undefined'
  <2>1. current_load_phase' \in OpenedPhases
    BY <1>2, OpenFrames DEF OpenBegin
  <2> QED
    BY <1>6, <2>1, Facts DEF TypeOK, OpenBegin, hostVars, historyVars
<1> QED
  BY <1>6, <1>7 DEF IInv

LEMMA ForBeginKeeps == IInv /\ ForBegin => IInv'
<1> SUFFICES ASSUME IInv, ForBegin PROVE IInv'
  OBVIOUS
<1> DEFINE n == Len(loaded[Top.list])
           f == [Top EXCEPT !.pos = 1, !.end = n]
<1>1. KeepsLists /\ stack # <<>> /\ Top.at = "for" /\ stack' = <<f>> \o Tail(stack)
  BY DEF ForBegin, KeepsLists, listVars, historyVars, TornDown, TopIs, Advance
<1>2. Top \in FrameType /\ Top \in ForFrameType /\ InPlace(Top)
  BY <1>1, Facts, StackTop, FrameKinds
<1>3. n \in Nat
  BY <1>2, Facts, ForFrames
<1>4. f \in ForFrameType /\ f.at = "for" /\ f.list = Top.list /\ f.fn = Top.fn /\ f.pos = 1 /\ f.end = n
  <2> HIDE DEF n
  <2>1. PICK k \in Nat : k = 1
    OBVIOUS
  <2>2. f = [Top EXCEPT !.pos = k, !.end = n]
    BY <2>1, Zenon
  <2> DEFINE g == [Top EXCEPT !.pos = k, !.end = n]
  <2>3. /\ g \in ForFrameType /\ g.at = "for" /\ g.list = Top.list /\ g.fn = Top.fn
        /\ g.pos = k /\ g.end = n
    BY <1>2, <1>3 DEF ForFrameType
  <2>4. f = g
    BY <2>2, Zenon
  <2> HIDE DEF f, g
  <2> QED
    BY <2>1, <2>3, <2>4
<1>5. f \in FrameType
  BY <1>4 DEF FrameType
<1>6. InPlace(f) /\ ResultsNew(f)
  <2> HIDE DEF f
  <2>1. f.end <= Len(loaded[f.list])
    BY <1>3, <1>4
  <2> QED
    BY <1>1, <1>2, <1>4, <2>1 DEF InPlace, ResultsNew
<1>7. stack' \in Seq(FrameType) /\ Shape' /\ Frames' /\ Lists'
  <2> HIDE DEF f
  <2> QED
    BY <1>1, <1>4, <1>5, <1>6, Facts, StepAdvance
<1>8. TypeOK' /\ ~undefined'
  BY <1>7, Facts DEF TypeOK, ForBegin, hostVars, listVars, historyVars
<1> QED
  BY <1>7, <1>8 DEF IInv

LEMMA ForEndKeeps == IInv /\ ForEnd => IInv'
<1> SUFFICES ASSUME IInv, ForEnd PROVE IInv'
  OBVIOUS
<1>1. KeepsLists /\ stack # <<>> /\ Top.at = "for" /\ stack' = Tail(stack)
  BY DEF ForEnd, KeepsLists, historyVars, TornDown, TopIs, Pop
<1>2. stack' \in Seq(FrameType) /\ Shape' /\ Frames' /\ Lists'
  BY <1>1, Facts, StepPop
<1>3. Top.list \in OpenedPhases
  BY <1>1, Facts, StackTop, FrameKinds, ForFrames
<1>4. opened' \subseteq OpenedPhases
  BY <1>3, Facts DEF ForEnd, TypeOK
<1>5. TypeOK' /\ ~undefined'
  BY <1>2, <1>4, Facts DEF TypeOK, ForEnd, hostVars, historyVars
<1> QED
  BY <1>2, <1>5 DEF IInv

(* A place that a frame holds is in its vector.                            *)
LEMMA Held ==
  ASSUME IInv, NEW list \in OpenedPhases, NEW pos \in 1..Len(loaded[list])
  PROVE  ~Stale(list, pos) /\ loaded[list][pos] \in LoadResult /\ loaded[list][pos].mod \in Mod
<1>1. loaded[list] \in Seq(LoadResult) /\ Len(loaded[list]) \in Nat
  BY Facts
<1>2. loaded[list][pos] \in LoadResult
  BY <1>1
<1> QED
  BY <1>1, <1>2 DEF Stale, LoadResult

LEMMA ForNextKeeps == IInv /\ ForNext => IInv'
<1> SUFFICES ASSUME IInv, ForNext PROVE IInv'
  OBVIOUS
<1> DEFINE result == loaded[Top.list][Top.pos]
           f == [Top EXCEPT !.pos = @ + 1]
<1>1. stack # <<>> /\ Top.at = "for" /\ Top.pos \in 1..Top.end
  BY DEF ForNext, TopIs
<1>2. Top \in FrameType /\ Top \in ForFrameType /\ InPlace(Top)
  BY <1>1, Facts, StackTop, FrameKinds
<1>3. Top.list \in OpenedPhases /\ Top.fn \in Flags \union {"close"} /\ Top.pos \in Nat /\ Top.end \in Nat
  BY <1>2, ForFrames
<1>4. Top.pos \in 1..Len(loaded[Top.list])
  <2>1. Top.end <= Len(loaded[Top.list])
    BY <1>1, <1>2, <1>3 DEF InPlace
  <2>2. Len(loaded[Top.list]) \in Nat
    BY <1>3, Facts
  <2> QED
    BY <1>1, <1>3, <2>1, <2>2
<1>5. ~Stale(Top.list, Top.pos) /\ result.mod \in Mod
  BY <1>3, <1>4, Held
<1>6. /\ f \in ForFrameType /\ f.at = "for" /\ f.list = Top.list /\ f.fn = Top.fn
      /\ f.pos = Top.pos + 1 /\ f.end = Top.end
  BY <1>2, ForFramesNext
<1>7. KeepsLists /\ UNCHANGED <<hostVars, listVars, undefined, apiCalls, historyVars>>
  BY <1>5 DEF ForNext, KeepsLists, listVars, historyVars, TornDown
<1>8. f \in FrameType
  BY <1>6 DEF FrameType
<1>9. InPlace(f) /\ ResultsNew(f)
  <2> HIDE DEF f
  <2>1. f.pos # 0 /\ f.end <= Len(loaded[f.list])
    BY <1>1, <1>2, <1>3, <1>6 DEF InPlace
  <2> QED
    BY <1>1, <1>2, <1>6, <2>1 DEF InPlace, ResultsNew
<1>10. stack' \in Seq(FrameType) /\ Shape' /\ Frames' /\ Lists'
  <2>1. CASE stack' = <<f>> \o Tail(stack)
    <3> HIDE DEF f
    <3> QED
      BY <1>1, <1>6, <1>7, <1>8, <1>9, <2>1, Facts, StepAdvance
  <2>2. CASE result.ok /\ Top.fn = "close" /\ stack' = <<CloseFrame(Top.list, Top.pos, "close_all"), f>> \o Tail(stack)
    <3> DEFINE g == CloseFrame(Top.list, Top.pos, "close_all")
    <3>1. g \in FrameType
      BY <1>3, CloseFramesMade
    <3>2. g.at = "close" /\ g.by = "close_all" /\ g.list = Top.list /\ g.pos = Top.pos
      BY DEF CloseFrame
    <3> HIDE DEF f, g
    <3>3. InPlace(g)
      BY <1>4, <2>2, <3>2 DEF InPlace, Holds
    <3>4. TornDown
      BY <1>1, <1>2, <2>2 DEF InPlace
    <3> QED
      BY <1>1, <1>6, <1>7, <1>8, <1>9, <2>2, <3>1, <3>2, <3>3, <3>4, Facts, StepCall DEF g
  <2>3. CASE /\ result.ok /\ Top.fn # "close"
             /\ stack' = <<CallFrame(Top.fn, result.mod, Top.list, Top.pos), f>> \o Tail(stack)
    <3> DEFINE g == CallFrame(Top.fn, result.mod, Top.list, Top.pos)
    <3>0. Top.fn \in Callback /\ Top.fn # "ctor"
      BY <1>3, <2>3 DEF Flags, Callback
    <3>1. g \in FrameType
      BY <1>3, <1>5, <3>0, CallFramesMade
    <3>2. g.at = "call" /\ g.fn = Top.fn /\ g.mod = result.mod /\ g.list = Top.list /\ g.pos = Top.pos
      BY DEF CallFrame
    <3> HIDE DEF f, g
    <3>3. InPlace(g)
      BY <1>4, <2>3, <3>2 DEF InPlace, Holds
    <3> QED
      BY <1>1, <1>6, <1>7, <1>8, <1>9, <2>3, <3>0, <3>1, <3>2, <3>3, Facts, StepCall DEF g
  <2> QED
    BY <1>5, <2>1, <2>2, <2>3 DEF ForNext, CallFrom, Advance
<1>11. TypeOK' /\ ~undefined'
  BY <1>7, <1>10, Facts DEF TypeOK, hostVars, listVars, historyVars
<1> QED
  BY <1>10, <1>11 DEF IInv

-----------------------------------------------------------------------------
(* The C API.                                                              *)

(* get_mod finds an object that was opened.                                *)
LEMMA FoundHolds ==
  ASSUME IInv, NEW request \in Requests, NEW list \in OpenedPhases,
         NEW pos \in DOMAIN loaded[list], Found(list, pos, request)
  PROVE  pos \in 1..Len(loaded[list]) /\ pos \in Nat /\ Holds(list, pos) /\ loaded[list][pos].mod \in Mod
<1>1. loaded[list] \in Seq(LoadResult)
  BY Facts
<1>2. pos \in 1..Len(loaded[list]) /\ pos \in Nat
  BY <1>1
<1>3. pos \in Matches(list, request)
  BY DEF Found
<1> QED
  BY <1>2, <1>3, Held DEF Matches, Holds

LEMMA RequireKeeps == ASSUME NEW request \in Requests PROVE IInv /\ modloader_require_mod(request) => IInv'
<1> SUFFICES ASSUME IInv, modloader_require_mod(request) PROVE IInv'
  OBVIOUS
<1>0. PICK list \in {"Mods", "EarlyMods"} : \E pos \in DOMAIN loaded[list] :
        /\ Found(list, pos, request)
        /\ stack' = <<RequireFrame(list, pos, loaded[list][pos].mod)>> \o stack
  BY DEF modloader_require_mod, Push
<1>1. PICK pos \in DOMAIN loaded[list] :
        /\ Found(list, pos, request)
        /\ stack' = <<RequireFrame(list, pos, loaded[list][pos].mod)>> \o stack
  BY <1>0
<1>2. list \in OpenedPhases
  BY DEF OpenedPhases
<1>3. pos \in Nat /\ Holds(list, pos) /\ loaded[list][pos].mod \in Mod
  BY <1>1, <1>2, FoundHolds
<1> DEFINE f == RequireFrame(list, pos, loaded[list][pos].mod)
<1>4. f \in FrameType
  BY <1>2, <1>3, RequireFramesMade
<1>5. f.at = "require" /\ f.list = list /\ f.pos = pos /\ f.mod = loaded[list][pos].mod
  BY DEF RequireFrame
<1> HIDE DEF f
<1>6. InPlace(f)
  BY <1>3, <1>5 DEF InPlace
<1>7. KeepsLists
  BY DEF modloader_require_mod, KeepsLists, listVars, historyVars, TornDown
<1>8. stack' \in Seq(FrameType) /\ Shape' /\ Frames' /\ Lists'
  BY <1>1, <1>4, <1>5, <1>6, <1>7, Facts, StepPush DEF f
<1>9. apiCalls' \in 0..MaxApi
  BY Facts, HostAssumption DEF modloader_require_mod, MayCall, TypeOK
<1>10. TypeOK' /\ ~undefined'
  BY <1>8, <1>9, Facts DEF TypeOK, modloader_require_mod, hostVars, listVars, historyVars
<1> QED
  BY <1>8, <1>10 DEF IInv

LEMMA ForceUnloadKeeps ==
  ASSUME CallbacksDoNotUnload, NEW request \in Requests
  PROVE  IInv /\ modloader_force_unload(request) => IInv'
<1> SUFFICES ASSUME IInv, modloader_force_unload(request) PROVE IInv'
  OBVIOUS
<1>0. PICK list \in {"Mods", "EarlyMods"} : \E pos \in DOMAIN loaded[list] :
        /\ Found(list, pos, request)
        /\ stack' = <<CloseFrame(list, pos, "force_unload")>> \o stack
  BY DEF modloader_force_unload, Push
<1>1. PICK pos \in DOMAIN loaded[list] :
        /\ Found(list, pos, request)
        /\ stack' = <<CloseFrame(list, pos, "force_unload")>> \o stack
  BY <1>0
<1>2. list \in OpenedPhases
  BY DEF OpenedPhases
<1>3. pos \in Nat /\ Holds(list, pos)
  BY <1>1, <1>2, FoundHolds
<1> DEFINE f == CloseFrame(list, pos, "force_unload")
<1>4. f \in FrameType
  BY <1>2, <1>3, CloseFramesMade
<1>5. f.at = "close" /\ f.by = "force_unload" /\ f.list = list /\ f.pos = pos
  BY DEF CloseFrame
<1>6. stack = <<>>
  <2> SUFFICES ASSUME stack # <<>> PROVE FALSE
    OBVIOUS
  <2>1. Top.at = "call" /\ <<Top.fn, "force_unload">> \in Reentrant
    BY DEF modloader_force_unload, MayCall
  <2>2. Top.fn \in Callback
    BY <2>1, Facts, StackTop, FrameKinds, CallFrames
  <2> QED
    BY <2>1, <2>2 DEF CallbacksDoNotUnload
<1> HIDE DEF f
<1>7. InPlace(f)
  BY <1>3, <1>5 DEF InPlace
<1>8. KeepsLists
  BY DEF modloader_force_unload, KeepsLists, listVars, historyVars, TornDown
<1>9. stack' \in Seq(FrameType) /\ Shape' /\ Frames' /\ Lists'
  BY <1>1, <1>4, <1>5, <1>6, <1>7, <1>8, Facts, StepPush DEF f
<1>10. apiCalls' \in 0..MaxApi
  BY Facts, HostAssumption DEF modloader_force_unload, MayCall, TypeOK
<1>11. TypeOK' /\ ~undefined'
  BY <1>9, <1>10, Facts DEF TypeOK, modloader_force_unload, hostVars, listVars, historyVars
<1> QED
  BY <1>9, <1>11 DEF IInv

LEMMA RequireNextKeeps == IInv /\ RequireNext => IInv'
<1> SUFFICES ASSUME IInv, RequireNext PROVE IInv'
  OBVIOUS
<1> DEFINE result == loaded[Top.list][Top.pos]
           fn == Head(Top.todo)
           f == [Top EXCEPT !.todo = Tail(@)]
<1>1. stack # <<>> /\ Top.at = "require" /\ Top.todo # <<>>
  BY DEF RequireNext, TopIs
<1>2. Top \in FrameType /\ Top \in RequireFrameType /\ InPlace(Top)
  BY <1>1, Facts, StackTop, FrameKinds
<1>3. Top.list \in OpenedPhases /\ Top.pos \in Nat /\ Top.mod \in Mod /\ Top.todo \in Seq(Flags)
  BY <1>2, RequireFrames
<1>4. Top.pos \in 1..Len(loaded[Top.list]) /\ result.ok /\ result.mod = Top.mod
  BY <1>1, <1>2 DEF InPlace, Holds
<1>5. ~Stale(Top.list, Top.pos) /\ result.mod \in Mod
  BY <1>3, <1>4, Held
<1>6. fn \in Flags
  BY <1>1, <1>3
<1>7. /\ f \in RequireFrameType /\ f.at = "require" /\ f.list = Top.list /\ f.pos = Top.pos
      /\ f.mod = Top.mod
  BY <1>1, <1>2, RequireFrames
<1>8. f \in FrameType
  BY <1>7 DEF FrameType
<1>9. KeepsLists /\ UNCHANGED <<hostVars, listVars, undefined, apiCalls, historyVars>>
  BY <1>5 DEF RequireNext, KeepsLists, listVars, historyVars, TornDown
<1>10. InPlace(f) /\ ResultsNew(f)
  <2> HIDE DEF f
  <2> QED
    BY <1>1, <1>2, <1>7 DEF InPlace, ResultsNew
<1>11. stack' \in Seq(FrameType) /\ Shape' /\ Frames' /\ Lists'
  <2>1. CASE stack' = <<f>> \o Tail(stack)
    <3> HIDE DEF f
    <3> QED
      BY <1>1, <1>7, <1>8, <1>9, <1>10, <2>1, Facts, StepAdvance
  <2>2. CASE stack' = <<CallFrame(fn, result.mod, Top.list, Top.pos), f>> \o Tail(stack)
    <3> DEFINE g == CallFrame(fn, result.mod, Top.list, Top.pos)
    <3>0. fn \in Callback /\ fn # "ctor"
      BY <1>6 DEF Flags, Callback
    <3>1. g \in FrameType
      BY <1>3, <1>5, <3>0, CallFramesMade
    <3>2. g.at = "call" /\ g.fn = fn /\ g.mod = result.mod /\ g.list = Top.list /\ g.pos = Top.pos
      BY DEF CallFrame
    <3> HIDE DEF f, g, fn
    <3>3. InPlace(g)
      BY <1>4, <3>2 DEF InPlace, Holds
    <3> QED
      BY <1>1, <1>7, <1>8, <1>9, <1>10, <2>2, <3>0, <3>1, <3>2, <3>3, Facts, StepCall DEF g
  <2>3. CASE stack' = Tail(stack)
    BY <1>1, <1>9, <2>3, Facts, StepPop
  <2> QED
    BY <1>5, <2>1, <2>2, <2>3 DEF RequireNext, CallFrom, Advance, Pop
<1>12. TypeOK' /\ ~undefined'
  BY <1>9, <1>11, Facts DEF TypeOK, hostVars, listVars, historyVars
<1> QED
  BY <1>11, <1>12 DEF IInv

LEMMA RequireEndKeeps == IInv /\ RequireEnd => IInv'
<1> SUFFICES ASSUME IInv, RequireEnd PROVE IInv'
  OBVIOUS
<1>1. KeepsLists /\ stack # <<>> /\ stack' = Tail(stack)
  BY DEF RequireEnd, KeepsLists, listVars, historyVars, TornDown, TopIs, Pop
<1>2. stack' \in Seq(FrameType) /\ Shape' /\ Frames' /\ Lists'
  BY <1>1, Facts, StepPop
<1>3. TypeOK' /\ ~undefined'
  BY <1>2, Facts DEF TypeOK, RequireEnd, hostVars, listVars, historyVars
<1> QED
  BY <1>2, <1>3 DEF IInv

LEMMA CloseCallKeeps == IInv /\ CloseCall => IInv'
<1> SUFFICES ASSUME IInv, CloseCall PROVE IInv'
  OBVIOUS
<1> DEFINE m == loaded[Top.list][Top.pos].mod
           f == [Top EXCEPT !.called = TRUE]
<1>1. stack # <<>> /\ Top.at = "close"
  BY DEF CloseCall, TopIs
<1>2. Top \in FrameType /\ Top \in CloseFrameType /\ InPlace(Top)
  BY <1>1, Facts, StackTop, FrameKinds
<1>3. Top.list \in OpenedPhases /\ Top.pos \in Nat
  BY <1>2, CloseFrames
<1>4. Holds(Top.list, Top.pos)
  BY <1>1, <1>2 DEF InPlace
<1>5. ~Stale(Top.list, Top.pos) /\ m \in Mod
  BY <1>3, <1>4, Held DEF Holds
<1>6. /\ f \in CloseFrameType /\ f.at = "close" /\ f.list = Top.list /\ f.pos = Top.pos
      /\ f.by = Top.by
  BY <1>2, CloseFrames
<1>7. f \in FrameType
  BY <1>6 DEF FrameType
<1>8. KeepsLists /\ UNCHANGED <<hostVars, listVars, undefined, apiCalls, historyVars>>
  BY <1>5 DEF CloseCall, KeepsLists, listVars, historyVars, TornDown
<1>9. InPlace(f) /\ ResultsNew(f)
  <2> HIDE DEF f
  <2> QED
    BY <1>4, <1>6 DEF InPlace, ResultsNew
<1>10. stack' \in Seq(FrameType) /\ Shape' /\ Frames' /\ Lists'
  <2>1. CASE stack' = <<f>> \o Tail(stack)
    <3> HIDE DEF f
    <3> QED
      BY <1>1, <1>6, <1>7, <1>8, <1>9, <2>1, Facts, StepAdvance
  <2>2. CASE stack' = <<CallFrame("unload", m, Top.list, Top.pos), f>> \o Tail(stack)
    <3> DEFINE g == CallFrame("unload", m, Top.list, Top.pos)
    <3>1. g \in FrameType
      BY <1>3, <1>5, CallFramesMade DEF Callback
    <3>2. g.at = "call" /\ g.fn = "unload" /\ g.mod = m /\ g.list = Top.list /\ g.pos = Top.pos
      BY DEF CallFrame
    <3> HIDE DEF f, g
    <3>3. InPlace(g)
      BY <1>4, <3>2 DEF InPlace, Holds
    <3> QED
      BY <1>1, <1>6, <1>7, <1>8, <1>9, <2>2, <3>1, <3>2, <3>3, Facts, StepCall DEF g
  <2> QED
    BY <1>5, <2>1, <2>2 DEF CloseCall, CallFrom, Advance
<1>11. TypeOK' /\ ~undefined'
  BY <1>8, <1>10, Facts DEF TypeOK, hostVars, listVars, historyVars
<1> QED
  BY <1>10, <1>11 DEF IInv

-----------------------------------------------------------------------------
(* Opening an object.                                                      *)

(* One frame of the base, and below it what has not begun.                 *)
LEMMA ShapeBase ==
  ASSUME Len(stack') \in Nat, Base(stack'[1]), \A i \in 2..Len(stack') : Fresh(stack'[i])
  PROVE  Shape'
<1>1. \A i \in 1..Len(stack') : i = 1 \/ i \in 2..Len(stack')
  OBVIOUS
<1>2. \A i \in 1..Len(stack') : stack'[i].at \notin {"call", "close"}
  BY <1>1 DEF Base, Fresh
<1>3. \A i, j \in 1..Len(stack') : i < j => j \in 2..Len(stack')
  OBVIOUS
<1>4. BaseAboveFresh'
  <2> SUFFICES ASSUME NEW i \in 1..Len(stack'), NEW j \in 1..Len(stack'), i < j
               PROVE  Fresh(stack'[j])
    BY DEF BaseAboveFresh, Base, Fresh
  <2> QED
    BY <1>3
<1>5. CallsHaveCallers' /\ ErasesAlone'
  BY <1>2 DEF CallsHaveCallers, ErasesAlone
<1> QED
  BY <1>4, <1>5 DEF Shape

Begun(f) == f.begun

(* loadMods has a result for an object it had not come to before, or for a  *)
(* candidate that was one of its own dependencies.                         *)
LEMMA StepResult ==
  ASSUME Frames, Lists,
         NEW f \in OpenFrameType, ResultsNew(f), f.at = "open", f.loading,
         NEW m \in Mod, m = Opening(f), f.deps # <<>> => m \notin skip_load,
         NEW r \in LoadResult, r.mod = m, r.as = RoleOf(f),
         r.ok => r = LoadedMod(m, r.as) /\ Handle(r) \in handles',
         returned'[m] = returned[m] \union (IF r.ok THEN {"ctor"} ELSE {}),
         \A n \in Mod : n # m => returned'[n] = returned[n],
         skip_load' = skip_load \union {m}, handles \subseteq handles',
         UNCHANGED loaded, TornDown => TornDown',
         loaded \in [OpenedPhases -> Seq(LoadResult)],
         NEW g \in FrameType, g.at = "open", Begun(g), g.results = Append(f.results, r),
         g.loading => f.deps # <<>> /\ g.mods = f.mods /\ g.deps = Tail(f.deps),
         NEW rest \in Seq(FrameType), stack' = <<g>> \o rest,
         \A i \in 1..Len(rest) :
           /\ Fresh(rest[i])
           /\ rest[i].at = "open" => rest[i].results = <<>>
           /\ rest[i].at = "for" /\ rest[i].fn = "close" => TornDown
  PROVE  stack' \in Seq(FrameType) /\ Shape' /\ Frames' /\ Lists'
<1>1. /\ stack' \in Seq(FrameType) /\ Len(rest) \in Nat /\ Len(stack') = Len(rest) + 1
      /\ stack'[1] = g /\ \A i \in 2..(Len(rest) + 1) : stack'[i] = rest[i - 1]
  BY Pushed
<1>2. \A i \in 2..Len(stack') : i - 1 \in 1..Len(rest) /\ stack'[i] = rest[i - 1]
  BY <1>1
<1>3. Shape'
  <2>1. Base(stack'[1])
    BY <1>1 DEF Base
  <2> QED
    BY <1>1, <1>2, <2>1, ShapeBase
<1>4. f.results \in Seq(LoadResult) /\ Len(f.results) \in Nat
  <2>1. f.results \in Seq(LoadResult)
    BY OpenFrames, Zenon
  <2> QED
    BY <2>1
<1>5. \A i \in 1..Len(f.results) :
        /\ f.results[i] \in LoadResult /\ f.results[i].mod \in skip_load
        /\ JustOpened(f.results[i]) /\ Unlisted(f.results[i].mod)
  <2>1. \A i \in 1..Len(f.results) : f.results[i] \in LoadResult
    BY <1>4
  <2> QED
    BY <2>1, Zenon DEF ResultsNew
(* What is known of the object.                                            *)
<1>6. /\ returned[m] \subseteq {"ctor"} /\ Unlisted(m)
      /\ \A i \in 1..Len(f.results) :
           f.results[i].mod = m => m \in NeedsItself /\ f.results[i].as # r.as
  <2>1. CASE f.deps # <<>>
    <3>1. m \notin skip_load
      BY <2>1
    <3>2. returned[m] = {}
      BY <3>1 DEF Lists, Unknown
    <3>3. Unlisted(m)
      BY <3>1, Zenon DEF Lists, ListedOpened, Unlisted
    <3> QED
      BY <1>5, <3>1, <3>2, <3>3
  <2>2. CASE f.deps = <<>>
    <3>1. m = Head(f.mods) /\ r.as = "candidate"
      BY <2>2 DEF Opening, RoleOf
    <3>2. LoadsNew(f)
      BY DEF ResultsNew
    <3> QED
      BY <3>1, <3>2 DEF LoadsNew
  <2> QED
    BY <2>1, <2>2
<1>7. \A l \in OpenedPhases : \A i \in 1..Len(loaded[l]) :
        /\ loaded[l][i] \in LoadResult /\ loaded[l][i].mod # m /\ loaded[l][i].mod \in Mod
        /\ returned'[loaded[l][i].mod] = returned[loaded[l][i].mod]
  <2>1. \A l \in OpenedPhases : \A i \in 1..Len(loaded[l]) : loaded[l][i] \in LoadResult
    OBVIOUS
  <2>2. \A l \in OpenedPhases : \A i \in 1..Len(loaded[l]) : loaded[l][i].mod \in Mod
    BY <2>1 DEF LoadResult
  <2> QED
    BY <1>6, <2>1, <2>2 DEF Unlisted
<1>8. Lists'
  <2>1. ListedOnce'
    BY DEF Lists, ListedOnce, Twice
  <2>2. ListedOpened'
    BY <1>7 DEF Lists, ListedOpened
  <2>3. FlagsTruthful'
    <3> SUFFICES ASSUME NEW l \in OpenedPhases, NEW i \in DOMAIN loaded[l], loaded[l][i].ok
                 PROVE  LET q == loaded[l][i] IN
                        /\ q.called \subseteq returned'[q.mod] \intersect Flags
                        /\ q.mod \notin NeedsItself =>
                             returned'[q.mod] \intersect Flags \subseteq q.called
                        /\ q.info = IF "setup" \in q.called THEN DeclaredInfo[q.mod]
                                                            ELSE DefaultInfo(q.mod)
      BY DEF FlagsTruthful
    <3>1. i \in 1..Len(loaded[l])
      OBVIOUS
    <3> QED
      BY <3>1, <1>7 DEF Lists, FlagsTruthful
  <2>4. Unknown'
    BY DEF Lists, Unknown
  <2> QED
    BY <2>1, <2>2, <2>3, <2>4 DEF Lists
<1>9. /\ Len(g.results) = Len(f.results) + 1
      /\ \A i \in 1..Len(f.results) : g.results[i] = f.results[i]
      /\ g.results[Len(f.results) + 1] = r
      /\ \A i \in 1..Len(g.results) : i \in 1..Len(f.results) \/ i = Len(f.results) + 1
  BY <1>4
<1>10. \A i, j \in 1..Len(g.results) :
         g.results[i].mod = g.results[j].mod => i = j \/ Twice(g.results[i], g.results[j])
  <2>1. \A i, j \in 1..Len(f.results) :
          f.results[i].mod = f.results[j].mod => i = j \/ Twice(f.results[i], f.results[j])
    BY Zenon DEF ResultsNew
  <2>2. \A i \in 1..Len(f.results) :
          f.results[i].mod = r.mod => Twice(f.results[i], r) /\ Twice(r, f.results[i])
    BY <1>6 DEF Twice
  <2> SUFFICES ASSUME NEW i \in 1..Len(g.results), NEW j \in 1..Len(g.results),
                      g.results[i].mod = g.results[j].mod, i # j
               PROVE  Twice(g.results[i], g.results[j])
    OBVIOUS
  <2>3. CASE i \in 1..Len(f.results) /\ j \in 1..Len(f.results)
    <3>1. g.results[i] = f.results[i] /\ g.results[j] = f.results[j]
      BY <1>9, <2>3
    <3> QED
      BY <2>1, <2>3, <3>1
  <2>4. CASE i \in 1..Len(f.results) /\ j = Len(f.results) + 1
    <3>1. g.results[i] = f.results[i] /\ g.results[j] = r
      BY <1>9, <2>4
    <3> QED
      BY <2>2, <2>4, <3>1
  <2>5. CASE i = Len(f.results) + 1 /\ j \in 1..Len(f.results)
    <3>1. g.results[i] = r /\ g.results[j] = f.results[j]
      BY <1>9, <2>5
    <3> QED
      BY <2>2, <2>5, <3>1
  <2> QED
    BY <1>9, <2>3, <2>4, <2>5
<1>11. \A i \in 1..Len(g.results) :
         /\ g.results[i].mod \in skip_load' /\ JustOpened(g.results[i])'
         /\ Unlisted(g.results[i].mod)'
  <2>1. ASSUME NEW q \in LoadResult, JustOpened(q) PROVE JustOpened(q)'
    <3>1. q.mod \in Mod
      BY DEF LoadResult
    <3>2. q.ok => returned'[q.mod] = {"ctor"}
      BY <1>6, <2>1, <3>1 DEF JustOpened
    <3> QED
      BY <2>1, <3>2 DEF JustOpened
  <2>2. JustOpened(r)'
    <3>1. r.ok => returned'[m] = {"ctor"}
      BY <1>6
    <3> QED
      BY <3>1 DEF JustOpened
  <2>3. \A n : Unlisted(n) => Unlisted(n)'
    BY DEF Unlisted
  <2> SUFFICES ASSUME NEW i \in 1..Len(g.results)
               PROVE  /\ g.results[i].mod \in skip_load' /\ JustOpened(g.results[i])'
                      /\ Unlisted(g.results[i].mod)'
    OBVIOUS
  <2>4. CASE i \in 1..Len(f.results)
    <3> DEFINE q == f.results[i]
    <3>1. g.results[i] = q /\ q \in LoadResult /\ q.mod \in skip_load' /\ JustOpened(q) /\ Unlisted(q.mod)
      BY <1>5, <1>9, <2>4
    <3> HIDE DEF q
    <3>2. JustOpened(q)' /\ Unlisted(q.mod)'
      BY <2>1, <2>3, <3>1
    <3> QED
      BY <3>1, <3>2, Zenon DEF JustOpened, Unlisted
  <2>5. CASE i = Len(f.results) + 1
    <3>1. g.results[i] = r /\ r.mod \in skip_load' /\ Unlisted(r.mod)'
      BY <1>6, <1>9, <2>3, <2>5
    <3> QED
      BY <2>2, <3>1, Zenon DEF JustOpened, Unlisted
  <2> QED
    BY <1>9, <2>4, <2>5
<1>12. g.loading => LoadsNew(g)'
  <2> SUFFICES ASSUME g.loading PROVE LoadsNew(g)'
    OBVIOUS
  <2> DEFINE h == Head(f.mods)
  <2>1. f.deps # <<>> /\ g.mods = f.mods /\ g.deps = Tail(f.deps) /\ LoadsNew(f)
    BY DEF ResultsNew
  <2>2. f.deps \in Seq(Mod) /\ f.mods \in Seq(Mod)
    BY OpenFrames
  <2>3. f.mods # <<>> /\ h \in Mod
    BY <2>1, <2>2 DEF LoadsNew
  <2>4. m = f.deps[1] /\ 1 \in 1..Len(f.deps) /\ r.as = "dependency"
    BY <2>1, <2>2 DEF Opening, RoleOf
  <2>5. \A i \in 1..Len(g.deps) : g.deps[i] \in Range(Sorted[h])
    <3>1. \A i \in 1..Len(g.deps) : i + 1 \in 1..Len(f.deps) /\ g.deps[i] = f.deps[i + 1]
      BY <2>1, <2>2
    <3> QED
      BY <2>1, <3>1 DEF LoadsNew
  <2>6. Unlisted(h)'
    BY <2>1 DEF LoadsNew, Unlisted
  <2>7. returned'[h] \subseteq {"ctor"}
    BY <1>6, <2>1, <2>3 DEF LoadsNew
  <2>8. "ctor" \in returned'[h] => IsOpen(h)'
    <3>1. "ctor" \in returned[h] => IsOpen(h)'
      BY <2>1 DEF LoadsNew, IsOpen
    <3>2. CASE h = m /\ r.ok
      <4>1. <<h, "dependency">> \in handles'
        BY <2>4, <3>2 DEF Handle
      <4> QED
        BY <4>1 DEF IsOpen, Role
    <3> QED
      BY <2>3, <3>1, <3>2
  <2>9. \A i \in 1..Len(g.results) :
          g.results[i].mod = h => h \in NeedsItself /\ g.results[i].as = "dependency"
    <3>1. m = h => h \in NeedsItself
      <4>1. m \in Range(Sorted[h])
        BY <2>1, <2>4 DEF LoadsNew
      <4> QED
        BY <2>3, <4>1, Zenon DEF NeedsItself
    <3> SUFFICES ASSUME NEW i \in 1..Len(g.results), g.results[i].mod = h
                 PROVE  h \in NeedsItself /\ g.results[i].as = "dependency"
      OBVIOUS
    <3>2. CASE i \in 1..Len(f.results)
      BY <1>9, <2>1, <3>2 DEF LoadsNew
    <3>3. CASE i = Len(f.results) + 1
      BY <1>9, <2>4, <3>1, <3>3
    <3> QED
      BY <1>9, <3>2, <3>3
  <2> QED
    BY <2>1, <2>3, <2>5, <2>6, <2>7, <2>8, <2>9 DEF LoadsNew
<1>13. ResultsNew(g)'
  BY <1>10, <1>11, <1>12, Zenon DEF ResultsNew, Begun
<1>14. Frames'
  <2>1. ASSUME NEW i \in 2..Len(stack') PROVE InPlace(stack[i])' /\ ResultsNew(stack[i])'
    <3>1. PICK q : /\ stack'[i] = q /\ Fresh(q)
                   /\ q.at = "open" => q.results = <<>>
                   /\ q.at = "for" /\ q.fn = "close" => TornDown
      BY <1>2
    <3>2. InPlace(stack[i])'
      BY <3>1 DEF Fresh, InPlace
    <3>3. \A j \in 1..Len(<<>>) : FALSE
      OBVIOUS
    <3>4. ResultsNew(stack[i])'
      BY <3>1, <3>3 DEF Fresh, ResultsNew
    <3> QED
      BY <3>2, <3>4
  <2>2. InPlace(stack[1])' /\ ResultsNew(stack[1])'
    <3>1. stack'[1] = g
      BY <1>1
    <3>2. InPlace(g)'
      BY DEF InPlace
    <3> QED
      BY <1>13, <3>1, <3>2, FrameOf
  <2>3. \A i \in 1..Len(stack') : i = 1 \/ i \in 2..Len(stack')
    BY <1>1
  <2> QED
    BY <2>1, <2>2, <2>3 DEF Frames
<1> QED
  BY <1>1, <1>3, <1>8, <1>14

LEMMA ResultsMade ==
  ASSUME NEW m \in Mod, NEW as \in Role
  PROVE  LET r1 == LoadedMod(m, as)
             r2 == FailedMod(m, as)
         IN /\ r1 \in LoadResult /\ r1.mod = m /\ r1.as = as /\ r1.ok
            /\ r2 \in LoadResult /\ r2.mod = m /\ r2.as = as /\ ~r2.ok
<1>1. DefaultInfo(m) \in ModInfo
  BY ModAssumption DEF DefaultInfo, ModInfo
<1> QED
  BY <1>1 DEF LoadedMod, FailedMod, LoadResult

LEMMA OpenNextKeeps == IInv /\ OpenNext => IInv'
<1> SUFFICES ASSUME IInv, OpenNext PROVE IInv'
  OBVIOUS
<1>1. /\ stack # <<>> /\ Top.at = "open" /\ Begun(Top)
      /\ UNCHANGED <<hostVars, current_load_phase, opened, loaded, undefined, apiCalls, historyVars>>
  <2>1. Top.loading => Begun(Top)
    BY Facts, StackTop DEF OpenNext, NextMod, SkipDependency, OpenLibrary, TopIs, ResultsNew, Begun
  <2> QED
    BY <2>1 DEF OpenNext, NextMod, SkipDependency, OpenLibrary, TopIs, Begun, listVars
<1>2. Top \in FrameType /\ Top \in OpenFrameType /\ ResultsNew(Top) /\ Base(Top) /\ InPlace(Top)
  BY <1>1, Facts, StackTop, FrameKinds DEF Base
<1>3. Top.mods \in Seq(Mod) /\ Top.deps \in Seq(Mod) /\ Top.list \in OpenedPhases
  BY <1>2, OpenFrames
<1>4. UNCHANGED <<loaded, handles, returned>> /\ (TornDown => TornDown')
  BY <1>1 DEF historyVars, TornDown
<1>5. stack' \in Seq(FrameType) /\ Shape' /\ Frames' /\ Lists' /\ skip_load' \subseteq Mod
  <2>1. ASSUME NEW g \in OpenFrameType, g.at = "open", ResultsNew(g),
               stack' = <<g>> \o Tail(stack), skip_load' = skip_load
        PROVE  stack' \in Seq(FrameType) /\ Shape' /\ Frames' /\ Lists' /\ skip_load' \subseteq Mod
    <3>1. g \in FrameType
      BY DEF FrameType
    <3>2. InPlace(g)
      BY <2>1 DEF InPlace
    <3>3. KeepsLists
      BY <1>4, <2>1 DEF KeepsLists
    <3> QED
      BY <1>1, <2>1, <3>1, <3>2, <3>3, Facts, StepAdvance
  <2>2. CASE NextMod
    <3> DEFINE m == Head(Top.mods)
    <3>1. Top.mods # <<>> /\ skip_load' = skip_load /\ m \in Mod
      BY <1>3, <2>2 DEF NextMod, listVars
    <3>2. CASE m \in skip_load /\ stack' = <<[Top EXCEPT !.mods = Tail(@)]>> \o Tail(stack)
      <4> DEFINE g == [Top EXCEPT !.mods = Tail(@)]
      <4>1. g \in OpenFrameType /\ g.at = "open" /\ g.begun /\ g.results = Top.results /\ ~g.loading
        BY <1>1, <1>2, <2>2, <3>1, OpenFramesNext DEF NextMod, Begun
      <4> HIDE DEF g
      <4>2. ResultsNew(g)
        BY <1>1, <1>2, <4>1 DEF ResultsNew
      <4>3. stack' = <<g>> \o Tail(stack)
        BY <3>2 DEF g
      <4> QED
        BY <2>1, <3>1, <4>1, <4>2, <4>3
    <3>3. CASE /\ m \notin skip_load
               /\ stack' = <<[Top EXCEPT !.loading = TRUE, !.deps = Sorted[m]]>> \o Tail(stack)
      <4> DEFINE g == [Top EXCEPT !.loading = TRUE, !.deps = Sorted[m]]
      <4>1. Sorted[m] \in Seq(Mod)
        BY <3>1, ModAssumption
      <4>2. /\ g \in OpenFrameType /\ g.at = "open" /\ g.begun /\ g.results = Top.results
            /\ g.loading /\ g.mods = Top.mods /\ g.deps = Sorted[m]
        BY <1>1, <1>2, <4>1, OpenFramesNext DEF Begun
      <4>3. stack' = <<g>> \o Tail(stack)
        BY <3>3
      <4> HIDE DEF g
      <4>4. \A i \in 1..Len(g.deps) : g.deps[i] \in Range(Sorted[m])
        BY <4>1, <4>2 DEF Range
      <4>5. Unlisted(m)
        BY <3>3, Facts, Zenon DEF Lists, ListedOpened, Unlisted
      <4>6. returned[m] = {}
        BY <3>1, <3>3, Facts DEF Lists, Unknown
      <4>7. \A i \in 1..Len(g.results) : g.results[i].mod # m
        BY <1>1, <1>2, <3>3, <4>2 DEF ResultsNew
      <4>8. LoadsNew(g)
        BY <3>1, <4>2, <4>4, <4>5, <4>6, <4>7 DEF LoadsNew
      <4>9. ResultsNew(g)
        BY <1>1, <1>2, <4>2, <4>8 DEF ResultsNew
      <4> QED
        BY <2>1, <3>1, <4>2, <4>3, <4>9
    <3> QED
      BY <2>2, <3>2, <3>3 DEF NextMod, Advance
  <2>3. CASE SkipDependency
    <3> DEFINE g == [Top EXCEPT !.deps = Tail(@)]
    <3>1. Top.loading /\ Top.deps # <<>> /\ skip_load' = skip_load /\ stack' = <<g>> \o Tail(stack)
      BY <2>3 DEF SkipDependency, Advance, listVars
    <3>2. /\ g \in OpenFrameType /\ g.at = "open" /\ g.begun /\ g.results = Top.results
          /\ g.loading /\ g.mods = Top.mods /\ g.deps = Tail(Top.deps)
      <4>1. /\ g \in OpenFrameType /\ g.at = "open" /\ g.begun = Top.begun
            /\ g.results = Top.results /\ g.loading = Top.loading /\ g.mods = Top.mods
            /\ g.deps = Tail(Top.deps)
        <5>1. Top \in OpenFrameType /\ Top.deps # <<>>
          BY <1>2, <3>1
        <5> QED
          BY <5>1, OpenFramesNext, Zenon
      <4> QED
        BY <1>1, <3>1, <4>1, Zenon DEF Begun
    <3> HIDE DEF g
    <3>3. \A i \in 1..Len(g.deps) : i + 1 \in 1..Len(Top.deps) /\ g.deps[i] = Top.deps[i + 1]
      BY <1>3, <3>1, <3>2
    <3>4. LoadsNew(g)
      BY <1>1, <1>2, <3>1, <3>2, <3>3 DEF ResultsNew, LoadsNew
    <3>5. ResultsNew(g)
      BY <1>1, <1>2, <3>2, <3>4 DEF ResultsNew
    <3> QED
      BY <2>1, <3>1, <3>2, <3>5
  <2>4. CASE OpenLibrary
    <3> DEFINE m  == Opening(Top)
               as == RoleOf(Top)
    <3>1. Top.loading /\ (Top.deps # <<>> => m \notin skip_load)
      BY <2>4 DEF OpenLibrary, Opening
    <3>2. Top.mods # <<>>
      BY <1>1, <1>2, <3>1 DEF ResultsNew, LoadsNew
    <3>3. m \in Mod /\ as \in Role
      BY <1>3, <3>2 DEF Opening, RoleOf, Role
    <3>4. CASE /\ stack' = <<Recorded(Top, FailedMod(m, as))>> \o Tail(stack)
               /\ skip_load' = skip_load \union {m}
      <4> DEFINE r == FailedMod(m, as)
                 g == Recorded(Top, r)
                 rest == Tail(stack)
      <4>1. r \in LoadResult /\ r.mod = m /\ r.as = as /\ ~r.ok
        BY <3>3, ResultsMade
      <4> HIDE DEF r
      <4>2. /\ g \in OpenFrameType /\ g.at = "open" /\ Begun(g) /\ g.results = Append(Top.results, r)
            /\ g.loading => Top.deps # <<>> /\ g.mods = Top.mods /\ g.deps = Tail(Top.deps)
        BY <1>1, <1>2, <3>2, <4>1, OpenFramesResult DEF Begun
      <4>3. g \in FrameType
        BY <4>2 DEF FrameType
      <4>4. /\ rest \in Seq(FrameType)
            /\ \A i \in 1..Len(rest) :
                 /\ Fresh(rest[i])
                 /\ rest[i].at = "open" => rest[i].results = <<>>
                 /\ rest[i].at = "for" /\ rest[i].fn = "close" => TornDown
        BY <1>1, <1>2, Facts, BelowBase
      <4>5. stack' = <<g>> \o rest
        BY <3>4 DEF r
      <4>6. /\ returned'[m] = returned[m] \union (IF r.ok THEN {"ctor"} ELSE {})
            /\ \A n \in Mod : n # m => returned'[n] = returned[n]
        BY <1>4, <4>1
      <4>7. m = Opening(Top) /\ as = RoleOf(Top) /\ skip_load' = skip_load \union {m}
        BY <3>4
      <4> HIDE DEF g, rest, m, as
      <4>8. stack' \in Seq(FrameType) /\ Shape' /\ Frames' /\ Lists'
        BY <1>1, <1>2, <1>4, <3>1, <3>3, <4>1, <4>2, <4>3, <4>4, <4>5, <4>6, <4>7, Facts, StepResult
      <4> QED
        BY <3>3, <4>7, <4>8, Facts
    <3>5. CASE stack' = <<CallFrame("ctor", m, Top.list, 0), Top>> \o Tail(stack) /\ skip_load' = skip_load
      <4> DEFINE g == CallFrame("ctor", m, Top.list, 0)
      <4>1. g \in FrameType
        BY <1>3, <3>3, CallFramesMade DEF Callback
      <4>2. g.at = "call" /\ g.fn = "ctor" /\ g.mod = m /\ g.mod = Opening(Top)
        BY DEF CallFrame
      <4>3. stack' = <<g, Top>> \o Tail(stack)
        BY <3>5
      <4> HIDE DEF g, m
      <4>4. KeepsLists
        BY <1>4, <3>5 DEF KeepsLists
      <4>5. InPlace(g)
        BY <4>2 DEF InPlace
      <4>6. stack' \in Seq(FrameType) /\ Shape' /\ Frames' /\ Lists'
        BY <1>1, <1>2, <3>1, <4>1, <4>2, <4>3, <4>4, <4>5, Facts, StepCall DEF Begun
      <4> QED
        BY <3>5, <4>6, Facts
    <3> QED
      BY <2>4, <3>4, <3>5 DEF OpenLibrary, CallFrom, Advance
  <2> QED
    BY <2>2, <2>3, <2>4 DEF OpenNext
<1>6. TypeOK' /\ ~undefined'
  BY <1>1, <1>5, Facts DEF TypeOK, hostVars, historyVars
<1> QED
  BY <1>5, <1>6 DEF IInv

LEMMA ReturnCtorKeeps == IInv /\ ReturnCtor => IInv'
<1> SUFFICES ASSUME IInv, ReturnCtor PROVE IInv'
  OBVIOUS
<1> DEFINE m == Top.mod
           f == stack[2]
           as == RoleOf(f)
           r == LoadedMod(m, as)
           g == Recorded(f, r)
           rest == Tail(Tail(stack))
<1>1. /\ stack # <<>> /\ Top.at = "call" /\ Top.fn = "ctor"
      /\ stack' = <<g>> \o rest /\ skip_load' = skip_load \union {m}
      /\ returned' = [returned EXCEPT ![m] = @ \union {"ctor"}]
      /\ handles' = handles \union {<<m, as>>}
      /\ UNCHANGED <<hostVars, current_load_phase, opened, loaded, undefined, apiCalls, unloaded>>
  BY DEF ReturnCtor, TopIs
<1>2. Top = stack[1] /\ Top \in FrameType /\ Top \in CallFrameType /\ Len(stack) \in Nat
  BY <1>1, Facts, StackTop, FrameKinds
<1>3. /\ 2 \in 1..Len(stack) /\ f.at = "open" /\ Begun(f) /\ f.loading
      /\ m \in Mod /\ m = Opening(f) /\ (f.deps # <<>> => m \notin skip_load)
  <2>1. 1 \in 1..Len(stack)
    BY <1>1, <1>2, Facts
  <2>2. /\ 1 + 1 \in 1..Len(stack) /\ stack[1 + 1].at = "open" /\ stack[1 + 1].begun
        /\ stack[1 + 1].loading /\ stack[1].mod = Opening(stack[1 + 1])
        /\ stack[1 + 1].deps # <<>> => stack[1].mod \notin skip_load
    BY <1>1, <1>2, <2>1, Facts DEF Shape, CallsHaveCallers
  <2>3. 1 + 1 = 2
    OBVIOUS
  <2>4. m \in Mod
    BY <1>2, CallFrames
  <2> QED
    BY <1>2, <2>2, <2>3, <2>4, Zenon DEF Begun
<1>4. f \in FrameType /\ f \in OpenFrameType /\ ResultsNew(f) /\ f.mods # <<>>
  <2>1. f \in FrameType /\ ResultsNew(f)
    BY <1>3, Facts DEF Frames
  <2> QED
    BY <1>3, <2>1, FrameKinds DEF ResultsNew, LoadsNew
<1>5. as \in Role /\ r \in LoadResult /\ r.mod = m /\ r.as = as /\ r.ok
  <2>1. as \in Role
    BY DEF RoleOf, Role
  <2> QED
    BY <1>3, <2>1, ResultsMade
<1>6. /\ g \in OpenFrameType /\ g.at = "open" /\ Begun(g) /\ g.results = Append(f.results, r)
      /\ g.loading => f.deps # <<>> /\ g.mods = f.mods /\ g.deps = Tail(f.deps)
  <2> HIDE DEF r, f
  <2> QED
    BY <1>3, <1>4, <1>5, OpenFramesResult, Zenon DEF Begun
<1>7. g \in FrameType
  BY <1>6 DEF FrameType
<1>8. /\ rest \in Seq(FrameType) /\ Len(rest) \in Nat /\ Len(rest) = Len(stack) - 2
      /\ \A i \in 1..Len(rest) : rest[i] = stack[i + 2]
  <2>1. /\ Tail(stack) \in Seq(FrameType) /\ Len(Tail(stack)) = Len(stack) - 1
        /\ \A i \in 1..(Len(stack) - 1) : Tail(stack)[i] = stack[i + 1]
    BY <1>1, Facts, Popped
  <2>2. Tail(stack) # <<>>
    <3>1. Len(Tail(stack)) >= 1
      BY <1>2, <1>3, <2>1
    <3>2. Len(Tail(stack)) # 0 /\ Len(<<>>) = 0
      BY <2>1, <3>1
    <3> QED
      BY <3>2, Zenon
  <2>3. /\ rest \in Seq(FrameType) /\ Len(rest) = Len(Tail(stack)) - 1
        /\ \A i \in 1..(Len(Tail(stack)) - 1) : rest[i] = Tail(stack)[i + 1]
    BY <2>1, <2>2, Popped
  <2> HIDE DEF rest
  <2>4. \A i \in 1..(Len(stack) - 2) : i + 1 \in 1..(Len(stack) - 1) /\ (i + 1) + 1 = i + 2
    BY <1>2
  <2> QED
    BY <1>2, <1>3, <2>1, <2>3, <2>4
<1>9. \A i \in 1..Len(rest) :
        /\ Fresh(rest[i])
        /\ rest[i].at = "open" => rest[i].results = <<>>
        /\ rest[i].at = "for" /\ rest[i].fn = "close" => TornDown
  <2>1. \A i \in 1..Len(rest) : i + 2 \in 1..Len(stack) /\ 2 < i + 2
    BY <1>2, <1>8
  <2>2. Base(stack[2])
    BY <1>3 DEF Base
  <2>3. \A i \in 1..Len(rest) : Fresh(stack[i + 2]) /\ InPlace(stack[i + 2]) /\ ResultsNew(stack[i + 2])
    BY <1>3, <2>1, <2>2, Facts DEF Shape, BaseAboveFresh, Frames
  <2> QED
    BY <1>8, <2>3 DEF Fresh, InPlace, ResultsNew
<1>10. /\ returned'[m] = returned[m] \union (IF r.ok THEN {"ctor"} ELSE {})
       /\ \A n \in Mod : n # m => returned'[n] = returned[n]
  BY <1>1, <1>3, <1>5, Facts
<1>11. UNCHANGED loaded /\ (TornDown => TornDown') /\ handles \subseteq handles'
  BY <1>1 DEF TornDown
<1>12. r = LoadedMod(m, r.as) /\ Handle(r) \in handles'
  BY <1>1, <1>5 DEF Handle
<1>13. stack' \in Seq(FrameType) /\ Shape' /\ Frames' /\ Lists'
  <2>1. r.as = RoleOf(f)
    BY <1>5
  <2> HIDE DEF g, rest, f, m, r
  <2> QED
    BY <1>1, <1>3, <1>4, <1>5, <1>6, <1>7, <1>8, <1>9, <1>10, <1>11, <1>12, <2>1, Facts, StepResult,
       ZenonT(60)
<1>14. returned' \in [Mod -> SUBSET Callback] /\ skip_load' \subseteq Mod /\ handles' \subseteq Mod \X Role
  BY <1>1, <1>3, <1>5, Facts DEF Callback
<1>15. TypeOK' /\ ~undefined'
  BY <1>1, <1>13, <1>14, Facts DEF TypeOK, hostVars
<1> QED
  BY <1>13, <1>15 DEF IInv

-----------------------------------------------------------------------------
(* A callback returns.                                                     *)

(* A LoadResult is truthful when done is what has returned.                *)
Tells(result, done) ==
  result.ok =>
    /\ result.called \subseteq done \intersect Flags
    /\ result.mod \notin NeedsItself => done \intersect Flags \subseteq result.called
    /\ result.info = IF "setup" \in result.called THEN DeclaredInfo[result.mod]
                                                 ELSE DefaultInfo(result.mod)

LEMMA AllTell ==
  FlagsTruthful <=> \A l \in OpenedPhases : \A i \in DOMAIN loaded[l] :
                      Tells(loaded[l][i], returned[loaded[l][i].mod])
BY DEF FlagsTruthful, Tells

LEMMA StillTells ==
  ASSUME NEW r, NEW done, NEW more, Tells(r, done), done \subseteq more,
         r.mod \in NeedsItself \/ more \intersect Flags \subseteq done
  PROVE  Tells(r, more)
BY DEF Tells

(* The objects in the lists stay; the flags and the ModInfo may change.    *)
SamePlace(new, old) == new.mod = old.mod /\ new.as = old.as /\ new.ok = old.ok

SamePlaces ==
  \A l \in OpenedPhases :
    /\ Len(loaded'[l]) = Len(loaded[l])
    /\ \A i \in 1..Len(loaded[l]) : SamePlace(loaded'[l][i], loaded[l][i])

LEMMA StepReturn ==
  ASSUME IInv, stack # <<>>, Top.at = "call", Top.fn # "ctor", stack' = Tail(stack),
         UNCHANGED <<skip_load, handles>>, TornDown => TornDown',
         returned' = [returned EXCEPT ![Top.mod] = @ \union {Top.fn}],
         SamePlaces, FlagsTruthful'
  PROVE  stack' \in Seq(FrameType) /\ Shape' /\ Frames' /\ Lists'
<1>1. Top \in FrameType /\ Top \in CallFrameType /\ InPlace(Top)
  BY Facts, StackTop, FrameKinds
<1>2. Top.list \in OpenedPhases /\ Top.mod \in Mod /\ Top.pos \in Nat
  BY <1>1, CallFrames
<1>3. Top.pos \in 1..Len(loaded[Top.list]) /\ loaded[Top.list][Top.pos].mod = Top.mod
  BY <1>1 DEF InPlace, Holds
<1>4. Top.mod \in skip_load
  BY <1>2, <1>3, Facts DEF Lists, ListedOpened
<1>5. /\ stack' \in Seq(FrameType) /\ Len(stack) \in Nat /\ Len(stack') = Len(stack) - 1
      /\ \A i \in 1..(Len(stack) - 1) : stack'[i] = stack[i + 1]
  BY Facts, Popped
<1>6. Shape'
  BY Facts, ShapePop
<1>7. \A n \in Mod : returned[n] \subseteq returned'[n] /\ (n # Top.mod => returned'[n] = returned[n])
  BY <1>2, Facts
<1>8. Lists'
  <2>1. ListedOnce'
    <3>1. \A l \in OpenedPhases : \A i \in 1..Len(loaded'[l]) :
            /\ i \in 1..Len(loaded[l])
            /\ loaded'[l][i].mod = loaded[l][i].mod /\ loaded'[l][i].as = loaded[l][i].as
      BY DEF SamePlaces, SamePlace
    <3> SUFFICES ASSUME NEW l1 \in OpenedPhases, NEW l2 \in OpenedPhases,
                        NEW i \in 1..Len(loaded'[l1]), NEW j \in 1..Len(loaded'[l2]),
                        loaded'[l1][i].mod = loaded'[l2][j].mod
                 PROVE  l1 = l2 /\ (i = j \/ Twice(loaded'[l1][i], loaded'[l2][j]))
      BY Zenon DEF ListedOnce, Twice
    <3>2. l1 = l2 /\ (i = j \/ Twice(loaded[l1][i], loaded[l2][j]))
      BY <3>1, Facts DEF Lists, ListedOnce
    <3> QED
      BY <3>1, <3>2, Zenon DEF Twice
  <2>2. ListedOpened'
    <3> SUFFICES ASSUME NEW l \in OpenedPhases, NEW i \in 1..Len(loaded[l])
                 PROVE  LET q == loaded'[l][i] IN
                        /\ q.mod \in skip_load
                        /\ q.ok => "ctor" \in returned'[q.mod]
                        /\ q.ok /\ ~TornDown => Handle(q) \in handles
      BY DEF ListedOpened, SamePlaces
    <3>1. loaded[l][i].mod \in Mod
      BY Held
    <3>2. /\ loaded'[l][i].mod = loaded[l][i].mod /\ loaded'[l][i].ok = loaded[l][i].ok
          /\ Handle(loaded'[l][i]) = Handle(loaded[l][i])
      BY DEF SamePlaces, SamePlace, Handle
    <3>3. /\ loaded[l][i].mod \in skip_load
          /\ loaded[l][i].ok => "ctor" \in returned[loaded[l][i].mod]
          /\ loaded[l][i].ok /\ ~TornDown => Handle(loaded[l][i]) \in handles
      BY Facts DEF Lists, ListedOpened
    <3>4. returned[loaded[l][i].mod] \subseteq returned'[loaded[l][i].mod]
      BY <1>7, <3>1
    <3> QED
      BY <3>2, <3>3, <3>4
  <2>3. Unknown'
    BY <1>4, <1>7, Facts DEF Lists, Unknown
  <2> QED
    BY <2>1, <2>2, <2>3 DEF Lists
(* What is not listed is not the object that returns.                      *)
<1>9. \A n \in Mod : Unlisted(n) => Unlisted(n)' /\ returned'[n] = returned[n]
  <2> SUFFICES ASSUME NEW n \in Mod, Unlisted(n)
               PROVE  Unlisted(n)' /\ returned'[n] = returned[n]
    OBVIOUS
  <2>1. n # Top.mod
    BY <1>2, <1>3 DEF Unlisted
  <2>2. Unlisted(n)'
    BY DEF Unlisted, SamePlaces, SamePlace
  <2> QED
    BY <1>7, <2>1, <2>2
<1>10. ASSUME NEW f \in FrameType, ResultsNew(f) PROVE ResultsNew(f)'
  <2> SUFFICES ASSUME f.at = "open" PROVE ResultsNew(f)'
    BY DEF ResultsNew
  <2>1. f \in OpenFrameType /\ f.results \in Seq(LoadResult) /\ f.mods \in Seq(Mod)
    BY FrameKinds, OpenFrames
  <2>2. LoadsNew(f) => LoadsNew(f)'
    <3> SUFFICES ASSUME LoadsNew(f) PROVE LoadsNew(f)'
      OBVIOUS
    <3> DEFINE h == Head(f.mods)
    <3>1. h \in Mod /\ Unlisted(h) /\ f.mods # <<>>
      BY <2>1 DEF LoadsNew
    <3>2. Unlisted(h)' /\ returned'[h] = returned[h]
      BY <1>9, <3>1
    <3> QED
      BY <3>1, <3>2 DEF LoadsNew, IsOpen
  <2>3. ASSUME NEW k \in 1..Len(f.results)
        PROVE  /\ f.results[k].mod \in skip_load' /\ JustOpened(f.results[k])'
               /\ Unlisted(f.results[k].mod)'
    <3>1. PICK q : q = f.results[k]
      OBVIOUS
    <3>2. q \in LoadResult /\ q.mod \in skip_load /\ JustOpened(q) /\ Unlisted(q.mod)
      BY <1>10, <2>1, <3>1 DEF ResultsNew
    <3>3. q.mod \in Mod
      BY <3>2 DEF LoadResult
    <3>4. Unlisted(q.mod)' /\ returned'[q.mod] = returned[q.mod]
      BY <1>9, <3>2, <3>3
    <3>5. JustOpened(q)'
      BY <3>2, <3>4 DEF JustOpened
    <3> QED
      BY <3>1, <3>2, <3>4, <3>5
  <2> QED
    BY <1>10, <2>2, <2>3 DEF ResultsNew
<1>11. ASSUME NEW f \in FrameType, InPlace(f) PROVE InPlace(f)'
  <2>1. f.at \in {"for", "require", "close", "call"} => f.list \in OpenedPhases
    BY FrameKinds, ForFrames, RequireFrames, CloseFrames, CallFrames
  <2> QED
    BY <1>11, <2>1 DEF InPlace, Holds, SamePlaces, SamePlace
<1>12. Frames'
  <2>1. ASSUME NEW i \in 1..Len(stack') PROVE InPlace(stack[i])' /\ ResultsNew(stack[i])'
    <3>1. i + 1 \in 1..Len(stack) /\ stack'[i] = stack[i + 1]
      BY <1>5
    <3>2. PICK f : f = stack'[i] /\ f \in FrameType /\ InPlace(f) /\ ResultsNew(f)
      BY <3>1, Facts DEF Frames
    <3> QED
      BY <1>10, <1>11, <3>2, FrameOf
  <2> QED
    BY <2>1, Zenon DEF Frames
<1> QED
  BY <1>5, <1>6, <1>8, <1>12

LEMMA ReturnFlaggedKeeps == IInv /\ ReturnFlagged => IInv'
<1> SUFFICES ASSUME IInv, ReturnFlagged PROVE IInv'
  OBVIOUS
<1> DEFINE old == loaded[Top.list][Top.pos]
           new == Marked(old, Top.fn, Top.mod)
<1>1. stack # <<>> /\ Top.at = "call" /\ Top.fn \in Flags /\ Top.fn # "ctor"
  BY DEF ReturnFlagged, TopIs, Flags
<1>2. Top \in FrameType /\ Top \in CallFrameType /\ InPlace(Top)
  BY <1>1, Facts, StackTop, FrameKinds
<1>3. Top.list \in OpenedPhases /\ Top.mod \in Mod /\ Top.pos \in Nat /\ Top.fn \in Callback
  BY <1>2, CallFrames
<1>4. Top.pos \in 1..Len(loaded[Top.list]) /\ old.ok /\ old.mod = Top.mod
  BY <1>1, <1>2 DEF InPlace, Holds
<1>5. ~Stale(Top.list, Top.pos) /\ old \in LoadResult
  BY <1>3, <1>4, Held
<1>14. loaded' = [loaded EXCEPT ![Top.list][Top.pos] = new]
  BY <1>1, <1>5 DEF ReturnFlagged
<1>6. /\ returned' = [returned EXCEPT ![Top.mod] = @ \union {Top.fn}]
      /\ stack' = Tail(stack)
      /\ UNCHANGED <<hostVars, current_load_phase, opened, skip_load, undefined, apiCalls, handles,
                     unloaded>>
  BY <1>1, <1>5 DEF ReturnFlagged, Pop
<1>7. /\ new \in LoadResult /\ new.mod = old.mod /\ new.ok = old.ok
      /\ new.called = old.called \union {Top.fn}
      /\ new.info = IF Top.fn = "setup" THEN DeclaredInfo[Top.mod] ELSE old.info
  <2>1. DeclaredInfo[Top.mod] \in ModInfo
    BY <1>3, ModAssumption
  <2> HIDE DEF old
  <2> QED
    BY <1>3, <1>5, <2>1 DEF LoadResult, Marked
<1> HIDE DEF new
<1>8. /\ loaded' \in [OpenedPhases -> Seq(LoadResult)]
      /\ \A l \in OpenedPhases :
           /\ Len(loaded'[l]) = Len(loaded[l]) /\ Len(loaded[l]) \in Nat
           /\ \A i \in 1..Len(loaded[l]) :
                loaded'[l][i] = IF l = Top.list /\ i = Top.pos THEN new ELSE loaded[l][i]
  <2>1. loaded[Top.list] \in Seq(LoadResult)
    BY <1>3, Facts
  <2> DEFINE s == loaded[Top.list]
             t == [s EXCEPT ![Top.pos] = new]
  <2>2. /\ t \in Seq(LoadResult) /\ Len(t) = Len(s) /\ Len(s) \in Nat
        /\ \A i \in 1..Len(s) : t[i] = IF i = Top.pos THEN new ELSE s[i]
    <3> HIDE DEF s
    <3> QED
      BY <1>4, <1>7, <2>1 DEF s
  <2>3. loaded' = [loaded EXCEPT ![Top.list] = t]
    BY <1>14, Zenon
  <2> HIDE DEF t
  <2>4. loaded' \in [OpenedPhases -> Seq(LoadResult)]
    BY <1>3, <2>2, <2>3, Facts
  <2>5. \A l \in OpenedPhases : loaded'[l] = IF l = Top.list THEN t ELSE loaded[l]
    BY <2>3, Facts
  <2>6. \A l \in OpenedPhases : Len(loaded[l]) \in Nat
    BY Facts
  <2> QED
    <3> SUFFICES ASSUME NEW l \in OpenedPhases
                 PROVE  /\ Len(loaded'[l]) = Len(loaded[l]) /\ Len(loaded[l]) \in Nat
                        /\ \A i \in 1..Len(loaded[l]) :
                             loaded'[l][i] = IF l = Top.list /\ i = Top.pos THEN new ELSE loaded[l][i]
      BY <2>4
    <3>1. CASE l = Top.list
      BY <2>2, <2>5, <3>1
    <3>2. CASE l # Top.list
      BY <2>5, <2>6, <3>2
    <3> QED
      BY <3>1, <3>2
<1>10. new.as = old.as
  <2> HIDE DEF old
  <2> QED
    BY <1>5 DEF new, LoadResult, Marked
<1>9. SamePlaces
  <2> SUFFICES ASSUME NEW l \in OpenedPhases, NEW i \in 1..Len(loaded[l])
               PROVE  SamePlace(loaded'[l][i], loaded[l][i])
    BY <1>8 DEF SamePlaces
  <2>1. ASSUME l = Top.list, i = Top.pos
        PROVE  loaded'[l][i] = new /\ loaded[l][i] = old
    BY <1>8, <2>1
  <2>2. ASSUME ~(l = Top.list /\ i = Top.pos)
        PROVE  loaded'[l][i] = loaded[l][i]
    BY <1>8, <2>2
  <2> QED
    BY <1>7, <1>10, <2>1, <2>2, Zenon DEF SamePlace
<1>15. FlagsTruthful'
  <2> SUFFICES ASSUME NEW l \in OpenedPhases, NEW i \in 1..Len(loaded[l])
               PROVE  Tells(loaded'[l][i], returned'[loaded'[l][i].mod])
    <3>1. \A k \in OpenedPhases : DOMAIN loaded'[k] = 1..Len(loaded[k])
      BY <1>8
    <3>2. FlagsTruthful' <=> \A k \in OpenedPhases : \A j \in DOMAIN loaded'[k] :
                               Tells(loaded'[k][j], returned'[loaded'[k][j].mod])
      BY DEF FlagsTruthful, Tells
    <3> QED
      BY <3>1, <3>2
  <2>1. loaded[l][i].mod \in Mod /\ i \in DOMAIN loaded[l]
    BY <1>8, Held
  <2>2. Tells(loaded[l][i], returned[loaded[l][i].mod])
    BY <2>1, AllTell, Facts DEF Lists
  <2>3. CASE l = Top.list /\ i = Top.pos
    <3>1. loaded'[l][i] = new /\ loaded[l][i] = old /\ new.mod = Top.mod
      BY <1>4, <1>7, <1>8, <2>3
    <3>2. returned'[Top.mod] = returned[Top.mod] \union {Top.fn}
      BY <1>3, <1>6, Facts
    <3>3. Tells(old, returned[Top.mod])
      BY <1>4, <2>2, <3>1
    <3> HIDE DEF old
    <3>4. Tells(new, returned[Top.mod] \union {Top.fn})
      BY <1>1, <1>4, <1>7, <3>3 DEF Tells
    <3> QED
      BY <3>1, <3>2, <3>4
  <2>4. CASE ~(l = Top.list /\ i = Top.pos)
    <3>1. loaded'[l][i] = loaded[l][i]
      BY <1>8, <2>4
    <3>2. loaded[l][i].mod = Top.mod => loaded[l][i].mod \in NeedsItself
      BY <1>3, <1>4, <2>4, Facts DEF Lists, ListedOnce, Twice
    <3>3. /\ returned[loaded[l][i].mod] \subseteq returned'[loaded[l][i].mod]
          /\ loaded[l][i].mod # Top.mod => returned'[loaded[l][i].mod] = returned[loaded[l][i].mod]
      BY <1>3, <1>6, <2>1, Facts
    <3>4. PICK r : r = loaded[l][i]
      OBVIOUS
    <3> QED
      BY <2>2, <3>1, <3>2, <3>3, <3>4, StillTells
  <2> QED
    BY <2>3, <2>4
<1>11. stack' \in Seq(FrameType) /\ Shape' /\ Frames' /\ Lists'
  BY <1>1, <1>6, <1>9, <1>15, StepReturn DEF TornDown
<1>12. returned' \in [Mod -> SUBSET Callback]
  BY <1>3, <1>6, Facts
<1>13. TypeOK' /\ ~undefined'
  BY <1>6, <1>8, <1>11, <1>12, Facts DEF TypeOK, hostVars
<1> QED
  BY <1>11, <1>13 DEF IInv

LEMMA ReturnUnloadKeeps == IInv /\ ReturnUnload => IInv'
<1> SUFFICES ASSUME IInv, ReturnUnload PROVE IInv'
  OBVIOUS
<1>1. /\ stack # <<>> /\ Top.at = "call" /\ Top.fn = "unload" /\ stack' = Tail(stack)
      /\ returned' = [returned EXCEPT ![Top.mod] = @ \union {"unload"}]
      /\ UNCHANGED <<hostVars, listVars, undefined, apiCalls, handles, unloaded>>
  BY DEF ReturnUnload, TopIs, Pop
<1>2. Top.mod \in Mod
  BY <1>1, Facts, StackTop, FrameKinds, CallFrames
<1>3. SamePlaces /\ UNCHANGED <<skip_load, loaded>>
  BY <1>1 DEF SamePlaces, SamePlace, listVars
<1>4. FlagsTruthful'
  <2> SUFFICES ASSUME NEW l \in OpenedPhases, NEW i \in DOMAIN loaded[l]
               PROVE  Tells(loaded[l][i], returned'[loaded[l][i].mod])
    <3>1. FlagsTruthful' <=> \A k \in OpenedPhases : \A j \in DOMAIN loaded'[k] :
                               Tells(loaded'[k][j], returned'[loaded'[k][j].mod])
      BY DEF FlagsTruthful, Tells
    <3> QED
      BY <1>3, <3>1
  <2>1. loaded[l][i].mod \in Mod
    <3>1. i \in 1..Len(loaded[l])
      BY Facts
    <3> QED
      BY <3>1, Held
  <2>2. Tells(loaded[l][i], returned[loaded[l][i].mod])
    BY AllTell, Facts DEF Lists
  <2>3. \A n \in Mod : returned[n] \subseteq returned'[n] /\ returned'[n] \intersect Flags \subseteq returned[n]
    BY <1>1, <1>2, Facts DEF Flags
  <2>4. PICK r : r = loaded[l][i]
    OBVIOUS
  <2> QED
    BY <2>1, <2>2, <2>3, <2>4, StillTells
<1>5. stack' \in Seq(FrameType) /\ Shape' /\ Frames' /\ Lists'
  <2>1. returned' = [returned EXCEPT ![Top.mod] = @ \union {Top.fn}]
    BY <1>1
  <2> QED
    BY <1>1, <1>3, <1>4, <2>1, StepReturn DEF TornDown
<1>6. returned' \in [Mod -> SUBSET Callback]
  BY <1>1, <1>2, Facts DEF Callback
<1>7. TypeOK' /\ ~undefined'
  BY <1>1, <1>5, <1>6, Facts DEF TypeOK, hostVars, listVars
<1> QED
  BY <1>5, <1>7 DEF IInv

-----------------------------------------------------------------------------
(* The lists change.                                                       *)

(* Only fresh frames are left, which refer to nothing.                     *)
LEMMA OnlyFreshLeft ==
  ASSUME stack' \in Seq(FrameType),
         \A i \in 1..Len(stack') :
           /\ Fresh(stack'[i])
           /\ stack'[i].at = "open" => stack'[i].results = <<>>
           /\ stack'[i].at = "for" /\ stack'[i].fn = "close" => TornDown'
  PROVE  Shape' /\ Frames'
<1>1. Shape'
  BY ShapeFresh
<1>2. Frames'
  BY DEF Frames, Fresh, InPlace, ResultsNew
<1> QED
  BY <1>1, <1>2

LEMMA OpenEndKeeps == IInv /\ OpenEnd => IInv'
<1> SUFFICES ASSUME IInv, OpenEnd PROVE IInv'
  OBVIOUS
<1> DEFINE new == Top.results
           list == Top.list
<1>1. /\ stack # <<>> /\ Top.at = "open" /\ stack' = Tail(stack)
      /\ loaded' = [loaded EXCEPT ![list] = new]
      /\ opened' \subseteq opened \union {"Libs"}
      /\ UNCHANGED <<hostVars, current_load_phase, skip_load, undefined, apiCalls, historyVars>>
  BY DEF OpenEnd, TopIs, Pop
<1>2. Top \in FrameType /\ Top \in OpenFrameType /\ ResultsNew(Top) /\ Base(Top)
  BY <1>1, Facts, StackTop, FrameKinds DEF Base
<1>3. list \in OpenedPhases /\ new \in Seq(LoadResult) /\ Len(new) \in Nat
  <2>1. list \in OpenedPhases /\ new \in Seq(LoadResult)
    BY <1>2 DEF OpenFrameType
  <2> QED
    BY <2>1
<1>4. UNCHANGED <<returned, handles>> /\ (TornDown' <=> TornDown) /\ UNCHANGED skip_load
  BY <1>1 DEF historyVars, TornDown
<1>5. stack' \in Seq(FrameType) /\ Shape' /\ Frames'
  BY <1>1, <1>2, <1>4, Facts, BelowBase, OnlyFreshLeft
<1>6. /\ \A i, j \in 1..Len(new) : new[i].mod = new[j].mod => i = j \/ Twice(new[i], new[j])
      /\ \A i \in 1..Len(new) : new[i].mod \in skip_load
      /\ \A i \in 1..Len(new) : JustOpened(new[i])
      /\ \A i \in 1..Len(new) : \A l \in OpenedPhases : \A j \in 1..Len(loaded[l]) :
           loaded[l][j].mod # new[i].mod
  BY <1>1, <1>2, Zenon DEF ResultsNew, Unlisted
<1>7. /\ loaded' \in [OpenedPhases -> Seq(LoadResult)]
      /\ loaded'[list] = new
      /\ \A l \in OpenedPhases : l # list => loaded'[l] = loaded[l]
  BY <1>1, <1>3, Facts
<1> HIDE DEF new, list
<1>8. ListedOnce'
  <2> SUFFICES ASSUME NEW l1 \in OpenedPhases, NEW l2 \in OpenedPhases,
                      NEW i \in 1..Len(loaded'[l1]), NEW j \in 1..Len(loaded'[l2]),
                      loaded'[l1][i].mod = loaded'[l2][j].mod
               PROVE  l1 = l2 /\ (i = j \/ Twice(loaded'[l1][i], loaded'[l2][j]))
    BY Zenon DEF ListedOnce, Twice
  <2>1. CASE l1 = list /\ l2 = list
    BY <1>6, <1>7, <2>1
  <2>2. CASE l1 # list /\ l2 # list
    BY <1>7, <2>2, Facts DEF Lists, ListedOnce
  <2>3. ASSUME l1 = list, l2 # list PROVE FALSE
    BY <1>6, <1>7, <2>3
  <2>4. ASSUME l1 # list, l2 = list PROVE FALSE
    BY <1>6, <1>7, <2>4
  <2> QED
    BY <2>1, <2>2, <2>3, <2>4
<1>9. ListedOpened'
  <2> SUFFICES ASSUME NEW l \in OpenedPhases, NEW i \in 1..Len(loaded'[l])
               PROVE  LET q == loaded'[l][i] IN
                      /\ q.mod \in skip_load
                      /\ q.ok => "ctor" \in returned[q.mod]
                      /\ q.ok /\ ~TornDown => Handle(q) \in handles
    BY <1>4 DEF ListedOpened, Handle
  <2>1. CASE l = list
    <3>1. loaded'[l][i] = new[i] /\ i \in 1..Len(new)
      BY <1>7, <2>1
    <3> QED
      BY <1>6, <3>1 DEF JustOpened
  <2>2. CASE l # list
    <3>1. loaded'[l] = loaded[l]
      BY <1>7, <2>2
    <3> QED
      BY <3>1, Facts DEF Lists, ListedOpened
  <2> QED
    BY <2>1, <2>2
<1>10. FlagsTruthful'
  <2> SUFFICES ASSUME NEW l \in OpenedPhases, NEW i \in DOMAIN loaded'[l]
               PROVE  Tells(loaded'[l][i], returned[loaded'[l][i].mod])
    BY <1>4 DEF FlagsTruthful, Tells
  <2>1. CASE l = list
    <3>1. loaded'[l][i] = new[i] /\ i \in 1..Len(new)
      BY <1>3, <1>7, <2>1
    <3>2. new[i].ok => new[i] = LoadedMod(new[i].mod, new[i].as) /\ returned[new[i].mod] = {"ctor"}
      BY <1>6, <3>1 DEF JustOpened
    <3>3. new[i].ok => new[i].called = {} /\ new[i].info = DefaultInfo(new[i].mod)
      <4>1. \A n, as : LoadedMod(n, as).called = {} /\ LoadedMod(n, as).info = DefaultInfo(n)
        BY DEF LoadedMod
      <4> QED
        BY <3>2, <4>1, Zenon
    <3> QED
      BY <3>1, <3>2, <3>3 DEF Tells, Flags
  <2>2. CASE l # list
    <3>1. loaded'[l] = loaded[l]
      BY <1>7, <2>2
    <3> QED
      BY <3>1, AllTell, Facts DEF Lists
  <2> QED
    BY <2>1, <2>2
<1>11. Unknown'
  BY <1>4, Facts DEF Lists, Unknown
<1>12. TypeOK' /\ ~undefined'
  <2>1. opened' \subseteq OpenedPhases
    BY <1>1, Facts DEF TypeOK, OpenedPhases
  <2> QED
    BY <1>1, <1>5, <1>7, <2>1, Facts DEF TypeOK, hostVars, historyVars
<1> QED
  BY <1>5, <1>8, <1>9, <1>10, <1>11, <1>12 DEF IInv, Lists

LEMMA ClearListsKeeps == IInv /\ ClearLists => IInv'
<1> SUFFICES ASSUME IInv, ClearLists PROVE IInv'
  OBVIOUS
<1>1. /\ stack # <<>> /\ Base(Top) /\ stack' = Tail(stack)
      /\ loaded' = [p \in OpenedPhases |-> <<>>]
      /\ UNCHANGED <<hostVars, current_load_phase, opened, skip_load, undefined, apiCalls, historyVars>>
  BY DEF ClearLists, TopIs, Pop, Base
<1>2. UNCHANGED <<returned, handles>> /\ (TornDown' <=> TornDown) /\ UNCHANGED skip_load
  BY <1>1 DEF historyVars, TornDown
<1>3. stack' \in Seq(FrameType) /\ Shape' /\ Frames'
  BY <1>1, <1>2, Facts, BelowBase, OnlyFreshLeft
<1>4. /\ loaded' \in [OpenedPhases -> Seq(LoadResult)]
      /\ \A l \in OpenedPhases : 1..Len(loaded'[l]) = {} /\ DOMAIN loaded'[l] = {}
  BY <1>1
<1>5. ListedOnce' /\ ListedOpened' /\ FlagsTruthful'
  BY <1>4 DEF ListedOnce, ListedOpened, FlagsTruthful
<1>6. Unknown'
  BY <1>2, Facts DEF Lists, Unknown
<1>7. TypeOK' /\ ~undefined'
  BY <1>1, <1>3, <1>4, Facts DEF TypeOK, hostVars, historyVars
<1> QED
  BY <1>3, <1>5, <1>6, <1>7 DEF IInv, Lists

LEMMA WithoutOne ==
  ASSUME NEW S, NEW s \in Seq(S), NEW pos \in 1..Len(s)
  PROVE  /\ WithoutAt(s, pos) \in Seq(S) /\ Len(s) \in Nat
         /\ Len(WithoutAt(s, pos)) = Len(s) - 1
         /\ \A i \in 1..(Len(s) - 1) : WithoutAt(s, pos)[i] = s[IF i < pos THEN i ELSE i + 1]
<1>1. Len(s) \in Nat
  OBVIOUS
<1> DEFINE a == SubSeq(s, 1, pos - 1)
           b == SubSeq(s, pos + 1, Len(s))
<1>2. a \in Seq(S) /\ Len(a) = pos - 1 /\ \A i \in 1..(pos - 1) : a[i] = s[i]
  BY <1>1
<1>3. /\ b \in Seq(S) /\ Len(b) = Len(s) - pos
      /\ \A i \in 1..(Len(s) - pos) : b[i] = s[pos + i]
  BY <1>1
<1> HIDE DEF a, b
<1>4. /\ a \o b \in Seq(S) /\ Len(a \o b) = Len(s) - 1
      /\ \A i \in 1..(Len(s) - 1) : (a \o b)[i] = IF i < pos THEN a[i] ELSE b[i - (pos - 1)]
  <2>1. a \in Seq(S) /\ b \in Seq(S) /\ Len(a) \in Nat /\ Len(b) \in Nat
    BY <1>2, <1>3
  <2>2. /\ a \o b \in Seq(S) /\ Len(a \o b) = Len(a) + Len(b)
        /\ \A i \in 1..(Len(a) + Len(b)) :
             (a \o b)[i] = IF i <= Len(a) THEN a[i] ELSE b[i - Len(a)]
    BY <2>1
  <2>3. Len(a) + Len(b) = Len(s) - 1 /\ \A i \in Nat : i <= Len(a) <=> i < pos
    BY <1>1, <1>2, <1>3
  <2>4. Len(a) = pos - 1 /\ \A i \in 1..(Len(s) - 1) : i \in Nat
    BY <1>2
  <2> QED
    BY <2>2, <2>3, <2>4
<1>5. \A i \in 1..(Len(s) - 1) : (a \o b)[i] = s[IF i < pos THEN i ELSE i + 1]
  <2> SUFFICES ASSUME NEW i \in 1..(Len(s) - 1) PROVE (a \o b)[i] = s[IF i < pos THEN i ELSE i + 1]
    OBVIOUS
  <2>1. CASE i < pos
    BY <1>1, <1>2, <1>4, <2>1
  <2>2. CASE ~(i < pos)
    <3>1. i - (pos - 1) \in 1..(Len(s) - pos) /\ pos + (i - (pos - 1)) = i + 1
      BY <1>1, <2>2
    <3> QED
      BY <1>3, <1>4, <2>2, <3>1
  <2> QED
    BY <2>1, <2>2
<1> QED
  BY <1>1, <1>4, <1>5 DEF WithoutAt, a, b

(* force_unload takes the object it handles, and no other, out of its list.  *)
LEMMA ListsShrink ==
  ASSUME Lists, loaded \in [OpenedPhases -> Seq(LoadResult)],
         NEW list \in OpenedPhases, NEW pos \in 1..Len(loaded[list]),
         loaded' = [loaded EXCEPT ![list] = WithoutAt(@, pos)],
         handles' = handles \ {Handle(loaded[list][pos])},
         UNCHANGED <<skip_load, returned, unloaded>>
  PROVE  Lists' /\ loaded' \in [OpenedPhases -> Seq(LoadResult)]
<1> DEFINE s == loaded[list]
           t == WithoutAt(s, pos)
           old(i) == IF i < pos THEN i ELSE i + 1
<1>1. /\ t \in Seq(LoadResult) /\ Len(s) \in Nat /\ Len(t) = Len(s) - 1
      /\ \A i \in 1..(Len(s) - 1) : t[i] = s[old(i)]
  BY WithoutOne
<1>2. /\ \A i \in 1..(Len(s) - 1) : old(i) \in 1..Len(s) /\ old(i) # pos
      /\ \A i, j \in 1..(Len(s) - 1) : old(i) = old(j) => i = j
  BY <1>1
<1>3. /\ loaded' \in [OpenedPhases -> Seq(LoadResult)]
      /\ loaded'[list] = t /\ \A l \in OpenedPhases : l # list => loaded'[l] = loaded[l]
  BY <1>1
<1> HIDE DEF t, old
<1>4. \A l \in OpenedPhases : \A i \in 1..Len(loaded'[l]) :
        \E k \in 1..Len(loaded[l]) :
          /\ loaded'[l][i] = loaded[l][k]
          /\ l = list => k = old(i) /\ k # pos
          /\ l # list => k = i
  <2> SUFFICES ASSUME NEW l \in OpenedPhases, NEW i \in 1..Len(loaded'[l])
               PROVE  \E k \in 1..Len(loaded[l]) :
                        /\ loaded'[l][i] = loaded[l][k]
                        /\ l = list => k = old(i) /\ k # pos
                        /\ l # list => k = i
    OBVIOUS
  <2>1. CASE l = list
    BY <1>1, <1>2, <1>3, <2>1
  <2>2. CASE l # list
    BY <1>3, <2>2
  <2> QED
    BY <2>1, <2>2
<1>5. ListedOnce'
  <2> SUFFICES ASSUME NEW l1 \in OpenedPhases, NEW l2 \in OpenedPhases,
                      NEW i \in 1..Len(loaded'[l1]), NEW j \in 1..Len(loaded'[l2]),
                      loaded'[l1][i].mod = loaded'[l2][j].mod
               PROVE  l1 = l2 /\ (i = j \/ Twice(loaded'[l1][i], loaded'[l2][j]))
    BY Zenon DEF ListedOnce, Twice
  <2>1. PICK k \in 1..Len(loaded[l1]) :
          /\ loaded'[l1][i] = loaded[l1][k]
          /\ l1 = list => k = old(i) /\ k # pos
          /\ l1 # list => k = i
    BY <1>4
  <2>2. PICK n \in 1..Len(loaded[l2]) :
          /\ loaded'[l2][j] = loaded[l2][n]
          /\ l2 = list => n = old(j) /\ n # pos
          /\ l2 # list => n = j
    BY <1>4
  <2>3. l1 = l2 /\ (k = n \/ Twice(loaded[l1][k], loaded[l2][n]))
    BY <2>1, <2>2 DEF Lists, ListedOnce
  <2>4. ASSUME l1 = list, k = n PROVE i = j
    <3>1. i \in 1..(Len(s) - 1) /\ j \in 1..(Len(s) - 1) /\ old(i) = old(j)
      BY <1>1, <1>3, <2>1, <2>2, <2>3, <2>4
    <3> QED
      BY <1>2, <3>1
  <2>5. ASSUME l1 # list, k = n PROVE i = j
    BY <2>1, <2>2, <2>3, <2>5
  <2> QED
    BY <2>1, <2>2, <2>3, <2>4, <2>5
<1>6. ListedOpened'
  <2> SUFFICES ASSUME NEW l \in OpenedPhases, NEW i \in 1..Len(loaded'[l])
               PROVE  LET q == loaded'[l][i] IN
                      /\ q.mod \in skip_load
                      /\ q.ok => "ctor" \in returned[q.mod]
                      /\ q.ok /\ ~TornDown => Handle(q) \in handles'
    BY Zenon DEF ListedOpened, TornDown, Handle
  <2>1. PICK k \in 1..Len(loaded[l]) : loaded'[l][i] = loaded[l][k] /\ (l = list => k # pos)
    BY <1>4
  <2>2. Handle(loaded[l][k]) # Handle(loaded[list][pos])
    BY <2>1 DEF Lists, ListedOnce, Twice, Handle
  <2>3. /\ loaded[l][k].mod \in skip_load
        /\ loaded[l][k].ok => "ctor" \in returned[loaded[l][k].mod]
        /\ loaded[l][k].ok /\ ~TornDown => Handle(loaded[l][k]) \in handles
    BY DEF Lists, ListedOpened
  <2> QED
    BY <2>1, <2>2, <2>3
<1>7. FlagsTruthful'
  <2>1. ASSUME NEW l \in OpenedPhases, NEW i \in DOMAIN loaded'[l]
        PROVE  Tells(loaded'[l][i], returned'[loaded'[l][i].mod])
    <3>1. i \in 1..Len(loaded'[l])
      BY <1>3
    <3>2. PICK k \in 1..Len(loaded[l]) : loaded'[l][i] = loaded[l][k]
      BY <1>4, <3>1
    <3>3. k \in DOMAIN loaded[l]
      OBVIOUS
    <3> QED
      BY <3>2, <3>3, AllTell DEF Lists
  <2> QED
    BY <2>1, Zenon DEF FlagsTruthful, Tells
<1>8. Unknown'
  <2>1. loaded[list][pos].mod \in skip_load
    BY DEF Lists, ListedOpened
  <2> QED
    BY <2>1 DEF Lists, Unknown
<1> QED
  BY <1>3, <1>5, <1>6, <1>7, <1>8 DEF Lists

LEMMA DlcloseKeeps == IInv /\ Dlclose => IInv'
<1> SUFFICES ASSUME IInv, Dlclose PROVE IInv'
  OBVIOUS
<1> DEFINE q == loaded[Top.list][Top.pos]
           m == q.mod
<1>1. stack # <<>> /\ Top.at = "close"
  BY DEF Dlclose, TopIs
<1>2. Top \in FrameType /\ Top \in CloseFrameType /\ InPlace(Top) /\ Top = stack[1]
  BY <1>1, Facts, StackTop, FrameKinds
<1>3. /\ Top.list \in OpenedPhases /\ Top.pos \in 1..Len(loaded[Top.list])
      /\ Top.by \in {"force_unload", "close_all"}
  BY <1>1, <1>2 DEF InPlace, Holds, CloseFrameType
<1>4. ~Stale(Top.list, Top.pos) /\ m \in Mod
  BY <1>3, Held
<1>5. /\ stack' = Tail(stack)
      /\ UNCHANGED <<hostVars, current_load_phase, opened, skip_load, undefined, apiCalls, returned,
                     unloaded>>
      /\ \/ UNCHANGED <<handles, loaded>>
         \/ /\ handles' = handles \ {Handle(q)}
            /\ Top.by = "force_unload" =>
                 loaded' = [loaded EXCEPT ![Top.list] = WithoutAt(@, Top.pos)]
            /\ Top.by # "force_unload" => loaded' = loaded
  BY <1>4 DEF Dlclose, Pop
<1>6. Len(stack) \in Nat /\ 1 \in 1..Len(stack)
  BY <1>1, Facts, StackTop
<1>7. /\ Top.by = "force_unload" => Len(stack) = 1
      /\ Top.by # "force_unload" => TornDown
  BY <1>1, <1>2, <1>3, <1>6, Facts DEF Shape, ErasesAlone
<1>8. TypeOK /\ handles' \subseteq Mod \X Role
  BY <1>4, <1>5, Facts
<1>9. loaded' \in [OpenedPhases -> Seq(LoadResult)] /\ stack' \in Seq(FrameType) => TypeOK' /\ ~undefined'
  BY <1>5, <1>8, Facts DEF TypeOK, hostVars
<1>10. CASE UNCHANGED <<handles, loaded>>
  <2>1. KeepsLists
    BY <1>5, <1>10 DEF KeepsLists, TornDown
  <2> QED
    BY <1>1, <1>5, <1>9, <1>10, <2>1, Facts, StepPop DEF IInv
<1>11. CASE /\ Top.by = "force_unload" /\ handles' = handles \ {Handle(q)}
            /\ loaded' = [loaded EXCEPT ![Top.list] = WithoutAt(@, Top.pos)]
  <2>1. stack' \in Seq(FrameType) /\ Len(stack') = 0
    BY <1>1, <1>5, <1>7, <1>11, Facts, Popped
  <2>2. Shape' /\ Frames'
    BY <2>1 DEF Shape, BaseAboveFresh, CallsHaveCallers, ErasesAlone, Frames
  <2>3. Lists' /\ loaded' \in [OpenedPhases -> Seq(LoadResult)]
    BY <1>3, <1>5, <1>11, Facts, ListsShrink
  <2> QED
    BY <1>9, <2>1, <2>2, <2>3 DEF IInv
<1>12. CASE Top.by # "force_unload" /\ handles' = handles \ {Handle(q)} /\ loaded' = loaded
  <2>1. TornDown /\ TornDown' /\ UNCHANGED <<skip_load, loaded, returned>>
    BY <1>5, <1>7, <1>12 DEF TornDown
  <2>2. /\ stack' \in Seq(FrameType) /\ Len(stack') = Len(stack) - 1
        /\ \A i \in 1..(Len(stack) - 1) : stack'[i] = stack[i + 1]
    BY <1>1, <1>5, Facts, Popped
  <2>3. Shape'
    BY <1>1, <1>5, <2>1, Facts, ShapePop
  <2>4. Frames'
    <3>1. \A n : Unlisted(n) => n # m /\ Unlisted(n)'
      BY <1>3, <2>1 DEF Unlisted
    <3>2. \A n, as : n # m /\ <<n, as>> \in handles => <<n, as>> \in handles'
      BY <1>12 DEF Handle
    <3>3. ASSUME NEW f \in FrameType, InPlace(f), ResultsNew(f) PROVE InPlace(f)' /\ ResultsNew(f)'
      <4>1. InPlace(f)'
        BY <2>1, <3>3 DEF InPlace, Holds
      <4>2. LoadsNew(f) => LoadsNew(f)'
        BY <2>1, <3>1, <3>2 DEF LoadsNew, IsOpen
      <4>3. \A r : JustOpened(r) /\ Unlisted(r.mod) => JustOpened(r)'
        BY <2>1, <3>1, <3>2 DEF JustOpened, Handle
      <4>4. ResultsNew(f)'
        BY <2>1, <3>1, <3>3, <4>2, <4>3 DEF ResultsNew
      <4> QED
        BY <4>1, <4>4
    <3>4. ASSUME NEW i \in 1..Len(stack') PROVE InPlace(stack[i])' /\ ResultsNew(stack[i])'
      <4>1. i + 1 \in 1..Len(stack) /\ stack'[i] = stack[i + 1]
        BY <1>6, <2>2
      <4>2. PICK f : f = stack'[i] /\ f \in FrameType /\ InPlace(f) /\ ResultsNew(f)
        BY <4>1, Facts DEF Frames
      <4> QED
        BY <3>3, <4>2, FrameOf
    <3> QED
      BY <3>4, Zenon DEF Frames
  <2>5. Lists'
    <3>1. m \in skip_load
      BY <1>3, Facts DEF Lists, ListedOpened
    <3>2. Unknown'
      BY <1>12, <2>1, <3>1, Facts DEF Lists, Unknown
    <3>3. ListedOnce' /\ ListedOpened' /\ FlagsTruthful'
      BY <2>1, Facts DEF Lists, ListedOnce, ListedOpened, FlagsTruthful
    <3> QED
      BY <3>2, <3>3 DEF Lists
  <2>6. loaded' \in [OpenedPhases -> Seq(LoadResult)]
    BY <2>1, Facts
  <2> QED
    BY <1>9, <2>2, <2>3, <2>4, <2>5, <2>6 DEF IInv
<1> QED
  BY <1>5, <1>10, <1>11, <1>12

-----------------------------------------------------------------------------
(* The invariant.                                                          *)

LEMMA InitIInv == Init => IInv
<1> SUFFICES ASSUME Init PROVE IInv
  OBVIOUS
<1>1. stack = <<>> /\ Len(stack) = 0 /\ stack \in Seq(FrameType)
  BY DEF Init
<1>2. /\ loaded \in [OpenedPhases -> Seq(LoadResult)]
      /\ \A l \in OpenedPhases : 1..Len(loaded[l]) = {} /\ DOMAIN loaded[l] = {}
  BY DEF Init
<1>3. returned \in [Mod -> SUBSET Callback] /\ \A m \in Mod : returned[m] = {}
  BY DEF Init
<1>4. TypeOK
  <2>1. /\ host \in {"start", "preloaded", "loaded", "unity", "il2cpp"}
        /\ failed \in BOOLEAN /\ undefined \in BOOLEAN /\ unloaded \in BOOLEAN
    BY Zenon DEF Init
  <2>2. hooks \subseteq {"il2cpp_init", "DestroyObject"} /\ current_load_phase \in {"None"} \union OpenedPhases
    BY DEF Init
  <2>3. opened \subseteq OpenedPhases /\ skip_load \subseteq Mod /\ handles \subseteq Mod \X Role
    BY DEF Init
  <2>4. apiCalls \in 0..MaxApi
    BY HostAssumption DEF Init
  <2> QED
    BY <1>1, <1>2, <1>3, <2>1, <2>2, <2>3, <2>4, Zenon DEF TypeOK
<1>5. Shape /\ Frames
  BY <1>1 DEF Shape, BaseAboveFresh, CallsHaveCallers, ErasesAlone, Frames
<1>6. Lists
  BY <1>2, <1>3 DEF Lists, ListedOnce, ListedOpened, FlagsTruthful, Unknown
<1> QED
  BY <1>4, <1>5, <1>6 DEF IInv, Init

LEMMA StutterKeeps == IInv /\ UNCHANGED vars => IInv'
<1> SUFFICES ASSUME IInv, UNCHANGED vars PROVE IInv'
  OBVIOUS
<1>1. KeepsLists /\ stack' = stack
  BY DEF vars, hostVars, listVars, historyVars, KeepsLists, TornDown
<1>2. TypeOK' /\ ~undefined'
  BY Facts DEF TypeOK, vars, hostVars, listVars, historyVars
<1> QED
  BY <1>1, <1>2, Facts, StepSame DEF IInv

LEMMA NextIInv == ASSUME CallbacksDoNotUnload PROVE IInv /\ [Next]_vars => IInv'
<1> SUFFICES ASSUME IInv, [Next]_vars PROVE IInv'
  OBVIOUS
<1>1. CASE Run
  BY <1>1, SetupUnityKeeps, OrigReturnsKeeps, OpenBeginKeeps, OpenNextKeeps, OpenEndKeeps,
     ForBeginKeeps, ForNextKeeps, ForEndKeeps, ReturnFlaggedKeeps, ReturnUnloadKeeps,
     ReturnCtorKeeps, RequireNextKeeps, RequireEndKeeps, CloseCallKeeps, DlcloseKeeps,
     ClearListsKeeps DEF Run
<1>2. CASE Start
  <2>1. ASSUME NEW request \in Requests, modloader_require_mod(request) PROVE IInv'
    BY <2>1, RequireKeeps
  <2>2. ASSUME NEW request \in Requests, modloader_force_unload(request) PROVE IInv'
    BY <2>2, ForceUnloadKeeps
  <2> QED
    BY <1>2, <2>1, <2>2, PreloadKeeps, LoadKeeps, AcceptKeeps, Il2cppInitKeeps, DestroyObjectKeeps,
       UnloadKeeps DEF Start
<1>3. CASE UNCHANGED vars
  BY <1>3, StutterKeeps
<1> QED
  BY <1>1, <1>2, <1>3 DEF Next

(* IInv is an inductive invariant of every behaviour.                      *)
THEOREM Inductive == ASSUME CallbacksDoNotUnload PROVE Spec => []IInv
<1>1. IInv /\ [Next]_vars => IInv'
  BY NextIInv
<1> QED
  BY <1>1, InitIInv, PTL DEF Spec

-----------------------------------------------------------------------------
(* The theorems.                                                           *)

(* The states are of the type that is stated for them.                     *)
THEOREM ModloaderTyping == ASSUME CallbacksDoNotUnload PROVE Spec => []TypeOK
<1>1. IInv => TypeOK
  BY DEF IInv
<1> QED
  BY <1>1, Inductive, PTL

(* What a LoadResult says of its object, its flags and its ModInfo, is what *)
(* happened to that object, however the mods require each other.           *)
THEOREM Truthful == ASSUME CallbacksDoNotUnload PROVE Spec => []FlagsTruthful
<1>1. IInv => FlagsTruthful
  BY DEF IInv, Lists
<1> QED
  BY <1>1, Inductive, PTL

(* No function uses a place that its vector does not have (any more): the   *)
(* references and iterators that the code keeps over calls of mods stay    *)
(* good, unless a mod unloads mods from a callback.                        *)
THEOREM Defined == ASSUME CallbacksDoNotUnload PROVE Spec => []NeverUndefined
<1>1. IInv => NeverUndefined
  BY DEF IInv, NeverUndefined
<1> QED
  BY <1>1, Inductive, PTL

(* Between calls, the handles that the lists give out are held, each from   *)
(* one place; an object is there once unless it needs itself.              *)
THEOREM ListedOpen == ASSUME CallbacksDoNotUnload PROVE Spec => []ListedAreOpen
<1>1. IInv => ListedAreOpen
  <2> SUFFICES ASSUME IInv, ~unloaded, NEW l1 \in OpenedPhases, NEW l2 \in OpenedPhases,
                      NEW i \in DOMAIN loaded[l1], NEW j \in DOMAIN loaded[l2]
               PROVE  LET r1 == loaded[l1][i]
                          r2 == loaded[l2][j]
                      IN /\ r1.ok => Handle(r1) \in handles
                         /\ r1.mod = r2.mod /\ <<l1, i>> # <<l2, j>> =>
                              r1.mod \in NeedsItself /\ Handle(r1) # Handle(r2)
    BY DEF ListedAreOpen
  <2>1. i \in 1..Len(loaded[l1]) /\ j \in 1..Len(loaded[l2])
    BY Facts
  <2> QED
    BY <2>1, Facts DEF Lists, ListedOpened, ListedOnce, Twice, Handle, TornDown
<1> QED
  BY <1>1, Inductive, PTL

(* Steps that do not call a callback with a flag.                          *)
LEMMA NoEntry ==
  ASSUME stack \in Seq(FrameType), NEW m, NEW fn,
         \/ stack' = stack
         \/ stack # <<>> /\ stack' = Tail(stack)
         \/ stack # <<>> /\ \E f \in FrameType : stack' = <<f>> \o Tail(stack)
         \/ stack' # <<>> /\ Head(stack').at # "call"
         \/ stack' # <<>> /\ Head(stack').fn # fn
  PROVE  ~Enters(fn, m)
<1> SUFFICES ASSUME Enters(fn, m) PROVE FALSE
  OBVIOUS
<1>1. Len(stack') > Len(stack) /\ Head(stack').at = "call" /\ Head(stack').fn = fn
  BY DEF Enters
<1>2. Len(stack) \in Nat
  OBVIOUS
<1>3. CASE stack' = stack
  BY <1>1, <1>2, <1>3
<1>4. CASE stack # <<>> /\ stack' = Tail(stack)
  <2>1. Len(stack') = Len(stack) - 1
    BY <1>4, Popped
  <2> QED
    BY <1>1, <1>2, <2>1
<1>5. CASE stack # <<>> /\ \E f \in FrameType : stack' = <<f>> \o Tail(stack)
  <2>1. Len(stack') = Len(stack)
    BY <1>5, Replaced
  <2> QED
    BY <1>1, <1>2, <2>1
<1> QED
  BY <1>1, <1>3, <1>4, <1>5

(* The first of the frames that are pushed is the one on top.              *)
LEMMA Pushes ==
  ASSUME NEW S, NEW f, NEW g, NEW h, NEW e, NEW s \in Seq(S)
  PROVE  /\ <<f>> \o s # <<>> /\ Head(<<f>> \o s) = f
         /\ <<f, g>> \o s # <<>> /\ Head(<<f, g>> \o s) = f
         /\ <<f, g, h>> \o s # <<>> /\ Head(<<f, g, h>> \o s) = f
         /\ <<f, g, h, e>> \o s # <<>> /\ Head(<<f, g, h, e>> \o s) = f
<1> DEFINE T == S \union {f, g, h, e}
<1>1. s \in Seq(T) /\ <<f>> \in Seq(T) /\ <<f, g>> \in Seq(T) /\ <<f, g, h>> \in Seq(T)
      /\ <<f, g, h, e>> \in Seq(T)
  OBVIOUS
<1> QED
  BY <1>1

(* The host's calls push frames that are not callbacks.                    *)
LEMMA StartEntersNothing ==
  ASSUME IInv, Start, NEW m, NEW fn
  PROVE  ~Enters(fn, m)
<1>1. stack \in Seq(FrameType) /\ Tail(stack) = Tail(stack)
  BY Facts
<1>2. \A list, f : OpenFrame(list).at # "call" /\ ForFrame(list, f).at # "call"
  BY DEF OpenFrame, ForFrame
<1>3. OrigFrame.at # "call"
  BY DEF OrigFrame
<1>4. \A list, pos, x : RequireFrame(list, pos, x).at # "call" /\ CloseFrame(list, pos, x).at # "call"
  BY DEF RequireFrame, CloseFrame
<1>5. stack' = stack \/ (stack' # <<>> /\ Head(stack').at # "call")
  <2>1. CASE modloader_preload \/ modloader_accept_unity_handle
    BY <2>1 DEF modloader_preload, modloader_accept_unity_handle
  <2>2. CASE modloader_load
    <3>1. \/ stack' = stack
          \/ stack' = <<OpenFrame("Libs"), OpenFrame("EarlyMods"), ForFrame("EarlyMods", "setup")>> \o stack
      BY <2>2, Zenon DEF modloader_load, Push
    <3>2. \A f, g, h : <<f, g, h>> \o stack # <<>> /\ Head(<<f, g, h>> \o stack) = f
      BY <1>1, Pushes
    <3>3. /\ <<OpenFrame("Libs"), OpenFrame("EarlyMods"), ForFrame("EarlyMods", "setup")>> \o stack # <<>>
          /\ Head(<<OpenFrame("Libs"), OpenFrame("EarlyMods"), ForFrame("EarlyMods", "setup")>> \o stack)
               = OpenFrame("Libs")
      BY <3>2
    <3> QED
      BY <1>2, <3>1, <3>3
  <2>3. CASE Il2cppInit
    BY <1>1, <1>2, <2>3, Pushes DEF Il2cppInit, Push
  <2>4. CASE DestroyObject
    BY <1>1, <1>3, <2>4, Pushes DEF DestroyObject, Push
  <2>5. CASE \E request \in Requests : modloader_require_mod(request)
    BY <1>1, <1>4, <2>5, Pushes DEF modloader_require_mod, Push
  <2>6. CASE \E request \in Requests : modloader_force_unload(request)
    BY <1>1, <1>4, <2>6, Pushes DEF modloader_force_unload, Push
  <2>7. CASE modloader_unload
    <3>1. \/ stack' = stack
          \/ stack' = <<ForFrame("Mods", "close"), ForFrame("EarlyMods", "close"),
                        ForFrame("Libs", "close"), ClearFrame>> \o stack
      BY <2>7, Zenon DEF modloader_unload, Push
    <3> QED
      BY <1>1, <1>2, <3>1, Pushes
  <2> QED
    BY <2>1, <2>2, <2>3, <2>4, <2>5, <2>6, <2>7 DEF Start
<1> QED
  BY <1>1, <1>5, NoEntry

(* Of what is in progress, the loops and the requires call them, and only  *)
(* when they are due.                                                      *)
LEMMA EntryIsDue ==
  ASSUME IInv, ForNext \/ RequireNext, stack' \in Seq(FrameType),
         NEW m \in Mod, NEW fn, Enters(fn, m)
  PROVE  /\ \E list \in OpenedPhases : \E pos \in DOMAIN loaded[list] :
              /\ loaded[list][pos].ok /\ loaded[list][pos].mod = m /\ Due(loaded[list][pos], fn)
              /\ Top.list = list /\ Top.pos = pos
         /\ \/ Top.at = "for" /\ Top.fn = fn
            \/ Top.at = "require" /\ Top.todo # <<>> /\ Head(Top.todo) = fn /\ InPhase(fn)
<1> DEFINE result == loaded[Top.list][Top.pos]
<1>1. stack # <<>> /\ stack \in Seq(FrameType) /\ Tail(stack) \in Seq(FrameType)
  BY Facts DEF ForNext, RequireNext, TopIs
<1>2. Top \in FrameType /\ InPlace(Top)
  BY <1>1, Facts, StackTop
<1>3. CASE ForNext
  <2>1. Top.at = "for" /\ Top.pos \in 1..Top.end /\ Top \in ForFrameType
    BY <1>2, <1>3, FrameKinds DEF ForNext, TopIs
  <2>2. Top.list \in OpenedPhases /\ Top.pos \in Nat /\ Top.end \in Nat
    BY <2>1, ForFrames
  <2>3. Top.pos \in 1..Len(loaded[Top.list])
    <3>1. Top.end <= Len(loaded[Top.list]) /\ Len(loaded[Top.list]) \in Nat
      BY <1>2, <2>1, <2>2, Facts DEF InPlace
    <3> QED
      BY <2>1, <2>2, <3>1
  <2>4. ~Stale(Top.list, Top.pos)
    BY <2>2, <2>3, Held
  <2> DEFINE next == [Top EXCEPT !.pos = @ + 1]
  <2>5. next \in FrameType
    BY <2>1, ForFramesNext DEF FrameType
  <2> HIDE DEF next
  <2>6. CASE stack' = <<next>> \o Tail(stack)
    BY <1>1, <2>5, <2>6, NoEntry
  <2>7. CASE stack' = <<CloseFrame(Top.list, Top.pos, "close_all"), next>> \o Tail(stack)
    <3>1. CloseFrame(Top.list, Top.pos, "close_all").at # "call"
      BY DEF CloseFrame
    <3> QED
      BY <1>1, <2>7, <3>1, Pushes, NoEntry
  <2>8. CASE /\ result.ok /\ Due(result, Top.fn)
             /\ stack' = <<CallFrame(Top.fn, result.mod, Top.list, Top.pos), next>> \o Tail(stack)
    <3>1. Head(stack') = CallFrame(Top.fn, result.mod, Top.list, Top.pos)
      BY <1>1, <2>8, Pushes
    <3>2. fn = Top.fn /\ m = result.mod
      BY <3>1 DEF Enters, CallFrame
    <3>3. Top.pos \in DOMAIN loaded[Top.list]
      BY <2>2, <2>3, Facts
    <3> QED
      BY <2>1, <2>2, <2>8, <3>2, <3>3
  <2> QED
    BY <1>3, <2>4, <2>6, <2>7, <2>8 DEF ForNext, CallFrom, Advance, next
<1>4. CASE RequireNext
  <2>1. Top.at = "require" /\ Top.todo # <<>> /\ Top \in RequireFrameType
    BY <1>2, <1>4, FrameKinds DEF RequireNext, TopIs
  <2>2. Top.list \in OpenedPhases /\ Top.pos \in Nat
    BY <2>1, RequireFrames
  <2>3. Top.pos \in 1..Len(loaded[Top.list]) /\ result.ok
    BY <1>2, <2>1 DEF InPlace, Holds
  <2>4. ~Stale(Top.list, Top.pos)
    BY <2>2, <2>3, Held
  <2> DEFINE next == [Top EXCEPT !.todo = Tail(@)]
             fn1 == Head(Top.todo)
  <2>5. next \in FrameType
    BY <2>1, RequireFrames DEF FrameType
  <2> HIDE DEF next, fn1
  <2>6. CASE stack' = <<next>> \o Tail(stack)
    BY <1>1, <2>5, <2>6, NoEntry
  <2>7. CASE stack' = Tail(stack)
    BY <1>1, <2>7, NoEntry
  <2>8. CASE /\ Due(result, fn1) /\ InPhase(fn1)
             /\ stack' = <<CallFrame(fn1, result.mod, Top.list, Top.pos), next>> \o Tail(stack)
    <3>1. Head(stack') = CallFrame(fn1, result.mod, Top.list, Top.pos)
      BY <1>1, <2>8, Pushes
    <3>2. fn = fn1 /\ m = result.mod
      BY <3>1 DEF Enters, CallFrame
    <3>3. Top.pos \in DOMAIN loaded[Top.list]
      BY <2>2, <2>3, Facts
    <3> QED
      BY <2>1, <2>2, <2>3, <2>8, <3>2, <3>3 DEF fn1
  <2> QED
    BY <1>4, <2>4, <2>6, <2>7, <2>8 DEF RequireNext, CallFrom, Advance, Pop, next, fn1
<1> QED
  BY <1>3, <1>4

LEMMA OtherRunEntersNothing ==
  ASSUME IInv, Run, ~ForNext, ~RequireNext, NEW m, NEW fn,
         OpenNext => fn # "ctor", CloseCall => fn # "unload"
  PROVE  ~Enters(fn, m)
<1>1. stack \in Seq(FrameType) /\ stack # <<>> /\ Top \in FrameType /\ Tail(stack) \in Seq(FrameType)
  <2>1. stack # <<>>
    BY DEF Run, setup_unity_hook, OrigReturns, OpenBegin, OpenNext, NextMod, SkipDependency,
           OpenLibrary, OpenEnd, ForBegin, ForEnd, ReturnFlagged, ReturnUnload, ReturnCtor, RequireEnd, CloseCall, Dlclose, ClearLists, TopIs
  <2> QED
    BY <2>1, Facts, StackTop
<1>2. \A list, m1, pos : /\ CallFrame("ctor", m1, list, pos).fn = "ctor"
                         /\ CallFrame("unload", m1, list, pos).fn = "unload"
  BY DEF CallFrame
<1>3. CASE setup_unity_hook \/ OpenEnd \/ ForEnd \/ ReturnUnload \/ RequireEnd \/ ClearLists
  <2>1. stack' = Tail(stack)
    BY <1>3 DEF setup_unity_hook, OpenEnd, ForEnd, ReturnUnload, RequireEnd, ClearLists, Pop
  <2> QED
    BY <1>1, <2>1, NoEntry
<1>4. CASE OrigReturns
  <2>1. OpenFrame("Mods").at # "call"
    BY DEF OpenFrame
  <2> QED
    BY <1>1, <1>4, <2>1, Pushes, NoEntry DEF OrigReturns
<1>5. CASE OpenBegin \/ ForBegin
  <2>1. PICK f : stack' = <<f>> \o Tail(stack) /\ f.at = Top.at /\ Top.at # "call"
    <3>1. CASE OpenBegin
      <4>1. [Top EXCEPT !.begun = TRUE].at = Top.at
        BY <1>1, <3>1, FrameKinds, OpenFrames DEF OpenBegin, TopIs
      <4> QED
        BY <3>1, <4>1, Zenon DEF OpenBegin, Advance, TopIs
    <3>2. CASE ForBegin
      <4>1. [Top EXCEPT !.pos = 1, !.end = Len(loaded[Top.list])].at = Top.at
        BY <1>1, <3>2, FrameKinds DEF ForBegin, TopIs, ForFrameType
      <4> QED
        BY <3>2, <4>1 DEF ForBegin, Advance, TopIs
    <3> QED
      BY <1>5, <3>1, <3>2
  <2> QED
    BY <1>1, <2>1, Pushes, NoEntry
<1>6. CASE OpenNext
  <2>1. Top \in OpenFrameType /\ Top.at = "open"
    BY <1>1, <1>6, FrameKinds DEF OpenNext, NextMod, SkipDependency, OpenLibrary, TopIs
  <2>2. CASE \E f : stack' = <<f>> \o Tail(stack) /\ f.at = "open"
    BY <1>1, <2>2, Pushes, NoEntry
  <2>3. CASE \E list, m1 : stack' = <<CallFrame("ctor", m1, list, 0), Top>> \o Tail(stack)
    <3>1. stack' # <<>> /\ Head(stack').fn = "ctor"
      BY <1>1, <1>2, <2>3, Pushes
    <3> QED
      BY <1>1, <1>6, <3>1, NoEntry
  <2>4. /\ [Top EXCEPT !.mods = Tail(@)].at = "open"
        /\ \A deps : [Top EXCEPT !.loading = TRUE, !.deps = deps].at = "open"
        /\ [Top EXCEPT !.deps = Tail(@)].at = "open"
        /\ \A r : Recorded(Top, r).at = "open"
    BY <2>1 DEF OpenFrameType, Recorded
  <2>5. CASE NextMod
    BY <2>2, <2>4, <2>5 DEF NextMod, Advance
  <2>6. CASE SkipDependency
    BY <2>2, <2>4, <2>6 DEF SkipDependency, Advance
  <2>7. CASE OpenLibrary
    BY <2>2, <2>3, <2>4, <2>7, Zenon DEF OpenLibrary, CallFrom, Advance
  <2> QED
    BY <1>6, <2>5, <2>6, <2>7 DEF OpenNext
<1>7. CASE ReturnFlagged
  BY <1>1, <1>7, NoEntry DEF ReturnFlagged, Pop, UseStale
<1>8. CASE ReturnCtor
  <2>1. Top = stack[1] /\ Top.at = "call" /\ Top.fn = "ctor" /\ Len(stack) \in Nat /\ 1 \in 1..Len(stack)
    BY <1>1, <1>8, Facts, StackTop DEF ReturnCtor, TopIs
  <2>2. 1 + 1 \in 1..Len(stack) /\ stack[1 + 1].at = "open" /\ 1 + 1 = 2
    BY <2>1, Facts DEF Shape, CallsHaveCallers
  <2>3. stack[2] \in OpenFrameType /\ stack[2].at = "open" /\ Tail(stack) # <<>>
    <3>1. Len(Tail(stack)) = Len(stack) - 1
      BY <1>1, Popped
    <3>2. Len(Tail(stack)) # 0 /\ Len(<<>>) = 0
      BY <2>1, <2>2, <3>1
    <3>3. Tail(stack) # <<>>
      BY <3>2, Zenon
    <3> QED
      BY <2>2, <3>3, Facts, FrameKinds
  <2> DEFINE g == Recorded(stack[2], LoadedMod(Top.mod, RoleOf(stack[2])))
  <2>4. g.at = "open"
    BY <2>3 DEF OpenFrameType, Recorded
  <2>5. Tail(Tail(stack)) \in Seq(FrameType)
    BY <1>1, <2>3, Popped
  <2>6. stack' = <<g>> \o Tail(Tail(stack))
    BY <1>8 DEF ReturnCtor
  <2> HIDE DEF g
  <2> QED
    BY <1>1, <2>4, <2>5, <2>6, Pushes, NoEntry
<1>9. CASE CloseCall
  <2>1. Top.at = "close" /\ Top \in CloseFrameType
    BY <1>1, <1>9, FrameKinds DEF CloseCall, TopIs
  <2> DEFINE f == [Top EXCEPT !.called = TRUE]
  <2>2. f.at = "close"
    BY <2>1, CloseFrames
  <2> HIDE DEF f
  <2>3. \/ stack' = stack
        \/ stack' = <<f>> \o Tail(stack)
        \/ \E list, m1, pos : stack' = <<CallFrame("unload", m1, list, pos), f>> \o Tail(stack)
    BY <1>9 DEF CloseCall, UseStale, CallFrom, Advance, f
  <2>4. ASSUME stack' = <<f>> \o Tail(stack) PROVE ~Enters(fn, m)
    BY <1>1, <2>2, <2>4, Pushes, NoEntry
  <2>5. ASSUME NEW list, NEW m1, NEW pos,
               stack' = <<CallFrame("unload", m1, list, pos), f>> \o Tail(stack)
        PROVE  ~Enters(fn, m)
    <3>1. stack' # <<>> /\ Head(stack').fn = "unload"
      BY <1>1, <1>2, <2>5, Pushes
    <3> QED
      BY <1>1, <1>9, <3>1, NoEntry
  <2> QED
    BY <1>1, <2>3, <2>4, <2>5, NoEntry
<1>10. CASE Dlclose
  BY <1>1, <1>10, NoEntry DEF Dlclose, Pop, UseStale
<1> QED
  BY <1>3, <1>4, <1>5, <1>6, <1>7, <1>8, <1>9, <1>10 DEF Run

(* A callback of an object that does not need itself is not called again   *)
(* when it has returned: the flag of its LoadedMod is set then.            *)
THEOREM CalledOnce == ASSUME CallbacksDoNotUnload PROVE Spec => CallbackOnce
<1>1. IInv /\ IInv' /\ [Next]_vars =>
        [\A m \in Mod \ NeedsItself : \A fn \in Flags : Enters(fn, m) => fn \notin returned[m]]_vars
  <2> SUFFICES ASSUME IInv, IInv', Next, NEW m \in Mod \ NeedsItself, NEW fn \in Flags, Enters(fn, m)
               PROVE  fn \notin returned[m]
    BY DEF vars
  <2>1. stack' \in Seq(FrameType)
    BY DEF IInv, TypeOK
  <2>2. ForNext \/ RequireNext
    BY StartEntersNothing, OtherRunEntersNothing DEF Next, Flags
  <2>3. \E list \in OpenedPhases : \E pos \in DOMAIN loaded[list] :
          loaded[list][pos].ok /\ loaded[list][pos].mod = m /\ Due(loaded[list][pos], fn)
    BY <2>1, <2>2, EntryIsDue
  <2> QED
    BY <2>3, Facts DEF Due, Lists, FlagsTruthful
<1> QED
  BY <1>1, Inductive, PTL DEF Spec, CallbackOnce
=============================================================================
