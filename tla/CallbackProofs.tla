--------------------------- MODULE CallbackProofs --------------------------
(***************************************************************************)
(* Theorems about Modloader that say which callbacks have returned, in     *)
(* which order the stages of the mods come, that no handle is forgotten and *)
(* that nothing of an object is called when its last handle is given back, *)
(* under the same assumption as those of ModloaderProofs and, for the last *)
(* two, one more each.                                                     *)
(***************************************************************************)
EXTENDS ModloaderProofs

(* What the loops of loadMods make of their frame: they go on, or the      *)
(* constructors of the object are called.                                  *)
LEMMA OpenSteps ==
  ASSUME IInv, OpenNext
  PROVE  /\ stack # <<>> /\ Top.at = "open" /\ Top \in OpenFrameType /\ Top.mods # <<>>
         /\ UNCHANGED <<hostVars, current_load_phase, opened, loaded, undefined, historyVars>>
         /\ skip_load \subseteq skip_load'
         /\ \/ \E f : /\ f.at = "open" /\ f.list = Top.list
                     /\ stack' = <<f>> \o Tail(stack)
            \/ \E m : stack' = <<CallFrame("ctor", m, Top.list, 0), Top>> \o Tail(stack)
<1>1. stack # <<>> /\ Top.at = "open"
  BY DEF OpenNext, NextMod, SkipDependency, OpenLibrary, TopIs
<1>2. Top \in OpenFrameType /\ ResultsNew(Top)
  BY <1>1, Facts, StackTop, FrameKinds
<1>3. Top.mods # <<>>
  <2>1. Top.loading => Top.mods # <<>>
    BY <1>1, <1>2 DEF ResultsNew, LoadsNew
  <2> QED
    BY <2>1 DEF OpenNext, NextMod, SkipDependency, OpenLibrary
<1>4. /\ UNCHANGED <<hostVars, current_load_phase, opened, loaded, undefined, historyVars>>
      /\ skip_load \subseteq skip_load'
  BY DEF OpenNext, NextMod, SkipDependency, OpenLibrary, listVars
<1>5. /\ [Top EXCEPT !.mods = Tail(@)].at = "open" /\ [Top EXCEPT !.mods = Tail(@)].list = Top.list
      /\ \A deps : /\ [Top EXCEPT !.loading = TRUE, !.deps = deps].at = "open"
                   /\ [Top EXCEPT !.loading = TRUE, !.deps = deps].list = Top.list
      /\ [Top EXCEPT !.deps = Tail(@)].at = "open" /\ [Top EXCEPT !.deps = Tail(@)].list = Top.list
      /\ \A r : Recorded(Top, r).at = "open" /\ Recorded(Top, r).list = Top.list
  BY <1>1, <1>2 DEF OpenFrameType, Recorded
<1>6. \/ \E f : f.at = "open" /\ f.list = Top.list /\ stack' = <<f>> \o Tail(stack)
      \/ \E m : stack' = <<CallFrame("ctor", m, Top.list, 0), Top>> \o Tail(stack)
  <2>1. CASE NextMod
    BY <1>5, <2>1 DEF NextMod, Advance
  <2>2. CASE SkipDependency
    BY <1>5, <2>2 DEF SkipDependency, Advance
  <2>3. CASE OpenLibrary
    BY <1>5, <2>3 DEF OpenLibrary, Advance, CallFrom
  <2> QED
    BY <2>1, <2>2, <2>3 DEF OpenNext
<1> QED
  BY <1>1, <1>2, <1>3, <1>4, <1>6

(* What the return of a constructor makes of the stack.                    *)
LEMMA CtorSteps ==
  ASSUME IInv, ReturnCtor
  PROVE  LET f == Recorded(stack[2], LoadedMod(Top.mod, RoleOf(stack[2]))) IN
         /\ stack # <<>> /\ Top.at = "call" /\ Top.fn = "ctor" /\ Top = stack[1] /\ Top.mod \in Mod
         /\ Len(stack) \in Nat /\ 1 \in 1..Len(stack) /\ 2 \in 1..Len(stack)
         /\ stack[2] \in OpenFrameType /\ stack[2] \in FrameType
         /\ stack[2].at = "open" /\ stack[2].begun /\ stack[2].loading
         /\ stack[2].mods # <<>>
         /\ Tail(Tail(stack)) \in Seq(FrameType)
         /\ stack' = <<f>> \o Tail(Tail(stack))
         /\ f.at = "open" /\ f.list = stack[2].list
<1>1. stack # <<>> /\ Top.at = "call" /\ Top.fn = "ctor" /\ stack \in Seq(FrameType)
  BY Facts DEF ReturnCtor, TopIs
<1>2. Top = stack[1] /\ Len(stack) \in Nat /\ 1 \in 1..Len(stack) /\ Top \in FrameType
  BY <1>1, Facts, StackTop
<1>3. Top.mod \in Mod
  BY <1>1, <1>2, FrameKinds, CallFrames
<1>4. 1 + 1 \in 1..Len(stack) /\ stack[1 + 1].at = "open" /\ stack[1 + 1].begun /\ stack[1 + 1].loading
      /\ 1 + 1 = 2
  BY <1>1, <1>2, Facts DEF Shape, CallsHaveCallers
<1>5. stack[2] \in OpenFrameType /\ stack[2] \in FrameType /\ ResultsNew(stack[2])
  BY <1>1, <1>4, Facts, FrameKinds DEF Frames
<1>6. stack[2].mods # <<>>
  BY <1>4, <1>5 DEF ResultsNew, LoadsNew
<1>7. \A r : Recorded(stack[2], r).at = "open" /\ Recorded(stack[2], r).list = stack[2].list
  BY <1>4, <1>5 DEF OpenFrameType, Recorded
<1>8. Tail(Tail(stack)) \in Seq(FrameType)
  <2>1. Tail(stack) \in Seq(FrameType) /\ Len(Tail(stack)) = Len(stack) - 1
    BY <1>1, Popped
  <2>2. Tail(stack) # <<>>
    <3>1. Len(Tail(stack)) # 0 /\ Len(<<>>) = 0
      BY <1>2, <1>4, <2>1
    <3> QED
      BY <3>1, Zenon
  <2> QED
    BY <2>1, <2>2, Popped
<1>9. stack' = <<Recorded(stack[2], LoadedMod(Top.mod, RoleOf(stack[2])))>> \o Tail(Tail(stack))
  BY DEF ReturnCtor
<1> QED
  BY <1>1, <1>2, <1>3, <1>4, <1>5, <1>6, <1>7, <1>8, <1>9

(* What modloader_require_mod sees to in the current phase.                *)
Asked(fn, f) == InPhase(fn) /\ (fn = "load" => f.list = "EarlyMods")

(* A require is not yet at a callback, or waits for it, or it has returned. *)
ServedAt(i) ==
  stack[i].at = "require" =>
    \A fn \in Flags : Asked(fn, stack[i]) =>
      \/ fn \in Range(stack[i].todo)
      \/ fn \in returned[stack[i].mod]
      \/ /\ i > 1
         /\ stack[i - 1].at = "call" /\ stack[i - 1].fn = fn
         /\ stack[i - 1].mod = stack[i].mod

RequiresServed == \A i \in 1..Len(stack) : ServedAt(i)

-----------------------------------------------------------------------------
(* The frames that a step leaves as they are.                              *)

(* What is put on a stack of frames is a frame.                            *)
LEMMA FirstTyped ==
  ASSUME NEW S, NEW s \in Seq(S), NEW f, NEW g
  PROVE  /\ <<f>> \o s \in Seq(S) => f \in S
         /\ <<g, f>> \o s \in Seq(S) => f \in S /\ g \in S
<1>1. ASSUME <<f>> \o s \in Seq(S) PROVE f \in S
  <2>1. Head(<<f>> \o s) \in S
    BY <1>1, Pushes
  <2> QED
    BY <2>1, Pushes
<1>2. ASSUME <<g, f>> \o s \in Seq(S) PROVE f \in S /\ g \in S
  <2>1. (<<g, f>> \o s)[1] = g /\ (<<g, f>> \o s)[2] = f /\ Len(<<g, f>> \o s) >= 2
    <3> DEFINE T == S \union {f, g}
    <3>1. s \in Seq(T) /\ <<g, f>> \in Seq(T)
      OBVIOUS
    <3> QED
      BY <3>1
  <2>2. \A t \in Seq(S) : Len(t) >= 2 => t[1] \in S /\ t[2] \in S
    OBVIOUS
  <2> QED
    BY <1>2, <2>1, <2>2
<1> QED
  BY <1>1, <1>2

(* No callback is forgotten, and the phase is the same.                    *)
Grows ==
  /\ \A m \in Mod : returned[m] \subseteq returned'[m]
  /\ UNCHANGED current_load_phase

(* A callback that has to be waited for.                                   *)
Awaited(f) == f.at = "call" /\ f.fn \in Flags

(* A frame is left as it is with the frame that it has called, unless that  *)
(* has returned.                                                           *)
LEMMA FrameKept ==
  ASSUME RequiresServed, Grows, NEW k \in 1..Len(stack), NEW i \in Nat, stack'[i] = stack[k],
         stack[k] \in FrameType,
         k > 1 /\ Awaited(stack[k - 1]) =>
           \/ i > 1 /\ stack'[i - 1] = stack[k - 1]
           \/ stack[k - 1].fn \in returned'[stack[k - 1].mod]
  PROVE  ServedAt(i)'
<1> SUFFICES ASSUME stack[k].at = "require", NEW fn \in Flags, InPhase(fn)',
                    fn = "load" => stack[k].list = "EarlyMods",
                    fn \notin Range(stack[k].todo), fn \notin returned'[stack[k].mod]
             PROVE  /\ i > 1
                    /\ stack'[i - 1].at = "call" /\ stack'[i - 1].fn = fn
                    /\ stack'[i - 1].mod = stack[k].mod
  BY DEF ServedAt, Asked
<1>1. stack[k].mod \in Mod /\ Asked(fn, stack[k])
  <2>1. stack[k] \in RequireFrameType
    BY FrameKinds
  <2>2. InPhase(fn)
    BY DEF InPhase, Grows
  <2> QED
    BY <2>1, <2>2, RequireFrames DEF Asked
<1>2. /\ k > 1
      /\ stack[k - 1].at = "call" /\ stack[k - 1].fn = fn
      /\ stack[k - 1].mod = stack[k].mod
  BY <1>1 DEF RequiresServed, ServedAt, Grows
<1> QED
  BY <1>2 DEF Awaited

(* Of no require there is nothing to say.                                  *)
LEMMA NoRequire ==
  ASSUME NEW i, stack'[i].at # "require"
  PROVE  ServedAt(i)'
BY DEF ServedAt

-----------------------------------------------------------------------------
(* The things that happen to the stack.                                    *)

(* The innermost frame goes away, and is no callback to be waited for.     *)
LEMMA PopServes ==
  ASSUME IInv, RequiresServed, Grows, stack # <<>>, stack' = Tail(stack),
         Awaited(Top) => Top.fn \in returned'[Top.mod]
  PROVE  RequiresServed'
<1>1. /\ Len(stack) \in Nat /\ Len(stack') = Len(stack) - 1
      /\ \A i \in 1..(Len(stack) - 1) : stack'[i] = stack[i + 1]
      /\ stack \in Seq(FrameType)
  BY Facts, Popped
<1>2. Top = stack[1]
  BY Facts, StackTop
<1> SUFFICES ASSUME NEW i \in 1..(Len(stack) - 1) PROVE ServedAt(i)'
  BY <1>1 DEF RequiresServed
<1>3. /\ i + 1 \in 1..Len(stack) /\ i \in Nat /\ stack'[i] = stack[i + 1]
      /\ stack[i + 1] \in FrameType
  BY <1>1
<1>4. (i + 1) - 1 = i /\ (i = 1 \/ (i > 1 /\ stack'[i - 1] = stack[i]))
  BY <1>1
<1>5. Awaited(stack[(i + 1) - 1]) =>
        \/ i > 1 /\ stack'[i - 1] = stack[(i + 1) - 1]
        \/ stack[(i + 1) - 1].fn \in returned'[stack[(i + 1) - 1].mod]
  BY <1>2, <1>4
<1> HIDE DEF Awaited
<1> QED
  BY <1>3, <1>5, FrameKept

(* The innermost frame is replaced, with a frame above it or without.      *)
LEMMA AdvanceServes ==
  ASSUME IInv, RequiresServed, Grows, stack # <<>>, ~Awaited(Top), NEW f \in FrameType,
         \/ stack' = <<f>> \o Tail(stack)
         \/ \E g \in FrameType : g.at # "require" /\ stack' = <<g, f>> \o Tail(stack),
         f.at = "require" =>
           \A fn \in Flags : Asked(fn, f) =>
             \/ fn \in Range(f.todo)
             \/ fn \in returned[f.mod]
             \/ /\ Len(stack') = Len(stack) + 1
                /\ Head(stack').at = "call" /\ Head(stack').fn = fn /\ Head(stack').mod = f.mod
  PROVE  RequiresServed'
<1>1. /\ stack \in Seq(FrameType) /\ Len(stack) \in Nat /\ Len(stack) >= 1 /\ Top = stack[1]
      /\ \A i \in 1..Len(stack) : stack[i] \in FrameType
  BY Facts, StackTop
<1>2. f.at = "require" => f.mod \in Mod
  BY FrameKinds, RequireFrames
<1>3. CASE stack' = <<f>> \o Tail(stack)
  <2>1. /\ Len(stack') = Len(stack) /\ stack'[1] = f
        /\ \A i \in 2..Len(stack) : stack'[i] = stack[i]
    BY <1>1, <1>3, Replaced
  <2>2. ServedAt(1)'
    <3> SUFFICES ASSUME f.at = "require", NEW fn \in Flags, InPhase(fn)', fn = "load" => f.list = "EarlyMods"
                 PROVE  fn \in Range(f.todo) \/ fn \in returned'[f.mod]
      BY <2>1 DEF ServedAt, Asked
    <3>1. Asked(fn, f)
      BY DEF Asked, InPhase, Grows
    <3>2. ~(Len(stack') = Len(stack) + 1)
      BY <1>1, <2>1
    <3> QED
      BY <1>2, <3>1, <3>2 DEF Grows
  <2>3. ASSUME NEW i \in 2..Len(stack) PROVE ServedAt(i)'
    <3>1. i \in 1..Len(stack) /\ i \in Nat /\ i > 1 /\ stack'[i] = stack[i]
      BY <1>1, <2>1
    <3>2. i - 1 = 1 \/ (i - 1 \in 2..Len(stack) /\ stack'[i - 1] = stack[i - 1])
      BY <1>1, <2>1
    <3> QED
      BY <1>1, <3>1, <3>2, FrameKept
  <2> QED
    BY <1>1, <2>1, <2>2, <2>3 DEF RequiresServed
<1>4. ASSUME NEW g \in FrameType, g.at # "require", stack' = <<g, f>> \o Tail(stack)
      PROVE  RequiresServed'
  <2>1. /\ Len(stack') = Len(stack) + 1 /\ stack'[1] = g /\ stack'[2] = f
        /\ \A i \in 3..(Len(stack) + 1) : stack'[i] = stack[i - 1]
    BY <1>1, <1>4, CalledFrom
  <2>2. ServedAt(1)'
    BY <1>4, <2>1, NoRequire
  <2>3. ServedAt(2)'
    <3>1. Head(stack') = g
      BY <1>1, <1>4, Popped, Pushes
    <3>2. 2 > 1 /\ stack'[2 - 1] = g
      BY <2>1
    <3> QED
      BY <1>1, <1>2, <2>1, <3>1, <3>2 DEF ServedAt, Asked, InPhase, Grows
  <2>4. ASSUME NEW i \in 3..(Len(stack) + 1) PROVE ServedAt(i)'
    <3>1. i - 1 \in 1..Len(stack) /\ i \in Nat /\ i > 1 /\ stack'[i] = stack[i - 1]
      BY <1>1, <2>1
    <3>2. (i - 1) - 1 = 1 \/ (i - 1 \in 3..(Len(stack) + 1) /\ stack'[i - 1] = stack[(i - 1) - 1])
      BY <1>1, <2>1
    <3> QED
      BY <1>1, <3>1, <3>2, FrameKept
  <2> QED
    BY <1>1, <2>1, <2>2, <2>3, <2>4 DEF RequiresServed
<1> QED
  BY <1>3, <1>4

(* A frame is put on the stack.                                            *)
LEMMA PushServes ==
  ASSUME IInv, RequiresServed, Grows, NEW f \in FrameType, stack' = <<f>> \o stack,
         f.at = "require" => \A fn \in Flags : Asked(fn, f) => fn \in Range(f.todo)
  PROVE  RequiresServed'
<1>1. /\ stack \in Seq(FrameType) /\ Len(stack) \in Nat
      /\ Len(stack') = Len(stack) + 1 /\ stack'[1] = f
      /\ \A i \in 2..(Len(stack) + 1) : stack'[i] = stack[i - 1]
  BY Facts, Pushed
<1>2. ServedAt(1)'
  BY <1>1 DEF ServedAt, Asked, InPhase, Grows
<1>3. ASSUME NEW i \in 2..(Len(stack) + 1) PROVE ServedAt(i)'
  <2>1. /\ i - 1 \in 1..Len(stack) /\ i \in Nat /\ i > 1 /\ stack'[i] = stack[i - 1]
        /\ stack[i - 1] \in FrameType
    BY <1>1
  <2>2. i - 1 > 1 => stack'[i - 1] = stack[(i - 1) - 1]
    BY <1>1
  <2> QED
    BY <2>1, <2>2, FrameKept
<1> QED
  BY <1>1, <1>2, <1>3 DEF RequiresServed

(* There is no require at all.                                             *)
LEMMA NoneServes ==
  ASSUME \A i \in 1..Len(stack') : stack'[i].at # "require"
  PROVE  RequiresServed'
BY NoRequire DEF RequiresServed

(* Above a frame of the base there is none.                                *)
LEMMA BaseServes ==
  ASSUME IInv', stack' # <<>>, Base(Head(stack'))
  PROVE  RequiresServed'
<1>1. stack' \in Seq(FrameType) /\ Head(stack') = stack'[1] /\ Len(stack') \in Nat /\ Len(stack') >= 1
  <2>1. stack' \in Seq(FrameType)
    BY DEF IInv, TypeOK
  <2> QED
    BY <2>1
<1>2. \A j \in 1..Len(stack') : j = 1 \/ Fresh(stack'[j])
  BY <1>1 DEF IInv, Shape, BaseAboveFresh, Base, Fresh
<1> QED
  BY <1>1, <1>2, NoneServes DEF Base, Fresh

(* Nothing happens to the stack.                                           *)
LEMMA SameServes ==
  ASSUME RequiresServed, Grows, UNCHANGED <<stack, returned>>
  PROVE  RequiresServed'
<1>1. \A fn \in Flags : InPhase(fn)' <=> InPhase(fn)
  BY DEF InPhase, Grows
<1> QED
  BY <1>1 DEF RequiresServed, ServedAt, Asked

-----------------------------------------------------------------------------
(* The actions.                                                            *)

(* The returns and the ends of loops and calls.                            *)
LEMMA PopsServe ==
  ASSUME IInv, IInv', RequiresServed,
         \/ setup_unity_hook \/ OpenEnd \/ ForEnd \/ ReturnFlagged \/ ReturnUnload
         \/ RequireEnd \/ Dlclose \/ ClearLists
  PROVE  RequiresServed'
<1>1. ~undefined'
  BY DEF IInv
<1>2. stack # <<>> /\ stack' = Tail(stack) /\ UNCHANGED current_load_phase
  BY <1>1 DEF setup_unity_hook, OpenEnd, ForEnd, ReturnFlagged, ReturnUnload, RequireEnd, Dlclose,
              ClearLists, TopIs, Pop, UseStale, listVars
<1>3. Top \in FrameType /\ returned \in [Mod -> SUBSET Callback]
  BY <1>2, Facts, StackTop
<1>4. CASE UNCHANGED returned /\ ~Awaited(Top)
  BY <1>2, <1>4, PopServes DEF Grows
<1>5. CASE ReturnFlagged \/ ReturnUnload
  <2>1. /\ Top.at = "call" /\ Top.mod \in Mod
        /\ returned' = [returned EXCEPT ![Top.mod] = @ \union {Top.fn}]
    BY <1>1, <1>3, <1>5, FrameKinds, CallFrames DEF ReturnFlagged, ReturnUnload, TopIs, UseStale
  <2>2. Top.fn \in returned'[Top.mod] /\ \A m \in Mod : returned[m] \subseteq returned'[m]
    BY <1>3, <2>1
  <2> QED
    BY <1>2, <2>2, PopServes DEF Grows
<1>6. CASE setup_unity_hook \/ OpenEnd \/ ForEnd \/ RequireEnd \/ Dlclose \/ ClearLists
  <2>1. UNCHANGED returned /\ Top.at # "call"
    BY <1>1, <1>6 DEF setup_unity_hook, OpenEnd, ForEnd, RequireEnd, Dlclose, ClearLists, TopIs,
                      UseStale, historyVars
  <2> QED
    BY <1>4, <2>1 DEF Awaited
<1> QED
  BY <1>5, <1>6

(* The loops go on, and call something or do not.                          *)
LEMMA LoopsServe ==
  ASSUME IInv, IInv', RequiresServed, ForBegin \/ ForNext \/ OpenNext \/ CloseCall
  PROVE  RequiresServed'
<1>1. ~undefined' /\ stack' \in Seq(FrameType)
  BY DEF IInv, TypeOK
<1>2. /\ stack # <<>> /\ Top.at \in {"for", "open", "close"}
      /\ UNCHANGED <<returned, current_load_phase>>
  <2>1. CASE OpenNext
    BY <2>1, OpenSteps DEF historyVars
  <2>2. CASE ForBegin \/ ForNext \/ CloseCall
    BY <1>1, <2>2 DEF ForBegin, ForNext, CloseCall, TopIs, UseStale, listVars, historyVars
  <2> QED
    BY <2>1, <2>2
<1>3. Top \in FrameType /\ ~Awaited(Top) /\ Grows /\ Tail(stack) \in Seq(FrameType)
  BY <1>2, Facts, StackTop DEF Awaited, Grows
<1>4. ASSUME NEW f, f.at = Top.at,
             \/ stack' = <<f>> \o Tail(stack)
             \/ \E g : g.at # "require" /\ stack' = <<g, f>> \o Tail(stack)
      PROVE  RequiresServed'
  <2>1. CASE stack' = <<f>> \o Tail(stack)
    <3>1. f \in FrameType
      BY <1>1, <2>1, <1>3, FirstTyped
    <3> QED
      BY <1>2, <1>3, <1>4, <2>1, <3>1, AdvanceServes
  <2>2. CASE \E g : g.at # "require" /\ stack' = <<g, f>> \o Tail(stack)
    <3>1. PICK g : g.at # "require" /\ stack' = <<g, f>> \o Tail(stack)
      BY <2>2
    <3>2. f \in FrameType /\ g \in FrameType
      BY <1>1, <3>1, <1>3, FirstTyped
    <3> QED
      BY <1>2, <1>3, <1>4, <3>1, <3>2, AdvanceServes
  <2> QED
    BY <1>4, <2>1, <2>2
<1>5. \A fn, m, list, pos : /\ CallFrame(fn, m, list, pos).at # "require"
                           /\ CloseFrame(list, pos, fn).at # "require"
  BY DEF CallFrame, CloseFrame
<1>6. CASE ForBegin
  <2>1. [Top EXCEPT !.pos = 1, !.end = Len(loaded[Top.list])].at = Top.at
    BY <1>3, <1>6, FrameKinds DEF ForBegin, TopIs, ForFrameType
  <2> QED
    BY <1>4, <1>6, <2>1 DEF ForBegin, Advance
<1>7. CASE ForNext
  <2> DEFINE next == [Top EXCEPT !.pos = @ + 1]
  <2>1. next.at = Top.at
    BY <1>3, <1>7, FrameKinds, ForFramesNext DEF ForNext, TopIs
  <2> HIDE DEF next
  <2>2. \/ stack' = <<next>> \o Tail(stack)
        \/ \E g : g.at # "require" /\ stack' = <<g, next>> \o Tail(stack)
    BY <1>1, <1>5, <1>7 DEF ForNext, UseStale, CallFrom, Advance, next
  <2> QED
    BY <1>4, <2>1, <2>2
<1>8. CASE OpenNext
  <2>1. CASE \E f : f.at = "open" /\ stack' = <<f>> \o Tail(stack)
    BY <1>4, <1>8, <2>1, OpenSteps
  <2>2. CASE \E m : stack' = <<CallFrame("ctor", m, Top.list, 0), Top>> \o Tail(stack)
    BY <1>4, <1>5, <2>2
  <2> QED
    BY <1>8, <2>1, <2>2, OpenSteps
<1>9. CASE CloseCall
  <2> DEFINE next == [Top EXCEPT !.called = TRUE]
  <2>1. next.at = Top.at
    BY <1>3, <1>9, FrameKinds, CloseFrames DEF CloseCall, TopIs
  <2> HIDE DEF next
  <2>2. \/ stack' = <<next>> \o Tail(stack)
        \/ \E g : g.at # "require" /\ stack' = <<g, next>> \o Tail(stack)
    BY <1>1, <1>5, <1>9 DEF CloseCall, UseStale, CallFrom, Advance, next
  <2> QED
    BY <1>4, <2>1, <2>2
<1> QED
  BY <1>6, <1>7, <1>8, <1>9

(* A require sees to a callback, or finds that there is nothing to do.     *)
LEMMA RequireServes ==
  ASSUME IInv, IInv', RequiresServed, RequireNext
  PROVE  RequiresServed'
<1> DEFINE result == loaded[Top.list][Top.pos]
           fn == Head(Top.todo)
           next == [Top EXCEPT !.todo = Tail(@)]
<1>1. ~undefined' /\ stack' \in Seq(FrameType)
  BY DEF IInv, TypeOK
<1>2. stack # <<>> /\ Top.at = "require" /\ Top.todo # <<>>
  BY DEF RequireNext, TopIs
<1>3. Top \in FrameType /\ Top \in RequireFrameType /\ InPlace(Top) /\ Top = stack[1]
      /\ Tail(stack) \in Seq(FrameType) /\ 1 \in 1..Len(stack)
  BY <1>2, Facts, StackTop, FrameKinds
<1>4. Top.list \in OpenedPhases /\ Top.pos \in Nat /\ Top.mod \in Mod /\ Top.todo \in Seq(Flags)
  BY <1>3, RequireFrames
<1>5. Top.pos \in DOMAIN loaded[Top.list] /\ result.ok /\ result.mod = Top.mod
  BY <1>2, <1>3, <1>4, Facts DEF InPlace, Holds
<1>6. UNCHANGED <<returned, current_load_phase>> /\ Grows
  BY <1>1 DEF RequireNext, UseStale, listVars, historyVars, Grows
<1>7. /\ next \in FrameType /\ next.at = "require" /\ next.mod = Top.mod /\ next.list = Top.list
      /\ next.todo = Tail(Top.todo)
  BY <1>2, <1>3, RequireFrames DEF FrameType, RequireFrameType
<1>8. \A x \in Range(Top.todo) : x = fn \/ x \in Range(Tail(Top.todo))
  <2> SUFFICES ASSUME NEW i \in DOMAIN Top.todo, Top.todo[i] # fn
               PROVE  Top.todo[i] \in Range(Tail(Top.todo))
    BY DEF Range
  <2>1. i \in 1..Len(Top.todo) /\ i # 1
    BY <1>4
  <2>2. i - 1 \in DOMAIN Tail(Top.todo) /\ Tail(Top.todo)[i - 1] = Top.todo[i]
    BY <1>2, <1>4, <2>1
  <2> QED
    BY <2>2 DEF Range
<1>9. \A x \in Flags : Asked(x, next) =>
        x = fn \/ x \in Range(next.todo) \/ x \in returned[next.mod]
  <2>1. \A x \in Flags : Asked(x, next) => x \in Range(Top.todo) \/ x \in returned[Top.mod]
    BY <1>2, <1>3, <1>7 DEF RequiresServed, ServedAt, Asked
  <2> QED
    BY <1>7, <1>8, <2>1
<1>10. fn \in result.called => fn \in returned[next.mod]
  BY <1>4, <1>5, <1>7, Facts DEF Lists, FlagsTruthful
<1>11. ~Awaited(Top)
  BY <1>2 DEF Awaited
<1> HIDE DEF next, fn
<1>12. CASE stack' = Tail(stack)
  BY <1>2, <1>6, <1>11, <1>12, PopServes
<1>13. CASE (~InPhase(fn) \/ fn \in result.called) /\ stack' = <<next>> \o Tail(stack)
  <2>1. \A x \in Flags : Asked(x, next) => x \in Range(next.todo) \/ x \in returned[next.mod]
    BY <1>9, <1>10, <1>13 DEF Asked
  <2> QED
    BY <1>2, <1>6, <1>7, <1>11, <1>13, <2>1, AdvanceServes
<1>14. CASE stack' = <<CallFrame(fn, result.mod, Top.list, Top.pos), next>> \o Tail(stack)
  <2> DEFINE g == CallFrame(fn, result.mod, Top.list, Top.pos)
  <2>1. g.at = "call" /\ g.fn = fn /\ g.mod = Top.mod
    BY <1>5 DEF CallFrame
  <2> HIDE DEF g
  <2>2. stack' = <<g, next>> \o Tail(stack)
    BY <1>14 DEF g
  <2>3. g \in FrameType /\ Head(stack') = g
    BY <1>1, <1>3, <2>2, FirstTyped, Pushes
  <2>4. Len(stack') = Len(stack) + 1
    BY <1>2, <1>7, <2>2, <2>3, Facts, CalledFrom
  <2>5. \A x \in Flags : Asked(x, next) =>
          \/ x \in Range(next.todo)
          \/ x \in returned[next.mod]
          \/ /\ Len(stack') = Len(stack) + 1
             /\ Head(stack').at = "call" /\ Head(stack').fn = x /\ Head(stack').mod = next.mod
    BY <1>7, <1>9, <2>1, <2>3, <2>4
  <2>6. g.at # "require"
    BY <2>1
  <2> QED
    BY <1>2, <1>6, <1>7, <1>11, <2>2, <2>3, <2>5, <2>6, AdvanceServes
<1> QED
  BY <1>1, <1>12, <1>13, <1>14 DEF RequireNext, UseStale, CallFrom, Advance, Pop, next, fn

(* The entry points, the hooks, and the steps of loadMods after which       *)
(* nothing but loadMods is in progress.                                    *)
LEMMA EntriesServe ==
  ASSUME IInv, IInv', RequiresServed,
         \/ modloader_preload \/ modloader_load \/ modloader_accept_unity_handle
         \/ Il2cppInit \/ DestroyObject \/ modloader_unload
         \/ OrigReturns \/ OpenBegin \/ ReturnCtor
  PROVE  RequiresServed'
<1>1. stack \in Seq(FrameType) /\ stack' \in Seq(FrameType)
  BY DEF IInv, TypeOK
<1>2. \A list, fn : Base(OpenFrame(list)) /\ Base(ForFrame(list, fn))
  BY DEF OpenFrame, ForFrame, Base
<1>3. Base(OrigFrame)
  BY DEF OrigFrame, Base
<1>4. CASE \/ modloader_preload \/ modloader_accept_unity_handle
           \/ stack' = stack /\ (modloader_load \/ Il2cppInit \/ modloader_unload)
  <2>1. UNCHANGED <<stack, returned, current_load_phase>>
    BY <1>4 DEF modloader_preload, modloader_accept_unity_handle, modloader_load, Il2cppInit,
                modloader_unload, listVars, historyVars
  <2> QED
    BY <2>1, SameServes DEF Grows
<1>5. ASSUME NEW f, NEW s \in Seq(FrameType), stack' = <<f>> \o s, Base(f)
      PROVE  RequiresServed'
  BY <1>5, Pushes, BaseServes
<1>6. CASE modloader_load /\ stack' # stack
  <2>1. stack' = <<OpenFrame("Libs"), OpenFrame("EarlyMods"), ForFrame("EarlyMods", "setup")>> \o stack
    BY <1>6, Zenon DEF modloader_load, Push
  <2>2. stack' # <<>> /\ Head(stack') = OpenFrame("Libs")
    <3>1. \A f, g, h : <<f, g, h>> \o stack # <<>> /\ Head(<<f, g, h>> \o stack) = f
      BY <1>1, Pushes
    <3> QED
      BY <2>1, <3>1
  <2> QED
    BY <1>2, <2>2, BaseServes
<1>7. CASE Il2cppInit /\ stack' # stack
  <2>1. stack' = <<ForFrame("EarlyMods", "load"), SetupUnityFrame>> \o stack
    BY <1>7 DEF Il2cppInit, Push
  <2>2. stack' # <<>> /\ Head(stack') = ForFrame("EarlyMods", "load")
    BY <1>1, <2>1, Pushes
  <2> QED
    BY <1>2, <2>2, BaseServes
<1>8. CASE DestroyObject
  BY <1>1, <1>3, <1>5, <1>8 DEF DestroyObject, Push
<1>9. CASE modloader_unload /\ stack' # stack
  <2>1. stack' = <<ForFrame("Mods", "close"), ForFrame("EarlyMods", "close"),
                   ForFrame("Libs", "close"), ClearFrame>> \o stack
    BY <1>9, Zenon DEF modloader_unload, Push
  <2>2. stack' # <<>> /\ Head(stack') = ForFrame("Mods", "close")
    <3>1. \A f, g, h, e : <<f, g, h, e>> \o stack # <<>> /\ Head(<<f, g, h, e>> \o stack) = f
      BY <1>1, Pushes
    <3> QED
      BY <2>1, <3>1
  <2> QED
    BY <1>2, <2>2, BaseServes
<1>10. CASE OrigReturns
  <2>1. Tail(stack) \in Seq(FrameType)
    BY <1>1, <1>10 DEF OrigReturns, TopIs
  <2>2. stack' = <<OpenFrame("Mods"), ForFrame("Mods", "setup"), ForFrame("EarlyMods", "late_load"),
                   ForFrame("Mods", "late_load")>> \o Tail(stack)
    BY <1>10, Zenon DEF OrigReturns
  <2>3. stack' # <<>> /\ Head(stack') = OpenFrame("Mods")
    <3>1. \A f, g, h, e : <<f, g, h, e>> \o Tail(stack) # <<>>
                          /\ Head(<<f, g, h, e>> \o Tail(stack)) = f
      BY <2>1, Pushes
    <3> QED
      BY <2>2, <3>1
  <2> QED
    BY <1>2, <2>3, BaseServes
<1>11. CASE OpenBegin
  <2> DEFINE f == [Top EXCEPT !.begun = TRUE]
  <2>1. Top \in FrameType /\ Top.at = "open" /\ Tail(stack) \in Seq(FrameType)
    BY <1>1, <1>11, Facts, StackTop DEF OpenBegin, TopIs
  <2>2. f.at = "open"
    BY <2>1, FrameKinds, OpenFrames
  <2> HIDE DEF f
  <2>3. stack' = <<f>> \o Tail(stack)
    BY <1>11 DEF OpenBegin, Advance, f
  <2> QED
    BY <1>5, <2>1, <2>2, <2>3 DEF Base
<1>12. CASE ReturnCtor
  <2> DEFINE f == Recorded(stack[2], LoadedMod(Top.mod, RoleOf(stack[2])))
  <2>1. f.at = "open" /\ Tail(Tail(stack)) \in Seq(FrameType) /\ stack' = <<f>> \o Tail(Tail(stack))
    BY <1>12, CtorSteps
  <2> HIDE DEF f
  <2> QED
    BY <1>5, <2>1 DEF Base
<1> QED
  BY <1>4, <1>6, <1>7, <1>8, <1>9, <1>10, <1>11, <1>12

(* A new require has everything before it.                                 *)
LEMMA ApiServes ==
  ASSUME IInv, IInv', RequiresServed, NEW request \in Requests,
         modloader_require_mod(request) \/ modloader_force_unload(request)
  PROVE  RequiresServed'
<1>1. stack \in Seq(FrameType) /\ stack' \in Seq(FrameType)
  BY DEF IInv, TypeOK
<1>2. Grows
  BY DEF modloader_require_mod, modloader_force_unload, listVars, historyVars, Grows
<1>3. CASE modloader_require_mod(request)
  <2>1. PICK list \in {"Mods", "EarlyMods"} : \E pos \in DOMAIN loaded[list] :
          stack' = <<RequireFrame(list, pos, loaded[list][pos].mod)>> \o stack
    BY <1>3 DEF modloader_require_mod, Push
  <2>2. PICK pos : stack' = <<RequireFrame(list, pos, loaded[list][pos].mod)>> \o stack
    BY <2>1
  <2> DEFINE f == RequireFrame(list, pos, loaded[list][pos].mod)
  <2>3. /\ f.list = list
        /\ f.todo = IF list = "EarlyMods" THEN <<"setup", "load", "late_load">>
                                          ELSE <<"setup", "late_load">>
    BY DEF RequireFrame
  <2>4. f \in FrameType
    BY <1>1, <2>2, FirstTyped
  <2> HIDE DEF f
  <2>5. \A fn \in Flags : Asked(fn, f) => fn \in Range(f.todo)
    <3>1. "setup" \in Range(f.todo) /\ "late_load" \in Range(f.todo)
      <4>1. CASE list = "EarlyMods"
        <5>1. f.todo[1] = "setup" /\ f.todo[3] = "late_load" /\ DOMAIN f.todo = 1..3
          BY <2>3, <4>1
        <5> QED
          BY <5>1 DEF Range
      <4>2. CASE list # "EarlyMods"
        <5>1. f.todo[1] = "setup" /\ f.todo[2] = "late_load" /\ DOMAIN f.todo = 1..2
          BY <2>3, <4>2
        <5> QED
          BY <5>1 DEF Range
      <4> QED
        BY <4>1, <4>2
    <3>2. list = "EarlyMods" => "load" \in Range(f.todo)
      <4>1. list = "EarlyMods" => f.todo[2] = "load" /\ DOMAIN f.todo = 1..3
        BY <2>3
      <4> QED
        BY <4>1 DEF Range
    <3> QED
      BY <2>3, <3>1, <3>2 DEF Asked, Flags
  <2> QED
    BY <1>1, <1>2, <2>2, <2>4, <2>5, PushServes DEF f
<1>4. CASE modloader_force_unload(request)
  <2>1. \E list, pos : stack' = <<CloseFrame(list, pos, "force_unload")>> \o stack
    BY <1>4 DEF modloader_force_unload, Push
  <2>2. \A list, pos : CloseFrame(list, pos, "force_unload").at = "close"
    BY DEF CloseFrame
  <2>3. PICK f : stack' = <<f>> \o stack /\ f.at = "close"
    BY <2>1, <2>2
  <2>4. f \in FrameType
    BY <1>1, <2>3, FirstTyped
  <2> QED
    BY <1>2, <2>3, <2>4, PushServes
<1> QED
  BY <1>3, <1>4

-----------------------------------------------------------------------------
(* Theorems.                                                               *)

(* Whatever a require that answers MatchType_Loaded asks for is served.    *)
LEMMA ServedInductive == ASSUME CallbacksDoNotUnload PROVE Spec => [](IInv /\ RequiresServed)
<1>1. Init => IInv /\ RequiresServed
  BY InitIInv DEF Init, RequiresServed
<1>2. IInv /\ RequiresServed /\ [Next]_vars => (IInv /\ RequiresServed)'
  <2> SUFFICES ASSUME IInv, RequiresServed, [Next]_vars PROVE IInv' /\ RequiresServed'
    OBVIOUS
  <2>1. IInv'
    BY NextIInv
  <2>2. CASE Run
    BY <2>1, <2>2, PopsServe, LoopsServe, RequireServes, EntriesServe DEF Run
  <2>3. CASE Start
    <3>1. ASSUME NEW request \in Requests,
                 modloader_require_mod(request) \/ modloader_force_unload(request)
          PROVE  RequiresServed'
      BY <2>1, <3>1, ApiServes
    <3> QED
      BY <2>1, <2>3, <3>1, EntriesServe DEF Start
  <2>4. CASE UNCHANGED vars
    <3>1. UNCHANGED <<stack, returned, current_load_phase>>
      BY <2>4 DEF vars, listVars, historyVars
    <3>2. Grows
      BY <3>1 DEF Grows
    <3> QED
      BY <2>1, <3>1, <3>2, SameServes
  <2> QED
    BY <2>1, <2>2, <2>3, <2>4 DEF Next
<1> QED
  BY <1>1, <1>2, PTL DEF Spec

(* When modloader_require_mod answers MatchType_Loaded, the callbacks that  *)
(* the current phase asks for have returned, however requires are nested.  *)
THEOREM LoadedAfterReturn == ASSUME CallbacksDoNotUnload PROVE Spec => LoadedMeansReturned
<1>1. IInv /\ RequiresServed /\ [Next]_vars =>
        [RequireEnd =>
           \A fn \in Flags :
             InPhase(fn) /\ (fn = "load" => Top.list = "EarlyMods") => fn \in returned[Top.mod]]_vars
  <2> SUFFICES ASSUME IInv, RequiresServed, RequireEnd, NEW fn \in Flags,
                      InPhase(fn), fn = "load" => Top.list = "EarlyMods"
               PROVE  fn \in returned[Top.mod]
    OBVIOUS
  <2>1. stack # <<>> /\ Top.at = "require" /\ Top.todo = <<>>
    BY DEF RequireEnd, TopIs
  <2>2. 1 \in 1..Len(stack) /\ Top = stack[1]
    BY <2>1, Facts, StackTop
  <2>3. Range(Top.todo) = {}
    BY <2>1 DEF Range
  <2> QED
    BY <2>1, <2>2, <2>3 DEF RequiresServed, ServedAt, Asked
<1> QED
  BY <1>1, ServedInductive, PTL DEF Spec, LoadedMeansReturned

-----------------------------------------------------------------------------
(* The loops and the other functions of the base, by the order in which    *)
(* those that are on the stack together come to an end; 0 for what they call. *)

Opens(f, list) == f.at = "open" /\ f.list = list
IsFor(f, list, fn) == f.at = "for" /\ f.list = list /\ f.fn = fn

Stage(f) ==
  CASE ~Base(f)                              -> 0
    [] Opens(f, "Libs")                     -> 1
    [] Opens(f, "EarlyMods")                -> 2
    [] IsFor(f, "EarlyMods", "setup")        -> 3
    [] IsFor(f, "EarlyMods", "load")         -> 4
    [] f.at = "setup_unity_hook"             -> 5
    [] Opens(f, "Mods")                     -> 6
    [] IsFor(f, "Mods", "setup")             -> 7
    [] IsFor(f, "EarlyMods", "late_load")    -> 8
    [] IsFor(f, "Mods", "late_load")         -> 9
    [] f.at = "orig"                         -> 10
    [] IsFor(f, "Mods", "close")             -> 11
    [] IsFor(f, "EarlyMods", "close")        -> 12
    [] IsFor(f, "Libs", "close")             -> 13
    [] f.at = "clear"                        -> 14
    [] OTHER                                 -> 15

Waits(n) == \E i \in 1..Len(stack) : Stage(stack[i]) = n

(* There is no other loop, and the stages come in their order; only the     *)
(* original of DestroyObjectHighLevel nests.                               *)
InStages ==
  /\ \A i \in 1..Len(stack) : Stage(stack[i]) # 15
  /\ \A i, j \in 1..Len(stack) : Stage(stack[i]) > 0 /\ i < j =>
       Stage(stack[i]) < Stage(stack[j]) \/ (Stage(stack[i]) = 10 /\ Stage(stack[j]) = 10)

ModLists == {"EarlyMods", "Mods"}

(* loadMods has come to every candidate.                                   *)
Skipped(list) == Range(Candidates[list]) \subseteq skip_load

(* How far the host must be for what is on the stack, and what must still  *)
(* be on the stack for how far the host is.                                *)
Progress ==
  /\ Waits(1) \/ Waits(2) \/ Waits(3) => host = "loaded" /\ "EarlyMods" \notin opened
  /\ "EarlyMods" \in opened => host \notin {"start", "preloaded"}
  /\ host = "loaded" /\ ~failed => "EarlyMods" \in opened \/ Waits(3)
  /\ \/ hooks # {} \/ "Mods" \in opened \/ current_load_phase = "Mods"
     \/ \E n \in 4..10 : Waits(n)
     => "EarlyMods" \in opened
  /\ Waits(7) => Waits(8) /\ Waits(9)
  /\ Waits(9) => "Mods" \in opened \/ Waits(7)
  /\ Waits(3) => Waits(2) \/ Skipped("EarlyMods")
  /\ Waits(7) => Waits(6) \/ Skipped("Mods")
  /\ \A list \in ModLists \intersect opened : Skipped(list)

(* A callback is being called.                                             *)
InProgress(fn, m) ==
  \E i \in 1..Len(stack) : stack[i].at = "call" /\ stack[i].fn = fn /\ stack[i].mod = m

(* loadMods comes to its candidates in turn, and when it is called for the  *)
(* mods once more it opens none of them again.                             *)
OpensInTurn(f) ==
  f.at = "open" =>
    /\ Range(f.mods) \subseteq Range(Candidates[f.list])
    /\ Range(Candidates[f.list]) \subseteq skip_load \union Range(f.mods)
    /\ f.list = "Mods" /\ "Mods" \in opened => f.results = <<>> /\ ~f.loading

(* What a loop has passed has returned, or is being called.                *)
LoopsInTurn(f) ==
  f.at = "for" /\ f.fn \in Flags /\ f.pos > 0 =>
    /\ f.end = Len(loaded[f.list])
    /\ \A j \in 1..Len(loaded[f.list]) :
         LET result == loaded[f.list][j] IN
         j < f.pos /\ result.ok /\ f.fn \in Exports[result.mod] =>
           f.fn \in returned[result.mod] \/ InProgress(f.fn, result.mod)

RequiresInTurn(f) ==
  f.at = "require" =>
    /\ f.list \in ModLists
    /\ \/ f.todo = <<>> \/ f.todo = <<"late_load">> \/ f.todo = <<"load", "late_load">>
       \/ f.todo = <<"setup", "load", "late_load">> \/ f.todo = <<"setup", "late_load">>

InTurn(f) == OpensInTurn(f) /\ LoopsInTurn(f) /\ RequiresInTurn(f)
TakeTurns == \A i \in 1..Len(stack) : InTurn(stack[i])

(* What is delivered, or will be by what is still on the stack.            *)
Deliveries ==
  /\ \A list \in ModLists \intersect opened : Delivered(list, "setup")
  /\ Waits(5) => Waits(4) \/ Delivered("EarlyMods", "load")
  /\ \/ "DestroyObject" \in hooks \/ "Mods" \in opened \/ current_load_phase = "Mods"
     \/ \E n \in 6..10 : Waits(n)
     => Delivered("EarlyMods", "load")
  /\ "Mods" \in opened =>
       /\ Waits(8) \/ Delivered("EarlyMods", "late_load")
       /\ Waits(9) \/ Delivered("Mods", "late_load")

DInv == InStages /\ Progress /\ TakeTurns /\ Deliveries

-----------------------------------------------------------------------------
(* Stages.                                                                 *)

(* Every frame has a stage, and those of the base one above 0.             *)
LEMMA StageSpan == ASSUME NEW f PROVE Stage(f) \in 0..15 /\ (Stage(f) = 0 <=> ~Base(f))
BY DEF Stage, Base, Opens, IsFor

(* What the stage of a frame depends on.                                   *)
LEMMA SameStage ==
  ASSUME NEW f, NEW g, f.at = g.at,
         f.at \in {"open", "for"} => f.list = g.list,
         f.at = "for" => f.fn = g.fn
  PROVE  Stage(f) = Stage(g)
<1>1. Base(f) <=> Base(g)
  BY DEF Base
<1>2. \A list : Opens(f, list) <=> Opens(g, list)
  BY DEF Opens
<1>3. \A list, fn : IsFor(f, list, fn) <=> IsFor(g, list, fn)
  BY DEF IsFor
<1> QED
  BY <1>1, <1>2, <1>3 DEF Stage

(* The stage of each frame that the host's calls make.                     *)
LEMMA StageOfOpen ==
  ASSUME NEW f, f.at = "open"
  PROVE  /\ f.list = "Libs" <=> Stage(f) = 1
         /\ f.list = "EarlyMods" <=> Stage(f) = 2
         /\ f.list = "Mods" <=> Stage(f) = 6
BY DEF Stage, Opens, IsFor, Base

(* The stages of the loops.                                                *)
LEMMA StageOfFor ==
  ASSUME NEW f, f.at = "for"
  PROVE  /\ f.list = "EarlyMods" /\ f.fn = "setup" <=> Stage(f) = 3
         /\ f.list = "EarlyMods" /\ f.fn = "load" <=> Stage(f) = 4
         /\ f.list = "Mods" /\ f.fn = "setup" <=> Stage(f) = 7
         /\ f.list = "EarlyMods" /\ f.fn = "late_load" <=> Stage(f) = 8
         /\ f.list = "Mods" /\ f.fn = "late_load" <=> Stage(f) = 9
         /\ f.list = "Mods" /\ f.fn = "close" <=> Stage(f) = 11
         /\ f.list = "EarlyMods" /\ f.fn = "close" <=> Stage(f) = 12
         /\ f.list = "Libs" /\ f.fn = "close" <=> Stage(f) = 13
BY DEF Stage, Opens, IsFor, Base

(* The stages of what has no list.                                         *)
LEMMA StageOfPlain ==
  ASSUME NEW f
  PROVE  /\ f.at = "setup_unity_hook" <=> Stage(f) = 5
         /\ f.at = "orig" <=> Stage(f) = 10
         /\ f.at = "clear" <=> Stage(f) = 14
BY DEF Stage, Opens, IsFor, Base

(* A loop has one of these stages, and one of setup one of two.            *)
LEMMA ForStages ==
  ASSUME NEW f, f.at = "for", Stage(f) # 15
  PROVE  /\ Stage(f) \in {3, 4, 7, 8, 9, 11, 12, 13}
         /\ f.fn = "setup" => Stage(f) \in {3, 7}
BY DEF Stage, Opens, IsFor, Base

-----------------------------------------------------------------------------
(* Steps that leave the stages alone.                                      *)

(* d frames go away and -d frames come; none of these is of the base.      *)
Shifted(d) ==
  /\ Len(stack') = Len(stack) - d
  /\ \A i \in 1..Len(stack') :
       IF i + d \in 1..Len(stack) THEN Stage(stack'[i]) = Stage(stack[i + d])
                                  ELSE Stage(stack'[i]) = 0

(* A shift keeps the order, begins nothing, and ends only what goes away.  *)
LEMMA ShiftedStages ==
  ASSUME Len(stack) \in Nat, NEW d \in {-1, 0, 1}, Shifted(d), InStages
  PROVE  /\ InStages'
         /\ \A n \in 1..15 : Waits(n)' => Waits(n)
         /\ \A n \in 1..15 : Waits(n) /\ (d = 1 => Stage(stack[1]) # n) => Waits(n)'
<1>1. Len(stack') = Len(stack) - d
  BY DEF Shifted
<1>2. ASSUME NEW i \in 1..Len(stack')
      PROVE  \/ i + d \in 1..Len(stack) /\ Stage(stack'[i]) = Stage(stack[i + d])
             \/ Stage(stack'[i]) = 0
  BY DEF Shifted
<1>3. InStages'
  <2>1. ASSUME NEW i \in 1..Len(stack') PROVE Stage(stack'[i]) # 15
    BY <1>2, <2>1 DEF InStages
  <2>2. ASSUME NEW i \in 1..Len(stack'), NEW j \in 1..Len(stack'),
               Stage(stack'[i]) > 0, i < j
        PROVE  \/ Stage(stack'[i]) < Stage(stack'[j])
               \/ Stage(stack'[i]) = 10 /\ Stage(stack'[j]) = 10
    <3>1. i + d \in 1..Len(stack) /\ Stage(stack'[i]) = Stage(stack[i + d])
      BY <1>2, <2>2
    <3>2. j + d \in 1..Len(stack) /\ i + d < j + d
      BY <1>1, <2>2, <3>1
    <3>3. Stage(stack'[j]) = Stage(stack[j + d])
      BY <3>2 DEF Shifted
    <3> QED
      BY <2>2, <3>1, <3>2, <3>3 DEF InStages
  <2> QED
    BY <2>1, <2>2 DEF InStages
<1>4. ASSUME NEW n \in 1..15, Waits(n)' PROVE Waits(n)
  <2>1. PICK i \in 1..Len(stack') : Stage(stack'[i]) = n
    BY <1>4 DEF Waits
  <2> QED
    BY <1>2, <2>1 DEF Waits
<1>5. ASSUME NEW n \in 1..15, Waits(n), d = 1 => Stage(stack[1]) # n PROVE Waits(n)'
  <2>1. PICK k \in 1..Len(stack) : Stage(stack[k]) = n
    BY <1>5 DEF Waits
  <2>2. k - d \in 1..Len(stack') /\ (k - d) + d = k
    BY <1>1, <1>5, <2>1
  <2>3. Stage(stack'[k - d]) = Stage(stack[k])
    BY <2>2 DEF Shifted
  <2> QED
    BY <2>1, <2>2, <2>3 DEF Waits
<1> QED
  BY <1>3, <1>4, <1>5

(* The four changes of the stack that shift it: a frame goes away,         *)
LEMMA PopShift ==
  ASSUME stack \in Seq(FrameType), stack # <<>>, stack' = Tail(stack)
  PROVE  Shifted(1)
<1>1. /\ Len(stack) \in Nat /\ Len(stack') = Len(stack) - 1
      /\ \A i \in 1..(Len(stack) - 1) : stack'[i] = stack[i + 1]
  BY Popped
<1> QED
  BY <1>1 DEF Shifted

(* is replaced,                                                            *)
LEMMA AdvanceShift ==
  ASSUME stack \in Seq(FrameType), stack # <<>>, NEW f \in FrameType, stack' = <<f>> \o Tail(stack),
         Stage(f) = Stage(stack[1])
  PROVE  Shifted(0)
<1>1. /\ Len(stack) \in Nat /\ Len(stack') = Len(stack) /\ stack'[1] = f
      /\ \A i \in 2..Len(stack) : stack'[i] = stack[i]
  BY Replaced
<1>2. ASSUME NEW i \in 1..Len(stack) PROVE Stage(stack'[i]) = Stage(stack[i])
  BY <1>1, <1>2
<1> QED
  BY <1>1, <1>2 DEF Shifted

(* calls something,                                                        *)
LEMMA CallShift ==
  ASSUME stack \in Seq(FrameType), stack # <<>>, NEW f \in FrameType, NEW g \in FrameType,
         stack' = <<g, f>> \o Tail(stack), Stage(f) = Stage(stack[1]), Stage(g) = 0
  PROVE  Shifted(-1)
<1>1. /\ Len(stack) \in Nat /\ Len(stack) >= 1 /\ Len(stack') = Len(stack) + 1
      /\ stack'[1] = g /\ stack'[2] = f
      /\ \A i \in 3..(Len(stack) + 1) : stack'[i] = stack[i - 1]
  BY CalledFrom
<1>2. ASSUME NEW i \in 1..(Len(stack) + 1)
      PROVE  IF i - 1 \in 1..Len(stack) THEN Stage(stack'[i]) = Stage(stack[i - 1])
                                        ELSE Stage(stack'[i]) = 0
  BY <1>1, <1>2
<1>3. \A i \in 1..(Len(stack) + 1) : i + (-1) = i - 1
  BY <1>1
<1> QED
  BY <1>1, <1>2, <1>3 DEF Shifted

(* or something is put above it.                                           *)
LEMMA PushShift ==
  ASSUME stack \in Seq(FrameType), NEW f \in FrameType, stack' = <<f>> \o stack, Stage(f) = 0
  PROVE  Shifted(-1)
<1>1. /\ Len(stack) \in Nat /\ Len(stack') = Len(stack) + 1 /\ stack'[1] = f
      /\ \A i \in 2..(Len(stack) + 1) : stack'[i] = stack[i - 1]
  BY Pushed
<1>2. ASSUME NEW i \in 1..(Len(stack) + 1)
      PROVE  IF i - 1 \in 1..Len(stack) THEN Stage(stack'[i]) = Stage(stack[i - 1])
                                        ELSE Stage(stack'[i]) = 0
  BY <1>1, <1>2
<1>3. \A i \in 1..(Len(stack) + 1) : i + (-1) = i - 1
  BY <1>1
<1> QED
  BY <1>1, <1>2, <1>3 DEF Shifted

-----------------------------------------------------------------------------
(* The steps of what is in progress that neither begin nor end anything of *)
(* the base.                                                               *)

(* Every element of the list was one before.                               *)
Inherits(list) ==
  \A i \in 1..Len(loaded'[list]) : \E k \in 1..Len(loaded[list]) :
    /\ loaded'[list][i].mod = loaded[list][k].mod
    /\ loaded'[list][i].as = loaded[list][k].as
    /\ loaded'[list][i].ok = loaded[list][k].ok

Settled ==
  /\ UNCHANGED <<host, failed, hooks, opened>>
  /\ skip_load \subseteq skip_load'
  /\ current_load_phase' = "Mods" => current_load_phase = "Mods" \/ Waits(6)
  /\ \A m \in Mod : returned[m] \subseteq returned'[m]
  /\ \A list \in OpenedPhases : Inherits(list)

Aside == \E d \in {-1, 0, 1} : Shifted(d) /\ (d = 1 => Stage(stack[1]) = 0)

(* Lists that are left alone inherit.                                      *)
LEMMA SameInherits ==
  ASSUME loaded \in [OpenedPhases -> Seq(LoadResult)], loaded' = loaded
  PROVE  \A list \in OpenedPhases : Inherits(list)
BY DEF Inherits

(* The steps of the loops over candidates, lists and mods to close.        *)
LEMMA LoopsSettle ==
  ASSUME IInv, IInv', ForBegin \/ ForNext \/ OpenNext \/ CloseCall
  PROVE  Settled /\ Aside
<1>1. ~undefined' /\ stack' \in Seq(FrameType)
  BY DEF IInv, TypeOK
<1>2. /\ stack # <<>> /\ Top.at \in {"for", "open", "close"}
      /\ UNCHANGED <<host, failed, hooks, opened, returned, loaded, current_load_phase>>
      /\ skip_load \subseteq skip_load'
  <2>1. CASE OpenNext
    BY <2>1, OpenSteps DEF hostVars, historyVars
  <2>2. CASE ForBegin \/ ForNext \/ CloseCall
    BY <1>1, <2>2 DEF ForBegin, ForNext, CloseCall, TopIs, UseStale, hostVars, listVars, historyVars
  <2> QED
    BY <2>1, <2>2
<1>3. Top \in FrameType /\ Top = stack[1] /\ Tail(stack) \in Seq(FrameType) /\ stack \in Seq(FrameType)
  BY <1>2, Facts, StackTop
<1>4. Settled
  BY <1>2, SameInherits, Facts DEF Settled
<1>5. ASSUME NEW f, Stage(f) = Stage(Top),
             \/ stack' = <<f>> \o Tail(stack)
             \/ \E g : Stage(g) = 0 /\ stack' = <<g, f>> \o Tail(stack)
      PROVE  Aside
  <2>1. CASE stack' = <<f>> \o Tail(stack)
    <3>1. f \in FrameType
      BY <1>1, <1>3, <2>1, FirstTyped
    <3> QED
      BY <1>2, <1>3, <1>5, <2>1, <3>1, AdvanceShift DEF Aside
  <2>2. CASE \E g : Stage(g) = 0 /\ stack' = <<g, f>> \o Tail(stack)
    <3>1. PICK g : Stage(g) = 0 /\ stack' = <<g, f>> \o Tail(stack)
      BY <2>2
    <3>2. f \in FrameType /\ g \in FrameType
      BY <1>1, <3>1, <1>3, FirstTyped
    <3>3. Stage(f) = Stage(stack[1])
      BY <1>3, <1>5
    <3>4. Shifted(-1)
      BY <1>2, <1>3, <3>1, <3>2, <3>3, CallShift
    <3> QED
      BY <3>4 DEF Aside
  <2> QED
    BY <1>5, <2>1, <2>2
<1>6. \A fn, m, list, pos : Stage(CallFrame(fn, m, list, pos)) = 0 /\ Stage(CloseFrame(list, pos, fn)) = 0
  <2>1. \A f : f.at \in {"call", "close"} => Stage(f) = 0
    BY StageSpan DEF Base
  <2> QED
    BY <2>1 DEF CallFrame, CloseFrame
<1>7. CASE ForBegin
  <2> DEFINE f == [Top EXCEPT !.pos = 1, !.end = Len(loaded[Top.list])]
  <2>1. f.at = Top.at /\ f.list = Top.list /\ f.fn = Top.fn
    BY <1>3, <1>7, FrameKinds DEF ForBegin, TopIs, ForFrameType
  <2>2. Stage(f) = Stage(Top)
    BY <2>1, SameStage
  <2> QED
    BY <1>4, <1>5, <1>7, <2>2 DEF ForBegin, Advance
<1>8. CASE ForNext
  <2> DEFINE f == [Top EXCEPT !.pos = @ + 1]
  <2>1. f.at = Top.at /\ f.list = Top.list /\ f.fn = Top.fn
    BY <1>3, <1>8, FrameKinds, ForFramesNext DEF ForNext, TopIs
  <2> HIDE DEF f
  <2>2. Stage(f) = Stage(Top)
    BY <2>1, SameStage
  <2>3. \/ stack' = <<f>> \o Tail(stack)
        \/ \E g : Stage(g) = 0 /\ stack' = <<g, f>> \o Tail(stack)
    BY <1>1, <1>6, <1>8 DEF ForNext, UseStale, CallFrom, Advance, f
  <2> QED
    BY <1>4, <1>5, <2>2, <2>3
<1>9. CASE OpenNext
  <2>1. CASE \E f : f.at = "open" /\ f.list = Top.list /\ stack' = <<f>> \o Tail(stack)
    <3>1. PICK f : f.at = "open" /\ f.list = Top.list /\ stack' = <<f>> \o Tail(stack)
      BY <2>1
    <3>2. Stage(f) = Stage(Top)
      BY <1>9, <3>1, OpenSteps, SameStage
    <3> QED
      BY <1>4, <1>5, <3>1, <3>2
  <2>2. CASE \E m : stack' = <<CallFrame("ctor", m, Top.list, 0), Top>> \o Tail(stack)
    BY <1>4, <1>5, <1>6, <2>2
  <2> QED
    BY <1>9, <2>1, <2>2, OpenSteps
<1>10. CASE CloseCall
  <2> DEFINE f == [Top EXCEPT !.called = TRUE]
  <2>1. f.at = "close" /\ Top.at = "close"
    BY <1>3, <1>10, FrameKinds, CloseFrames DEF CloseCall, TopIs
  <2> HIDE DEF f
  <2>2. Stage(f) = Stage(Top)
    BY <2>1, SameStage
  <2>3. \/ stack' = <<f>> \o Tail(stack)
        \/ \E g : Stage(g) = 0 /\ stack' = <<g, f>> \o Tail(stack)
    BY <1>1, <1>6, <1>10 DEF CloseCall, UseStale, CallFrom, Advance, f
  <2> QED
    BY <1>4, <1>5, <2>2, <2>3
<1> QED
  BY <1>7, <1>8, <1>9, <1>10

(* The steps of a require, and the calls of the API.                       *)
LEMMA RequiresSettle ==
  ASSUME IInv, IInv',
         \/ RequireNext \/ RequireEnd
         \/ \E request \in Requests : modloader_require_mod(request) \/ modloader_force_unload(request)
  PROVE  Settled /\ Aside
<1>1. ~undefined' /\ stack \in Seq(FrameType) /\ stack' \in Seq(FrameType)
  BY DEF IInv, TypeOK
<1>2. UNCHANGED <<host, failed, hooks, opened, skip_load, returned, loaded, current_load_phase>>
  BY <1>1 DEF RequireNext, RequireEnd, modloader_require_mod, modloader_force_unload, UseStale,
              hostVars, listVars, historyVars
<1>3. Settled
  BY <1>2, SameInherits, Facts DEF Settled
<1>4. \A f : f.at \in {"call", "close", "require"} => Stage(f) = 0
  BY StageSpan DEF Base
<1>5. CASE RequireNext \/ RequireEnd
  <2> DEFINE f == [Top EXCEPT !.todo = Tail(@)]
  <2>1. stack # <<>> /\ Top.at = "require"
    BY <1>5 DEF RequireNext, RequireEnd, TopIs
  <2>2. Top \in FrameType /\ Top = stack[1] /\ Tail(stack) \in Seq(FrameType)
    BY <2>1, Facts, StackTop
  <2>3. Stage(Top) = 0
    BY <1>4, <2>1
  <2>4. CASE stack' = Tail(stack)
    BY <1>1, <1>3, <2>1, <2>2, <2>3, <2>4, PopShift DEF Aside
  <2>5. CASE RequireNext /\ stack' # Tail(stack)
    <3>1. Top.todo # <<>>
      BY <2>5 DEF RequireNext
    <3>2. f.at = "require"
      BY <2>1, <2>2, <3>1, FrameKinds, RequireFrames
    <3> HIDE DEF f
    <3>3. Stage(f) = 0
      BY <1>4, <3>2
    <3>4. \A fn, m, list, pos : Stage(CallFrame(fn, m, list, pos)) = 0
      BY <1>4 DEF CallFrame
    <3>5. \/ stack' = <<f>> \o Tail(stack)
          \/ \E g : Stage(g) = 0 /\ stack' = <<g, f>> \o Tail(stack)
      BY <1>1, <2>5, <3>4 DEF RequireNext, UseStale, CallFrom, Advance, Pop, f
    <3>6. CASE stack' = <<f>> \o Tail(stack)
      <4>1. f \in FrameType
        BY <1>1, <2>2, <3>6, FirstTyped
      <4> QED
        BY <1>1, <1>3, <2>1, <2>2, <2>3, <3>3, <3>6, <4>1, AdvanceShift DEF Aside
    <3>7. ASSUME NEW g, Stage(g) = 0, stack' = <<g, f>> \o Tail(stack) PROVE Aside
      <4>1. f \in FrameType /\ g \in FrameType
        BY <1>1, <2>2, <3>7, FirstTyped
      <4> QED
        BY <1>1, <2>1, <2>2, <2>3, <3>3, <3>7, <4>1, CallShift DEF Aside
    <3> QED
      BY <1>3, <3>5, <3>6, <3>7
  <2> QED
    BY <1>5, <2>4, <2>5 DEF RequireEnd, Pop
<1>6. CASE \E request \in Requests : modloader_require_mod(request) \/ modloader_force_unload(request)
  <2>1. \E f : Stage(f) = 0 /\ stack' = <<f>> \o stack
    <3>1. \A list, pos, m : /\ Stage(RequireFrame(list, pos, m)) = 0
                            /\ Stage(CloseFrame(list, pos, "force_unload")) = 0
      BY <1>4 DEF RequireFrame, CloseFrame
    <3> QED
      BY <1>6, <3>1 DEF modloader_require_mod, modloader_force_unload, Push
  <2>2. PICK f : Stage(f) = 0 /\ stack' = <<f>> \o stack
    BY <2>1
  <2>3. f \in FrameType
    BY <1>1, <2>2, FirstTyped
  <2> QED
    BY <1>1, <1>3, <2>2, <2>3, PushShift DEF Aside
<1> QED
  BY <1>5, <1>6

(* The returns of what is called, and the beginning of loadMods.           *)
LEMMA ReturnsSettle ==
  ASSUME IInv, IInv', ReturnFlagged \/ ReturnUnload \/ ReturnCtor \/ OpenBegin
  PROVE  Settled /\ Aside
<1>1. /\ ~undefined' /\ stack \in Seq(FrameType) /\ stack' \in Seq(FrameType)
      /\ returned \in [Mod -> SUBSET Callback] /\ loaded \in [OpenedPhases -> Seq(LoadResult)]
  BY DEF IInv, TypeOK
<1>2. stack # <<>>
  BY DEF ReturnFlagged, ReturnUnload, ReturnCtor, OpenBegin, TopIs
<1>3. /\ Top \in FrameType /\ Top = stack[1] /\ InPlace(Top) /\ Tail(stack) \in Seq(FrameType)
      /\ Len(stack) \in Nat /\ 1 \in 1..Len(stack)
  BY <1>1, <1>2, Facts, StackTop
<1>4. \A f : f.at = "call" => Stage(f) = 0
  BY StageSpan DEF Base
<1>5. CASE ReturnFlagged
  <2>1. /\ Top.at = "call" /\ Top.fn \in {"setup", "load", "late_load"}
        /\ loaded' = [loaded EXCEPT ![Top.list][Top.pos] = Marked(@, Top.fn, Top.mod)]
        /\ returned' = [returned EXCEPT ![Top.mod] = @ \union {Top.fn}]
        /\ stack' = Tail(stack)
        /\ UNCHANGED <<hostVars, current_load_phase, opened, skip_load>>
    BY <1>1, <1>5 DEF ReturnFlagged, TopIs, UseStale, Pop
  <2>2. Top.mod \in Mod /\ Top.list \in OpenedPhases /\ Holds(Top.list, Top.pos)
    BY <1>3, <2>1, FrameKinds, CallFrames DEF InPlace
  <2>3. \A m \in Mod : returned[m] \subseteq returned'[m]
    BY <1>1, <2>1, <2>2
  <2>4. ASSUME NEW list \in OpenedPhases PROVE Inherits(list)
    <3>1. Len(loaded'[list]) = Len(loaded[list])
      BY <1>1, <2>1, <2>2
    <3>2. ASSUME NEW i \in 1..Len(loaded[list])
          PROVE  /\ loaded'[list][i].mod = loaded[list][i].mod
                 /\ loaded'[list][i].as = loaded[list][i].as
                 /\ loaded'[list][i].ok = loaded[list][i].ok
      <4>1. loaded[list][i] \in LoadResult
        BY <1>1
      <4>2. /\ Marked(loaded[list][i], Top.fn, Top.mod).mod = loaded[list][i].mod
            /\ Marked(loaded[list][i], Top.fn, Top.mod).as = loaded[list][i].as
            /\ Marked(loaded[list][i], Top.fn, Top.mod).ok = loaded[list][i].ok
        BY <4>1 DEF Marked, LoadResult
      <4>3. loaded'[list][i] = loaded[list][i] \/ loaded'[list][i] = Marked(loaded[list][i], Top.fn, Top.mod)
        BY <1>1, <2>1, <2>2
      <4> QED
        BY <4>2, <4>3
    <3> QED
      BY <3>1, <3>2 DEF Inherits
  <2> QED
    BY <1>1, <1>2, <1>3, <1>4, <2>1, <2>3, <2>4, PopShift DEF Settled, Aside, hostVars
<1>6. CASE ReturnUnload
  <2>1. /\ Top.at = "call" /\ stack' = Tail(stack)
        /\ returned' = [returned EXCEPT ![Top.mod] = @ \union {"unload"}]
        /\ UNCHANGED <<hostVars, listVars>>
    BY <1>6 DEF ReturnUnload, TopIs, Pop
  <2>2. \A m \in Mod : returned[m] \subseteq returned'[m]
    BY <1>1, <2>1
  <2> QED
    BY <1>1, <1>2, <1>3, <1>4, <2>1, <2>2, PopShift, SameInherits DEF Settled, Aside, hostVars, listVars
<1>7. CASE OpenBegin
  <2> DEFINE f == [Top EXCEPT !.begun = TRUE]
  <2>1. /\ Top.at = "open" /\ stack' = <<f>> \o Tail(stack) /\ current_load_phase' = Top.list
        /\ UNCHANGED <<hostVars, opened, skip_load, loaded, historyVars>>
    BY <1>7 DEF OpenBegin, TopIs, Advance
  <2>2. f.at = "open" /\ f.list = Top.list
    BY <1>3, <2>1, FrameKinds DEF OpenFrameType
  <2> HIDE DEF f
  <2>3. f \in FrameType /\ Stage(f) = Stage(stack[1])
    BY <1>1, <1>3, <2>1, <2>2, FirstTyped, SameStage
  <2>4. Aside
    BY <1>1, <1>2, <2>1, <2>3, AdvanceShift DEF Aside
  <2>5. current_load_phase' = "Mods" => Waits(6)
    BY <1>3, <2>1, StageOfOpen DEF Waits
  <2> QED
    BY <1>1, <2>1, <2>4, <2>5, SameInherits DEF Settled, hostVars, historyVars
<1>8. CASE ReturnCtor
  <2> DEFINE f == Recorded(stack[2], LoadedMod(Top.mod, RoleOf(stack[2])))
  <2>1. /\ Top.at = "call" /\ Top.fn = "ctor" /\ stack' = <<f>> \o Tail(Tail(stack))
        /\ skip_load' = skip_load \union {Top.mod}
        /\ returned' = [returned EXCEPT ![Top.mod] = @ \union {"ctor"}]
        /\ UNCHANGED <<hostVars, current_load_phase, opened, loaded>>
    BY <1>8 DEF ReturnCtor, TopIs
  <2>2. 1 + 1 \in 1..Len(stack) /\ stack[1 + 1].at = "open" /\ 1 + 1 = 2
    BY <1>8, CtorSteps
  <2>4. f.at = stack[2].at /\ f.list = stack[2].list /\ f.at = "open"
    BY <1>8, CtorSteps
  <2>5. /\ Tail(stack) \in Seq(FrameType) /\ Len(Tail(stack)) = Len(stack) - 1
        /\ \A i \in 1..(Len(stack) - 1) : Tail(stack)[i] = stack[i + 1]
    BY <1>1, <1>2, Popped
  <2>6. Tail(stack) # <<>>
    <3>1. Len(Tail(stack)) # 0 /\ Len(<<>>) = 0
      BY <1>3, <2>2, <2>5
    <3> QED
      BY <3>1, Zenon
  <2>7. Tail(Tail(stack)) \in Seq(FrameType)
    BY <2>5, <2>6, Popped
  <2> HIDE DEF f
  <2>8. Stage(f) = Stage(stack[2])
    BY <2>4, SameStage
  <2>9. f \in FrameType
    BY <1>1, <2>1, <2>7, FirstTyped
  <2>10. /\ Len(stack') = Len(Tail(stack)) /\ stack'[1] = f
         /\ \A i \in 2..Len(Tail(stack)) : stack'[i] = Tail(stack)[i]
    BY <2>1, <2>5, <2>6, <2>9, Replaced
  <2>11. Shifted(1)
    <3>1. Len(stack') = Len(stack) - 1
      BY <2>5, <2>10
    <3>2. ASSUME NEW i \in 1..(Len(stack) - 1)
          PROVE  i + 1 \in 1..Len(stack) /\ Stage(stack'[i]) = Stage(stack[i + 1])
      <4>1. CASE i = 1
        BY <1>3, <2>2, <2>8, <2>10, <4>1
      <4>2. CASE i # 1
        BY <1>3, <2>5, <2>10, <4>2
      <4> QED
        BY <4>1, <4>2
    <3> QED
      BY <3>1, <3>2 DEF Shifted
  <2>12. Aside
    BY <1>3, <1>4, <2>1, <2>11 DEF Aside
  <2>13. \A m \in Mod : returned[m] \subseteq returned'[m]
    BY <1>1, <2>1
  <2> QED
    BY <1>1, <2>1, <2>12, <2>13, SameInherits DEF Settled, hostVars
<1> QED
  BY <1>5, <1>6, <1>7, <1>8

(* dlclose removes from the lists and adds nothing.                        *)
LEMMA CloseSettles ==
  ASSUME IInv, IInv', Dlclose
  PROVE  Settled /\ Aside
<1>1. /\ ~undefined' /\ stack \in Seq(FrameType) /\ loaded \in [OpenedPhases -> Seq(LoadResult)]
  BY DEF IInv, TypeOK
<1>2. stack # <<>> /\ Top.at = "close"
  BY DEF Dlclose, TopIs
<1>3. Top \in FrameType /\ Top = stack[1] /\ InPlace(Top)
  BY <1>1, <1>2, Facts, StackTop
<1>4. Stage(stack[1]) = 0
  BY <1>2, <1>3, StageSpan DEF Base
<1>5. /\ stack' = Tail(stack)
      /\ UNCHANGED <<host, failed, hooks, opened, skip_load, current_load_phase, returned>>
      /\ \/ loaded' = loaded
         \/ loaded' = [loaded EXCEPT ![Top.list] = WithoutAt(@, Top.pos)]
  BY <1>1 DEF Dlclose, UseStale, hostVars, Pop
<1>6. Top.list \in OpenedPhases /\ Holds(Top.list, Top.pos)
  BY <1>2, <1>3, FrameKinds, CloseFrames DEF InPlace
<1>7. \A list \in OpenedPhases : Inherits(list)
  <2>1. CASE loaded' = loaded
    BY <1>1, <2>1, SameInherits
  <2>2. CASE loaded' = [loaded EXCEPT ![Top.list] = WithoutAt(@, Top.pos)]
    <3>1. \A i \in 1..Len(loaded'[Top.list]) : \E k \in 1..Len(loaded[Top.list]) :
            loaded'[Top.list][i] = loaded[Top.list][k]
      <4> DEFINE s == loaded[Top.list]
      <4>1. s \in Seq(LoadResult) /\ Top.pos \in 1..Len(s) /\ loaded'[Top.list] = WithoutAt(s, Top.pos)
        BY <1>1, <1>6, <2>2 DEF Holds
      <4> HIDE DEF s
      <4>2. /\ Len(s) \in Nat /\ Len(loaded'[Top.list]) = Len(s) - 1
            /\ \A i \in 1..(Len(s) - 1) :
                 loaded'[Top.list][i] = s[IF i < Top.pos THEN i ELSE i + 1]
        BY <4>1, WithoutOne
      <4>3. \A i \in 1..(Len(s) - 1) : (IF i < Top.pos THEN i ELSE i + 1) \in 1..Len(s)
        BY <4>1, <4>2
      <4>4. \A i \in 1..Len(loaded'[Top.list]) : \E k \in 1..Len(s) : loaded'[Top.list][i] = s[k]
        BY <4>2, <4>3
      <4> QED
        BY <4>4 DEF s
    <3>2. \A list \in OpenedPhases : list # Top.list => loaded'[list] = loaded[list]
      BY <1>1, <2>2
    <3> SUFFICES ASSUME NEW list \in OpenedPhases, NEW i \in 1..Len(loaded'[list])
                 PROVE  \E k \in 1..Len(loaded[list]) : loaded'[list][i] = loaded[list][k]
      BY Zenon DEF Inherits
    <3> QED
      BY <3>1, <3>2
  <2> QED
    BY <1>5, <2>1, <2>2
<1>8. Aside
  BY <1>1, <1>2, <1>4, <1>5, PopShift DEF Aside
<1> QED
  BY <1>5, <1>7, <1>8 DEF Settled

Inner ==
  \/ OpenBegin \/ OpenNext \/ ForBegin \/ ForNext
  \/ ReturnFlagged \/ ReturnUnload \/ ReturnCtor
  \/ RequireNext \/ RequireEnd \/ CloseCall \/ Dlclose
  \/ \E request \in Requests : modloader_require_mod(request) \/ modloader_force_unload(request)

(* All of them.                                                            *)
LEMMA InnerSettles == ASSUME IInv, IInv', Inner PROVE Settled /\ Aside
BY LoopsSettle, RequiresSettle, ReturnsSettle, CloseSettles DEF Inner

(* What is delivered stays delivered while no list grows.                  *)
LEMMA DeliveredKept ==
  ASSUME IInv, IInv', NEW list \in OpenedPhases, NEW fn, Inherits(list), Delivered(list, fn),
         \A m \in Mod : returned[m] \subseteq returned'[m]
  PROVE  Delivered(list, fn)'
<1>1. loaded[list] \in Seq(LoadResult) /\ loaded'[list] \in Seq(LoadResult)
  BY DEF IInv, TypeOK
<1>2. ASSUME NEW i \in 1..Len(loaded'[list]), loaded'[list][i].ok, fn \in Exports[loaded'[list][i].mod]
      PROVE  fn \in returned'[loaded'[list][i].mod]
  <2>1. PICK k \in 1..Len(loaded[list]) :
          loaded'[list][i].mod = loaded[list][k].mod /\ loaded'[list][i].ok = loaded[list][k].ok
    BY <1>2 DEF Inherits
  <2>2. loaded[list][k].mod \in Mod
    <3>1. loaded[list][k] \in LoadResult
      BY <1>1
    <3> QED
      BY <3>1 DEF LoadResult
  <2>3. fn \in returned[loaded[list][k].mod]
    BY <1>1, <1>2, <2>1 DEF Delivered
  <2> QED
    BY <2>1, <2>2, <2>3
<1> QED
  BY <1>1, <1>2 DEF Delivered

(* An inner step keeps what concerns the stages.                           *)
LEMMA InnerKeeps ==
  ASSUME IInv, IInv', InStages, Progress, Deliveries, Settled, Aside
  PROVE  InStages' /\ Progress' /\ Deliveries'
<1>1. PICK d \in {-1, 0, 1} : Shifted(d) /\ (d = 1 => Stage(stack[1]) = 0)
  BY DEF Aside
<1>2. Len(stack) \in Nat
  BY DEF IInv, TypeOK
<1>3. InStages' /\ \A n \in 1..15 : Waits(n)' <=> Waits(n)
  <2>1. /\ InStages'
        /\ \A n \in 1..15 : Waits(n)' => Waits(n)
        /\ \A n \in 1..15 : Waits(n) /\ (d = 1 => Stage(stack[1]) # n) => Waits(n)'
    BY <1>1, <1>2, ShiftedStages
  <2>2. \A n \in 1..15 : d = 1 => Stage(stack[1]) # n
    BY <1>1
  <2> QED
    BY <2>1, <2>2
<1>4. /\ \A n \in 4..10 : Waits(n)' <=> Waits(n)
      /\ \A n \in 6..10 : Waits(n)' <=> Waits(n)
      /\ Waits(1)' <=> Waits(1)
      /\ Waits(2)' <=> Waits(2)
      /\ Waits(3)' <=> Waits(3)
      /\ Waits(4)' <=> Waits(4)
      /\ Waits(5)' <=> Waits(5)
      /\ Waits(6)' <=> Waits(6)
      /\ Waits(7)' <=> Waits(7)
      /\ Waits(8)' <=> Waits(8)
      /\ Waits(9)' <=> Waits(9)
  BY <1>3
<1>5. \A list : Skipped(list) => Skipped(list)'
  BY DEF Skipped, Settled
<1>6. 6 \in 4..10 /\ 6 \in 6..10
  OBVIOUS
<1>7. Progress'
  BY <1>4, <1>5, <1>6 DEF Progress, Settled
<1>8. \A list \in OpenedPhases, fn \in Flags : Delivered(list, fn) => Delivered(list, fn)'
  BY DeliveredKept DEF Settled
<1>9. /\ "EarlyMods" \in OpenedPhases /\ "Mods" \in OpenedPhases
      /\ "setup" \in Flags /\ "load" \in Flags /\ "late_load" \in Flags
  BY DEF OpenedPhases, Flags
<1>11. \A list \in ModLists : list \in OpenedPhases
  BY <1>9 DEF ModLists
<1>12. (\/ "DestroyObject" \in hooks \/ "Mods" \in opened \/ current_load_phase = "Mods"
        \/ \E n \in 6..10 : Waits(n))'
       => Delivered("EarlyMods", "load")'
  BY <1>4, <1>6, <1>8, <1>9 DEF Deliveries, Settled
<1> QED
  BY <1>3, <1>4, <1>7, <1>8, <1>9, <1>11, <1>12 DEF Deliveries, Settled

-----------------------------------------------------------------------------
(* The ends of what is of the base.                                        *)

(* A function of the base ends: those of earlier stages have, and it is     *)
(* not called by anything that is in progress.                             *)
LEMMA BasePops ==
  ASSUME IInv, InStages, stack # <<>>, Base(Top), stack' = Tail(stack)
  PROVE  /\ InStages'
         /\ Stage(Top) \in 1..14
         /\ Waits(Stage(Top))
         /\ \A n \in 1..15 : n = Stage(Top) /\ n # 10 => ~Waits(n)'
         /\ \A n \in 1..15 : n # Stage(Top) => (Waits(n)' <=> Waits(n))
         /\ \A n \in 1..15 : n < Stage(Top) => ~Waits(n)
         /\ \A fn, m : ~InProgress(fn, m)
         /\ \A i \in 1..Len(stack') : \E k \in 2..Len(stack) : stack'[i] = stack[k] /\ Fresh(stack[k])
<1>1. /\ stack \in Seq(FrameType) /\ Top = stack[1] /\ Len(stack) \in Nat /\ 1 \in 1..Len(stack)
      /\ Len(stack') = Len(stack) - 1
      /\ \A i \in 1..(Len(stack) - 1) : stack'[i] = stack[i + 1]
  BY Facts, StackTop, Popped
<1>2. Stage(Top) \in 1..14
  BY <1>1, StageSpan DEF InStages
<1>3. /\ InStages'
      /\ \A n \in 1..15 : Waits(n)' => Waits(n)
      /\ \A n \in 1..15 : Waits(n) /\ (1 = 1 => Stage(stack[1]) # n) => Waits(n)'
  BY <1>1, PopShift, ShiftedStages
<1>4. ASSUME NEW k \in 2..Len(stack)
      PROVE  /\ Fresh(stack[k])
             /\ Stage(Top) < Stage(stack[k]) \/ (Stage(Top) = 10 /\ Stage(stack[k]) = 10)
  BY <1>1, <1>2, <1>4, Facts DEF InStages, Shape, BaseAboveFresh
<1>5. \A n \in 1..15 : n < Stage(Top) => ~Waits(n)
  <2> SUFFICES ASSUME NEW n \in 1..15, n < Stage(Top), NEW k \in 1..Len(stack), Stage(stack[k]) = n
               PROVE  FALSE
    BY DEF Waits
  <2>1. k = 1 \/ k \in 2..Len(stack)
    BY <1>1
  <2> QED
    BY <1>1, <1>2, <1>4, <2>1
<1>6. ASSUME NEW n \in 1..15, n = Stage(Top), n # 10, Waits(n)' PROVE FALSE
  <2>1. PICK i \in 1..Len(stack') : Stage(stack'[i]) = n
    BY <1>6 DEF Waits
  <2>2. i + 1 \in 2..Len(stack) /\ stack'[i] = stack[i + 1]
    BY <1>1, <2>1
  <2>3. \/ Stage(Top) < Stage(stack[i + 1])
        \/ Stage(Top) = 10 /\ Stage(stack[i + 1]) = 10
    BY <1>4, <2>2
  <2> QED
    BY <1>6, <2>1, <2>2, <2>3
<1>7. ASSUME NEW fn, NEW m PROVE ~InProgress(fn, m)
  <2> SUFFICES ASSUME NEW k \in 1..Len(stack), stack[k].at = "call" PROVE FALSE
    BY DEF InProgress
  <2>1. k = 1 \/ k \in 2..Len(stack)
    BY <1>1
  <2> QED
    BY <1>1, <1>4, <2>1 DEF Base, Fresh
<1>8. \A i \in 1..Len(stack') : \E k \in 2..Len(stack) : stack'[i] = stack[k] /\ Fresh(stack[k])
  <2> SUFFICES ASSUME NEW i \in 1..Len(stack')
               PROVE  \E k \in 2..Len(stack) : stack'[i] = stack[k] /\ Fresh(stack[k])
    OBVIOUS
  <2>1. i + 1 \in 2..Len(stack) /\ stack'[i] = stack[i + 1]
    BY <1>1
  <2> QED
    BY <1>4, <2>1
<1>9. Waits(Stage(Top))
  BY <1>1 DEF Waits
<1> QED
  BY <1>1, <1>2, <1>3, <1>5, <1>6, <1>7, <1>8, <1>9

(* A loop that ends has delivered.                                         *)
LEMMA LoopDelivers ==
  ASSUME IInv, TakeTurns, stack # <<>>, Top.at = "for", Top.fn \in Flags, Top.pos > Top.end,
         \A fn, m : ~InProgress(fn, m)
  PROVE  Delivered(Top.list, Top.fn)
<1>1. /\ stack \in Seq(FrameType) /\ Top = stack[1] /\ 1 \in 1..Len(stack) /\ Top \in ForFrameType
      /\ loaded \in [OpenedPhases -> Seq(LoadResult)]
  BY Facts, StackTop, FrameKinds
<1>2. Top.pos \in Nat /\ Top.end \in Nat /\ Top.list \in OpenedPhases
  BY <1>1, ForFrames
<1>3. Top.pos > 0
  BY <1>2
<1>4. LoopsInTurn(Top)
  BY <1>1 DEF TakeTurns, InTurn
<1>5. Top.end = Len(loaded[Top.list]) /\ loaded[Top.list] \in Seq(LoadResult)
  BY <1>1, <1>2, <1>3, <1>4 DEF LoopsInTurn
<1>6. \A j \in 1..Len(loaded[Top.list]) : j < Top.pos
  BY <1>2, <1>5
<1>7. DOMAIN loaded[Top.list] = 1..Len(loaded[Top.list])
  BY <1>5
<1> QED
  BY <1>3, <1>4, <1>6, <1>7 DEF LoopsInTurn, Delivered

(* What a base pop leaves of the deliveries, unless the list is replaced.  *)
LEMMA AllInherit ==
  ASSUME IInv, IInv', \A list \in OpenedPhases : Inherits(list),
         \A m \in Mod : returned[m] \subseteq returned'[m]
  PROVE  /\ \A fn \in Flags : Delivered("EarlyMods", fn) => Delivered("EarlyMods", fn)'
         /\ \A fn \in Flags : Delivered("Mods", fn) => Delivered("Mods", fn)'
BY DeliveredKept DEF OpenedPhases

(* The ends of all other functions of the base, loadMods apart.            *)
LEMMA EndsKeep ==
  ASSUME IInv, IInv', DInv, setup_unity_hook \/ ForEnd \/ ClearLists
  PROVE  InStages' /\ Progress' /\ Deliveries'
<1>1. /\ stack # <<>> /\ Base(Top) /\ stack' = Tail(stack)
      /\ UNCHANGED <<host, failed, current_load_phase, skip_load, returned>>
  BY DEF setup_unity_hook, ForEnd, ClearLists, TopIs, Pop, Base, hostVars, historyVars, listVars
<1>2. PICK n \in 1..14 : n = Stage(Top)
  BY <1>1, BasePops DEF DInv
<1>3. /\ InStages' /\ Waits(n)
      /\ n # 10 => ~Waits(n)'
      /\ \A k \in 1..15 : k # n => (Waits(k)' <=> Waits(k))
      /\ \A k \in 1..15 : k < n => ~Waits(k)
      /\ \A fn, m : ~InProgress(fn, m)
  <2>1. InStages
    BY DEF DInv
  <2>2. /\ InStages' /\ Waits(Stage(Top))
        /\ \A k \in 1..15 : k = Stage(Top) /\ k # 10 => ~Waits(k)'
        /\ \A k \in 1..15 : k # Stage(Top) => (Waits(k)' <=> Waits(k))
        /\ \A k \in 1..15 : k < Stage(Top) => ~Waits(k)
        /\ \A fn, m : ~InProgress(fn, m)
    BY <1>1, <2>1, BasePops
  <2>3. n \in 1..15
    OBVIOUS
  <2> QED
    BY <1>2, <2>2, <2>3
<1>4. \A list : Skipped(list)' <=> Skipped(list)
  BY <1>1 DEF Skipped
<1>5. \A list \in OpenedPhases : Inherits(list)
  <2>1. CASE loaded' = loaded
    BY <2>1, SameInherits, Facts
  <2>2. CASE loaded' = [p \in OpenedPhases |-> <<>>]
    BY <2>2 DEF Inherits
  <2> QED
    BY <2>1, <2>2 DEF setup_unity_hook, ForEnd, ClearLists, listVars
<1>6. /\ \A fn \in Flags : Delivered("EarlyMods", fn) => Delivered("EarlyMods", fn)'
      /\ \A fn \in Flags : Delivered("Mods", fn) => Delivered("Mods", fn)'
  BY <1>1, <1>5, AllInherit
<1>8. /\ n \notin {1, 2, 6, 10}
      /\ n # 5 => UNCHANGED hooks
      /\ opened' = opened \union (IF n = 3 THEN {"EarlyMods"} ELSE IF n = 7 THEN {"Mods"} ELSE {})
  <2>1. CASE setup_unity_hook
    BY <1>2, <1>3, <2>1, StageOfPlain DEF setup_unity_hook, TopIs, listVars
  <2>2. CASE ForEnd
    <3>1. Top.at = "for" /\ UNCHANGED hooks
          /\ opened' = opened \union (IF Top.fn = "setup" THEN {Top.list} ELSE {})
      BY <2>2 DEF ForEnd, TopIs, hostVars
    <3>2. n \notin {1, 2, 5, 6, 10, 14}
      BY <1>2, <3>1, ForStages
    <3>3. /\ n = 3 <=> Top.list = "EarlyMods" /\ Top.fn = "setup"
          /\ n = 7 <=> Top.list = "Mods" /\ Top.fn = "setup"
      BY <1>2, <3>1, StageOfFor
    <3>4. Top.fn = "setup" => n \in {3, 7}
      BY <1>2, <3>1, ForStages
    <3> QED
      BY <3>1, <3>2, <3>3, <3>4
  <2>3. CASE ClearLists
    BY <1>2, <2>3, StageOfPlain DEF ClearLists, TopIs, hostVars
  <2> QED
    BY <2>1, <2>2, <2>3
<1>9. /\ n = 3 => Delivered("EarlyMods", "setup")
      /\ n = 4 => Delivered("EarlyMods", "load")
      /\ n = 7 => Delivered("Mods", "setup")
      /\ n = 8 => Delivered("EarlyMods", "late_load")
      /\ n = 9 => Delivered("Mods", "late_load")
  <2> SUFFICES ASSUME n \in {3, 4, 7, 8, 9}
               PROVE  Top.at = "for" /\ Top.fn \in Flags /\ Top.pos > Top.end
    <3>1. ASSUME Top.at = "for", Top.fn \in Flags, Top.pos > Top.end
          PROVE  Delivered(Top.list, Top.fn)
      BY <1>1, <1>3, <3>1, LoopDelivers DEF DInv
    <3>2. Top.at = "for" =>
          /\ n = 3 => Top.list = "EarlyMods" /\ Top.fn = "setup"
          /\ n = 4 => Top.list = "EarlyMods" /\ Top.fn = "load"
          /\ n = 7 => Top.list = "Mods" /\ Top.fn = "setup"
          /\ n = 8 => Top.list = "EarlyMods" /\ Top.fn = "late_load"
          /\ n = 9 => Top.list = "Mods" /\ Top.fn = "late_load"
      BY <1>2, StageOfFor
    <3> QED
      BY <3>1, <3>2
  <2>1. ~setup_unity_hook /\ ~ClearLists
    BY <1>2, StageOfPlain DEF setup_unity_hook, ClearLists, TopIs
  <2>2. ForEnd
    BY <2>1
  <2>3. Top.at = "for" /\ Top.pos > Top.end
    BY <2>2 DEF ForEnd, TopIs
  <2> QED
    BY <1>2, <2>3, StageOfFor DEF Flags
<1>10. /\ \A k \in 4..10 : Waits(k)' => Waits(k)
       /\ \A k \in 6..10 : Waits(k)' => Waits(k)
       /\ \A k \in 1..9 : (k # n => (Waits(k)' <=> Waits(k))) /\ (k < n => ~Waits(k))
                           /\ (k = n => Waits(k) /\ ~Waits(k)')
  BY <1>3
<1>11. /\ (1 # n => (Waits(1)' <=> Waits(1))) /\ (1 < n => ~Waits(1)) /\ (1 = n => Waits(1) /\ ~Waits(1)')
       /\ (2 # n => (Waits(2)' <=> Waits(2))) /\ (2 < n => ~Waits(2)) /\ (2 = n => Waits(2) /\ ~Waits(2)')
       /\ (3 # n => (Waits(3)' <=> Waits(3))) /\ (3 < n => ~Waits(3)) /\ (3 = n => Waits(3) /\ ~Waits(3)')
       /\ (4 # n => (Waits(4)' <=> Waits(4))) /\ (4 < n => ~Waits(4)) /\ (4 = n => Waits(4) /\ ~Waits(4)')
       /\ (5 # n => (Waits(5)' <=> Waits(5))) /\ (5 < n => ~Waits(5)) /\ (5 = n => Waits(5) /\ ~Waits(5)')
       /\ (6 # n => (Waits(6)' <=> Waits(6))) /\ (6 < n => ~Waits(6)) /\ (6 = n => Waits(6) /\ ~Waits(6)')
       /\ (7 # n => (Waits(7)' <=> Waits(7))) /\ (7 < n => ~Waits(7)) /\ (7 = n => Waits(7) /\ ~Waits(7)')
       /\ (8 # n => (Waits(8)' <=> Waits(8))) /\ (8 < n => ~Waits(8)) /\ (8 = n => Waits(8) /\ ~Waits(8)')
       /\ (9 # n => (Waits(9)' <=> Waits(9))) /\ (9 < n => ~Waits(9)) /\ (9 = n => Waits(9) /\ ~Waits(9)')
  BY <1>10
<1>12. Progress'
  <2>1. Waits(5) \/ Waits(7) => "EarlyMods" \in opened
    <3>1. 5 \in 4..10 /\ 7 \in 4..10
      OBVIOUS
    <3> QED
      BY <3>1 DEF DInv, Progress
  <2>2. hooks' # {} => hooks # {} \/ Waits(5)
    BY <1>3, <1>8
  <2>3. (\/ hooks # {} \/ "Mods" \in opened \/ current_load_phase = "Mods"
         \/ \E k \in 4..10 : Waits(k))'
        => "EarlyMods" \in opened'
    BY <1>1, <1>8, <1>10, <1>11, <2>1, <2>2 DEF DInv, Progress
  <2> QED
    BY <1>1, <1>4, <1>8, <1>11, <2>3 DEF DInv, Progress, ModLists
<1>13. Deliveries'
  <2>1. "setup" \in Flags /\ "load" \in Flags /\ "late_load" \in Flags
    BY DEF Flags
  <2>2. Waits(7) => Delivered("EarlyMods", "load")
    <3>1. 7 \in 6..10
      OBVIOUS
    <3> QED
      BY <3>1 DEF DInv, Deliveries
  <2>3. n = 5 => Delivered("EarlyMods", "load")
    BY <1>11 DEF DInv, Deliveries
  <2>4. (\/ "DestroyObject" \in hooks \/ "Mods" \in opened \/ current_load_phase = "Mods"
         \/ \E k \in 6..10 : Waits(k))'
        => Delivered("EarlyMods", "load")'
    BY <1>1, <1>6, <1>8, <1>10, <1>11, <2>1, <2>2, <2>3 DEF DInv, Deliveries
  <2>5. \A list \in ModLists \intersect opened' : Delivered(list, "setup")'
    BY <1>6, <1>8, <1>9, <2>1 DEF DInv, Deliveries, ModLists
  <2>6. Waits(5)' => Waits(4)' \/ Delivered("EarlyMods", "load")'
    BY <1>6, <1>9, <1>11, <2>1 DEF DInv, Deliveries
  <2>7. Waits(7) => Waits(8) /\ Waits(9)
    BY DEF DInv, Progress
  <2>8. "Mods" \in opened' =>
          /\ Waits(8)' \/ Delivered("EarlyMods", "late_load")'
          /\ Waits(9)' \/ Delivered("Mods", "late_load")'
    BY <1>6, <1>8, <1>9, <1>11, <2>1, <2>7 DEF DInv, Deliveries
  <2> QED
    BY <2>4, <2>5, <2>6, <2>8 DEF Deliveries
<1> QED
  BY <1>3, <1>12, <1>13

(* loadMods ends: it has come to every candidate.                          *)
LEMMA OpenEndStages ==
  ASSUME IInv, IInv', DInv, OpenEnd
  PROVE  InStages' /\ Progress' /\ Deliveries'
<1>1. /\ stack # <<>> /\ Base(Top) /\ stack' = Tail(stack) /\ Top.at = "open" /\ Top.mods = <<>>
      /\ UNCHANGED <<host, failed, hooks, current_load_phase, skip_load, returned>>
      /\ loaded' = [loaded EXCEPT ![Top.list] = Top.results]
      /\ opened' = opened \union (IF Top.list = "Libs" THEN {"Libs"} ELSE {})
  <2>1. Base(Top)
    BY DEF OpenEnd, TopIs, Base
  <2> QED
    BY <2>1 DEF OpenEnd, TopIs, Pop, hostVars, historyVars
<1>2. PICK n \in 1..14 : n = Stage(Top)
  BY <1>1, BasePops DEF DInv
<1>3. /\ Top = stack[1] /\ 1 \in 1..Len(stack) /\ Top \in OpenFrameType
      /\ Top.list \in OpenedPhases /\ loaded \in [OpenedPhases -> Seq(LoadResult)]
  <2>1. /\ Top = stack[1] /\ 1 \in 1..Len(stack) /\ Top \in OpenFrameType
        /\ loaded \in [OpenedPhases -> Seq(LoadResult)]
    BY <1>1, Facts, StackTop, FrameKinds
  <2> QED
    BY <2>1, OpenFrames
<1>4. /\ n \in {1, 2, 6}
      /\ n = 1 <=> Top.list = "Libs"
      /\ n = 2 <=> Top.list = "EarlyMods"
      /\ n = 6 <=> Top.list = "Mods"
  BY <1>1, <1>2, <1>3, StageOfOpen DEF OpenedPhases
<1>5. /\ InStages'
      /\ n # 10 => ~Waits(n)'
      /\ Waits(n)
      /\ \A k \in 1..15 : k # n => (Waits(k)' <=> Waits(k))
  BY <1>1, <1>2, BasePops DEF DInv
<1>6. /\ \A k \in 4..10 : Waits(k)' => Waits(k)
      /\ \A k \in 6..10 : Waits(k)' => Waits(k)
      /\ Waits(1)' => Waits(1)
      /\ Waits(2)' => Waits(2)
      /\ Waits(3)' <=> Waits(3)
      /\ Waits(4)' <=> Waits(4)
      /\ Waits(5)' <=> Waits(5)
      /\ Waits(7)' <=> Waits(7)
      /\ Waits(8)' <=> Waits(8)
      /\ Waits(9)' <=> Waits(9)
      /\ n # 2 => (Waits(2)' <=> Waits(2))
      /\ n # 6 => (Waits(6)' <=> Waits(6))
      /\ n = 2 => Waits(2)
      /\ n = 6 => Waits(6)
  BY <1>4, <1>5
<1>7. \A list : Skipped(list)' <=> Skipped(list)
  BY <1>1 DEF Skipped
<1>8. OpensInTurn(Top)
  BY <1>3 DEF DInv, TakeTurns, InTurn
<1>9. n = 2 => Skipped("EarlyMods")
  <2>1. Range(<<>>) = {}
    BY DEF Range
  <2> QED
    BY <1>1, <1>4, <1>8, <2>1 DEF OpensInTurn, Skipped
<1>10. n = 6 => Skipped("Mods")
  <2>1. Range(<<>>) = {}
    BY DEF Range
  <2> QED
    BY <1>1, <1>4, <1>8, <2>1 DEF OpensInTurn, Skipped
<1>11. "EarlyMods" \in opened' <=> "EarlyMods" \in opened
  BY <1>1
<1>12. "Mods" \in opened' <=> "Mods" \in opened
  BY <1>1
<1>13. Progress'
  <2>1. (\/ hooks # {} \/ "Mods" \in opened \/ current_load_phase = "Mods"
         \/ \E k \in 4..10 : Waits(k))'
        => "EarlyMods" \in opened'
    BY <1>1, <1>6, <1>11, <1>12 DEF DInv, Progress
  <2> QED
    BY <1>1, <1>6, <1>7, <1>9, <1>10, <1>11, <1>12, <2>1 DEF DInv, Progress, ModLists
<1>14. \A fn \in Flags : n # 2 => (Delivered("EarlyMods", fn)' <=> Delivered("EarlyMods", fn))
  BY <1>1, <1>3, <1>4 DEF Delivered, OpenedPhases
<1>15. \A fn \in Flags : n # 6 => (Delivered("Mods", fn)' <=> Delivered("Mods", fn))
  BY <1>1, <1>3, <1>4 DEF Delivered, OpenedPhases
<1>16. n = 2 => "EarlyMods" \notin opened
  BY <1>6 DEF DInv, Progress
<1>17. n = 6 /\ "Mods" \in opened => \A fn \in Flags : Delivered("Mods", fn)'
  <2>1. n = 6 /\ "Mods" \in opened => loaded'["Mods"] = <<>>
    BY <1>1, <1>3, <1>4, <1>8 DEF OpensInTurn
  <2> QED
    BY <2>1 DEF Delivered
<1>18. /\ "setup" \in Flags /\ "load" \in Flags /\ "late_load" \in Flags
       /\ 5 \in 4..10 /\ \A k \in 6..10 : k \in 4..10
  BY DEF Flags
<1>19. Waits(5) \/ (\E k \in 6..10 : Waits(k)) \/ "DestroyObject" \in hooks \/ "Mods" \in opened
         \/ current_load_phase = "Mods" => n # 2
  BY <1>16, <1>18 DEF DInv, Progress
<1>21. Deliveries'
  <2>1. (\/ "DestroyObject" \in hooks \/ "Mods" \in opened \/ current_load_phase = "Mods"
         \/ \E k \in 6..10 : Waits(k))'
        => Delivered("EarlyMods", "load")'
    BY <1>1, <1>6, <1>12, <1>14, <1>18, <1>19 DEF DInv, Deliveries
  <2>2. \A list \in ModLists \intersect opened' : Delivered(list, "setup")'
    BY <1>11, <1>12, <1>14, <1>15, <1>16, <1>17, <1>18 DEF DInv, Deliveries, ModLists
  <2>3. Waits(5)' => Waits(4)' \/ Delivered("EarlyMods", "load")'
    BY <1>6, <1>14, <1>18, <1>19 DEF DInv, Deliveries
  <2>4. "Mods" \in opened' =>
          /\ Waits(8)' \/ Delivered("EarlyMods", "late_load")'
          /\ Waits(9)' \/ Delivered("Mods", "late_load")'
    BY <1>6, <1>12, <1>14, <1>15, <1>17, <1>18, <1>19 DEF DInv, Deliveries
  <2> QED
    BY <2>1, <2>2, <2>3, <2>4 DEF Deliveries
<1> QED
  BY <1>5, <1>13, <1>21

-----------------------------------------------------------------------------
(* What the host and the game begin.                                       *)

(* The frames of k stages from s on come in the place of the first d.      *)
LEMMA BegunStages ==
  ASSUME InStages, Len(stack) \in Nat, NEW d \in {0, 1}, d <= Len(stack), NEW k \in 1..4, NEW s \in 1..11,
         Len(stack') = (Len(stack) - d) + k,
         \A i \in 1..k : Stage(stack'[i]) = s + (i - 1),
         \A i \in (k + 1)..Len(stack') : stack'[i] = stack[(i - k) + d],
         \A j \in (d + 1)..Len(stack) :
           \/ Stage(stack[j]) \in Nat /\ Stage(stack[j]) > s + (k - 1)
           \/ s = 10 /\ k = 1 /\ Stage(stack[j]) = 10
  PROVE  /\ InStages'
         /\ \A n \in 1..15 : Waits(n)' => n \in s..(s + (k - 1)) \/ Waits(n)
         /\ \A n \in s..(s + (k - 1)) : Waits(n)'
<1>1. ASSUME NEW i \in 1..Len(stack')
      PROVE  \/ i \in 1..k /\ Stage(stack'[i]) = s + (i - 1)
             \/ i \in (k + 1)..Len(stack') /\ (i - k) + d \in (d + 1)..Len(stack)
                /\ stack'[i] = stack[(i - k) + d]
  <2>1. i \in 1..k \/ i \in (k + 1)..Len(stack')
    OBVIOUS
  <2>2. i \in (k + 1)..Len(stack') => (i - k) + d \in (d + 1)..Len(stack)
    <3>1. \A l \in Nat, x \in Int : x \in (k + 1)..((l - d) + k) => (x - k) + d \in (d + 1)..l
      OBVIOUS
    <3>2. i \in Int /\ Len(stack') = (Len(stack) - d) + k
      OBVIOUS
    <3> QED
      BY <3>1, <3>2
  <2> QED
    BY <2>1, <2>2
<1>2. \A j \in (d + 1)..Len(stack) : j \in 1..Len(stack)
  OBVIOUS
<1>3. s + (k - 1) \in 1..14
  OBVIOUS
<1>4. InStages'
  <2>1. ASSUME NEW i \in 1..Len(stack') PROVE Stage(stack'[i]) # 15
    <3>1. CASE i \in 1..k /\ Stage(stack'[i]) = s + (i - 1)
      BY <1>3, <3>1
    <3>2. CASE (i - k) + d \in (d + 1)..Len(stack) /\ stack'[i] = stack[(i - k) + d]
      BY <1>2, <3>2 DEF InStages
    <3> QED
      BY <1>1, <3>1, <3>2
  <2>2. ASSUME NEW i \in 1..Len(stack'), NEW j \in 1..Len(stack'), Stage(stack'[i]) > 0, i < j
        PROVE  \/ Stage(stack'[i]) < Stage(stack'[j])
               \/ Stage(stack'[i]) = 10 /\ Stage(stack'[j]) = 10
    <3>1. CASE i \in 1..k /\ j \in 1..k
      BY <2>2, <3>1
    <3>2. CASE i \in 1..k /\ j \notin 1..k
      <4>1. (j - k) + d \in (d + 1)..Len(stack) /\ stack'[j] = stack[(j - k) + d]
        BY <1>1, <3>2
      <4>2. Stage(stack'[i]) = s + (i - 1) /\ s + (i - 1) <= s + (k - 1) /\ (k = 1 => i = 1)
        BY <3>2
      <4>3. \/ Stage(stack'[j]) \in Nat /\ Stage(stack'[j]) > s + (k - 1)
            \/ s = 10 /\ k = 1 /\ Stage(stack'[j]) = 10
        BY <4>1
      <4> QED
        BY <4>2, <4>3
    <3>3. CASE i \notin 1..k
      <4>1. (i - k) + d \in (d + 1)..Len(stack) /\ stack'[i] = stack[(i - k) + d]
        BY <1>1, <3>3
      <4>2. j \notin 1..k
        BY <2>2, <3>3
      <4>3. (j - k) + d \in (d + 1)..Len(stack) /\ stack'[j] = stack[(j - k) + d]
        BY <1>1, <4>2
      <4>4. (i - k) + d < (j - k) + d
        BY <2>2
      <4>5. PICK x, y \in 1..Len(stack) : stack'[i] = stack[x] /\ stack'[j] = stack[y] /\ x < y
        BY <1>2, <4>1, <4>3, <4>4
      <4> QED
        BY <2>2, <4>5 DEF InStages
    <3> QED
      BY <3>1, <3>2, <3>3
  <2> QED
    BY <2>1, <2>2 DEF InStages
<1>5. ASSUME NEW n \in 1..15, Waits(n)' PROVE n \in s..(s + (k - 1)) \/ Waits(n)
  <2>1. PICK i \in 1..Len(stack') : Stage(stack'[i]) = n
    BY <1>5 DEF Waits
  <2>2. CASE i \in 1..k
    <3>1. n = s + (i - 1)
      BY <2>1, <2>2
    <3> QED
      BY <2>2, <3>1
  <2>3. CASE i \notin 1..k
    BY <1>1, <1>2, <2>1, <2>3 DEF Waits
  <2> QED
    BY <2>2, <2>3
<1>6. ASSUME NEW n \in s..(s + (k - 1)) PROVE Waits(n)'
  <2>1. PICK i \in 1..k : n = s + (i - 1)
    <3>1. (n - s) + 1 \in 1..k /\ n = s + (((n - s) + 1) - 1)
      OBVIOUS
    <3> QED
      BY <3>1
  <2>2. Len(stack') >= k /\ Len(stack') \in Nat
    OBVIOUS
  <2>3. i \in 1..Len(stack')
    BY <2>2
  <2> QED
    BY <2>1, <2>3 DEF Waits
<1> QED
  BY <1>4, <1>5, <1>6

(* A call of the host's, or the original that returns in the hook.         *)
LEMMA NoneWaits ==
  ASSUME IInv, InStages, stack = <<>> \/ (stack # <<>> /\ Top.at = "orig")
  PROVE  /\ \A n \in 1..9 : ~Waits(n)
         /\ \A j \in 1..Len(stack) : Stage(stack[j]) \in 10..14
<1>1. CASE stack = <<>>
  BY <1>1 DEF Waits
<1>2. CASE stack # <<>> /\ Top.at = "orig"
  <2>1. Top = stack[1] /\ Len(stack) \in Nat /\ 1 \in 1..Len(stack)
    BY <1>2, Facts, StackTop
  <2>2. Stage(stack[1]) = 10
    BY <1>2, <2>1, StageOfPlain
  <2>3. ASSUME NEW j \in 1..Len(stack) PROVE Stage(stack[j]) \in 10..14
    <3>1. Stage(stack[j]) \in 0..15 /\ Stage(stack[j]) # 15
      BY StageSpan DEF InStages
    <3>2. j = 1 \/ 1 < j
      BY <2>1
    <3> QED
      BY <2>1, <2>2, <3>1, <3>2 DEF InStages
  <2>4. \A n \in 1..9 : n \notin 10..14
    OBVIOUS
  <2>5. \A n \in 1..9 : ~Waits(n)
    BY <2>3, <2>4 DEF Waits
  <2> QED
    BY <2>3, <2>5
<1> QED
  BY <1>1, <1>2

(* The elements of a sequence with two, three or four put before it.       *)
LEMMA PushedMore ==
  ASSUME NEW S, NEW s \in Seq(S), NEW f \in S, NEW g \in S, NEW h \in S, NEW e \in S
  PROVE  /\ LET t == <<f, g>> \o s IN
              /\ Len(t) = Len(s) + 2 /\ t[1] = f /\ t[2] = g
              /\ \A i \in 3..Len(t) : t[i] = s[i - 2]
         /\ LET t == <<f, g, h>> \o s IN
              /\ Len(t) = Len(s) + 3 /\ t[1] = f /\ t[2] = g /\ t[3] = h
              /\ \A i \in 4..Len(t) : t[i] = s[i - 3]
         /\ LET t == <<f, g, h, e>> \o s IN
              /\ Len(t) = Len(s) + 4 /\ t[1] = f /\ t[2] = g /\ t[3] = h /\ t[4] = e
              /\ \A i \in 5..Len(t) : t[i] = s[i - 4]
OBVIOUS

(* The stages of a start: k of them, from s on.                            *)
Starts(s, k) ==
  /\ \A n \in 1..15 : Waits(n)' => n \in s..(s + (k - 1)) \/ Waits(n)
  /\ \A n \in s..(s + (k - 1)) : Waits(n)'

(* Stages one after the other on an idle stack are in their order.         *)
LEMMA BegunIdle ==
  ASSUME InStages, stack = <<>>, NEW k \in 1..4, NEW s \in 1..11, Len(stack') = k,
         \A i \in 1..k : Stage(stack'[i]) = s + (i - 1)
  PROVE  InStages' /\ Starts(s, k)
<1>1. Len(stack) = 0
  OBVIOUS
<1>2. Len(stack') = (Len(stack) - 0) + k
  BY <1>1
<1>3. \A i \in (k + 1)..Len(stack') : FALSE
  OBVIOUS
<1>4. \A j \in (0 + 1)..Len(stack) : FALSE
  BY <1>1
<1>5. 0 \in {0, 1} /\ Len(stack) \in Nat /\ 0 <= Len(stack)
  BY <1>1
<1> QED
  BY <1>2, <1>3, <1>4, <1>5, BegunStages DEF Starts

(* The stages that the host's calls begin.                                 *)
LEMMA StartStages ==
  ASSUME IInv, IInv', InStages
  PROVE  /\ modloader_load /\ ~failed => InStages' /\ Starts(1, 3)
         /\ Il2cppInit /\ "il2cpp_init" \in hooks => InStages' /\ Starts(4, 2)
         /\ DestroyObject => InStages' /\ Starts(10, 1)
         /\ OrigReturns => InStages' /\ Starts(6, 4)
         /\ modloader_unload /\ ~failed => InStages' /\ Starts(11, 4)
<1>1. stack \in Seq(FrameType) /\ Len(stack) \in Nat /\ stack' \in Seq(FrameType)
  BY Facts DEF IInv, TypeOK
<1>2. /\ \A list \in OpenedPhases : OpenFrame(list) \in FrameType
      /\ \A list \in OpenedPhases : \A fn \in Flags \union {"close"} : ForFrame(list, fn) \in FrameType
      /\ OrigFrame \in FrameType /\ SetupUnityFrame \in FrameType /\ ClearFrame \in FrameType
      /\ {"Libs", "EarlyMods", "Mods"} = OpenedPhases
      /\ {"setup", "load", "late_load"} = Flags
  BY OpenFramesMade, ForFramesMade, PlainFramesMade DEF OpenedPhases, Flags
<1>3. /\ Stage(OpenFrame("Libs")) = 1 /\ Stage(OpenFrame("EarlyMods")) = 2
      /\ Stage(OpenFrame("Mods")) = 6
  BY StageOfOpen DEF OpenFrame
<1>4. /\ Stage(ForFrame("EarlyMods", "setup")) = 3 /\ Stage(ForFrame("EarlyMods", "load")) = 4
      /\ Stage(ForFrame("Mods", "setup")) = 7 /\ Stage(ForFrame("EarlyMods", "late_load")) = 8
      /\ Stage(ForFrame("Mods", "late_load")) = 9 /\ Stage(ForFrame("Mods", "close")) = 11
      /\ Stage(ForFrame("EarlyMods", "close")) = 12 /\ Stage(ForFrame("Libs", "close")) = 13
  BY StageOfFor DEF ForFrame
<1>5. Stage(SetupUnityFrame) = 5 /\ Stage(OrigFrame) = 10 /\ Stage(ClearFrame) = 14
  BY StageOfPlain DEF SetupUnityFrame, OrigFrame, ClearFrame
<1>6. ASSUME modloader_load, ~failed PROVE InStages' /\ Starts(1, 3)
  <2>1. /\ stack = <<>>
        /\ stack' = <<OpenFrame("Libs"), OpenFrame("EarlyMods"), ForFrame("EarlyMods", "setup")>> \o stack
    BY <1>6 DEF modloader_load, Idle, Push
  <2>2. Len(stack') = Len(stack) + 3 /\ Stage(stack'[1]) = 1 /\ Stage(stack'[2]) = 2 /\ Stage(stack'[3]) = 3
    BY <1>1, <1>2, <1>3, <1>4, <2>1, PushedMore
  <2>3. Len(stack') = 3 /\ 3 \in 1..4 /\ 1 \in 1..11
    <3>1. Len(stack) = 0
      BY <2>1
    <3> QED
      BY <2>2, <3>1
  <2>4. \A i \in 1..3 : Stage(stack'[i]) = 1 + (i - 1)
    BY <2>2
  <2> QED
    BY <2>1, <2>3, <2>4, BegunIdle
<1>7. ASSUME Il2cppInit, "il2cpp_init" \in hooks PROVE InStages' /\ Starts(4, 2)
  <2>1. /\ stack = <<>>
        /\ stack' = <<ForFrame("EarlyMods", "load"), SetupUnityFrame>> \o stack
    BY <1>7 DEF Il2cppInit, Idle, Push
  <2>2. Len(stack') = Len(stack) + 2 /\ Stage(stack'[1]) = 4 /\ Stage(stack'[2]) = 5
    BY <1>1, <1>2, <1>4, <1>5, <2>1, PushedMore
  <2>3. Len(stack') = 2 /\ 2 \in 1..4 /\ 4 \in 1..11
    <3>1. Len(stack) = 0
      BY <2>1
    <3> QED
      BY <2>2, <3>1
  <2>4. \A i \in 1..2 : Stage(stack'[i]) = 4 + (i - 1)
    BY <2>2
  <2> QED
    BY <2>1, <2>3, <2>4, BegunIdle
<1>8. ASSUME modloader_unload, ~failed PROVE InStages' /\ Starts(11, 4)
  <2>1. /\ stack = <<>>
        /\ stack' = <<ForFrame("Mods", "close"), ForFrame("EarlyMods", "close"),
                      ForFrame("Libs", "close"), ClearFrame>> \o stack
    BY <1>8 DEF modloader_unload, Idle, Push
  <2>2. /\ Len(stack') = Len(stack) + 4 /\ Stage(stack'[1]) = 11 /\ Stage(stack'[2]) = 12
        /\ Stage(stack'[3]) = 13 /\ Stage(stack'[4]) = 14
    BY <1>1, <1>2, <1>4, <1>5, <2>1, PushedMore
  <2>3. Len(stack') = 4 /\ 4 \in 1..4 /\ 11 \in 1..11
    <3>1. Len(stack) = 0
      BY <2>1
    <3> QED
      BY <2>2, <3>1
  <2>4. \A i \in 1..4 : Stage(stack'[i]) = 11 + (i - 1)
    BY <2>2
  <2> QED
    BY <2>1, <2>3, <2>4, BegunIdle
<1>9. ASSUME DestroyObject PROVE InStages' /\ Starts(10, 1)
  <2>1. /\ stack = <<>> \/ (stack # <<>> /\ Top.at = "orig")
        /\ stack' = <<OrigFrame>> \o stack
    BY <1>9 DEF DestroyObject, Idle, TopIs, Push
  <2>2. /\ Len(stack') = Len(stack) + 1 /\ stack'[1] = OrigFrame
        /\ \A i \in 2..(Len(stack) + 1) : stack'[i] = stack[i - 1]
    BY <1>1, <1>2, <2>1, Pushed
  <2>3. \A j \in (0 + 1)..Len(stack) :
          \/ Stage(stack[j]) \in Nat /\ Stage(stack[j]) > 10 + (1 - 1)
          \/ 10 = 10 /\ 1 = 1 /\ Stage(stack[j]) = 10
    <3>1. \A j \in 1..Len(stack) : Stage(stack[j]) \in 10..14
      BY <2>1, NoneWaits
    <3> QED
      BY <3>1
  <2>4. \A i \in 1..1 : Stage(stack'[i]) = 10 + (i - 1)
    BY <1>5, <2>2
  <2>5. \A i \in (1 + 1)..Len(stack') : stack'[i] = stack[(i - 1) + 0]
    BY <1>1, <2>2
  <2>6. 0 \in {0, 1} /\ 1 \in 1..4 /\ 10 \in 1..11 /\ Len(stack') = (Len(stack) - 0) + 1 /\ 0 <= Len(stack)
    BY <1>1, <2>2
  <2> QED
    BY <1>1, <2>3, <2>4, <2>5, <2>6, BegunStages DEF Starts
<1>10. ASSUME OrigReturns PROVE InStages' /\ Starts(6, 4)
  <2>1. /\ stack # <<>> /\ Top.at = "orig"
        /\ stack' = <<OpenFrame("Mods"), ForFrame("Mods", "setup"),
                      ForFrame("EarlyMods", "late_load"), ForFrame("Mods", "late_load")>> \o Tail(stack)
    BY <1>10 DEF OrigReturns, TopIs
  <2>2. /\ Tail(stack) \in Seq(FrameType) /\ Len(Tail(stack)) = Len(stack) - 1
        /\ \A i \in 1..(Len(stack) - 1) : Tail(stack)[i] = stack[i + 1]
    BY <1>1, <2>1, Popped
  <2>3. /\ Len(stack') = Len(Tail(stack)) + 4 /\ Stage(stack'[1]) = 6 /\ Stage(stack'[2]) = 7
        /\ Stage(stack'[3]) = 8 /\ Stage(stack'[4]) = 9
        /\ \A i \in 5..Len(stack') : stack'[i] = Tail(stack)[i - 4]
    BY <1>2, <1>3, <1>4, <2>1, <2>2, PushedMore
  <2>4. \A j \in (1 + 1)..Len(stack) :
          \/ Stage(stack[j]) \in Nat /\ Stage(stack[j]) > 6 + (4 - 1)
          \/ 6 = 10 /\ 4 = 1 /\ Stage(stack[j]) = 10
    <3>1. \A j \in 1..Len(stack) : Stage(stack[j]) \in 10..14
      BY <2>1, NoneWaits
    <3> QED
      BY <3>1
  <2>5. \A i \in 1..4 : Stage(stack'[i]) = 6 + (i - 1)
    BY <2>3
  <2>6. \A i \in (4 + 1)..Len(stack') : stack'[i] = stack[(i - 4) + 1]
    <3> SUFFICES ASSUME NEW i \in 5..Len(stack') PROVE stack'[i] = stack[(i - 4) + 1]
      OBVIOUS
    <3>1. i - 4 \in 1..(Len(stack) - 1)
      BY <1>1, <2>2, <2>3
    <3> QED
      BY <2>2, <2>3, <3>1
  <2>7. 1 \in {0, 1} /\ 4 \in 1..4 /\ 6 \in 1..11 /\ Len(stack') = (Len(stack) - 1) + 4 /\ 1 <= Len(stack)
    <3>1. Len(stack) >= 1
      BY <1>1, <2>1, Facts
    <3> QED
      BY <1>1, <2>2, <2>3, <3>1
  <2> QED
    BY <1>1, <2>4, <2>5, <2>6, <2>7, BegunStages DEF Starts
<1> QED
  BY <1>6, <1>7, <1>8, <1>9, <1>10

(* The host goes on and nothing is begun.                                  *)
LEMMA HostKeeps ==
  ASSUME IInv, IInv', InStages, Progress, Deliveries,
         \/ modloader_preload \/ (modloader_load /\ failed) \/ modloader_accept_unity_handle
         \/ (Il2cppInit /\ "il2cpp_init" \notin hooks) \/ (modloader_unload /\ failed)
         \/ UNCHANGED vars
  PROVE  InStages' /\ Progress' /\ Deliveries'
<1>1. /\ UNCHANGED <<current_load_phase, opened, skip_load, loaded, stack, returned>>
      /\ hooks' \subseteq hooks \union {"il2cpp_init"}
  BY DEF modloader_preload, modloader_load, modloader_accept_unity_handle, Il2cppInit,
         modloader_unload, vars, hostVars, listVars, historyVars
<1>2. InStages' /\ \A n : Waits(n)' <=> Waits(n)
  BY <1>1 DEF InStages, Waits
<1>3. /\ \A list : Skipped(list)' <=> Skipped(list)
      /\ \A list, fn : Delivered(list, fn)' <=> Delivered(list, fn)
  BY <1>1 DEF Skipped, Delivered
<1>4. stack = <<>> => \A n : ~Waits(n)
  BY DEF Waits
<1>5. /\ host' = "loaded" => host \in {"preloaded", "loaded"}
      /\ host' # host => stack = <<>>
      /\ host' \in {"start", "preloaded"} => host \in {"start", "preloaded"}
      /\ host' = "loaded" /\ ~failed' => host = "loaded" /\ ~failed
      /\ hooks' # {} => hooks # {} \/ (stack = <<>> /\ host = "loaded" /\ ~failed)
  BY DEF modloader_preload, modloader_load, modloader_accept_unity_handle, Il2cppInit,
         modloader_unload, vars, hostVars, Idle
<1>6. Progress'
  <2>1. hooks' # {} => "EarlyMods" \in opened
    BY <1>4, <1>5 DEF Progress
  <2>2. (\/ hooks # {} \/ "Mods" \in opened \/ current_load_phase = "Mods"
         \/ \E n \in 4..10 : Waits(n))'
        => "EarlyMods" \in opened'
    BY <1>1, <1>2, <2>1 DEF Progress
  <2>3. (Waits(1) \/ Waits(2) \/ Waits(3))' => host' = "loaded"
    BY <1>2, <1>4, <1>5 DEF Progress
  <2> QED
    BY <1>1, <1>2, <1>3, <1>5, <2>2, <2>3 DEF Progress
<1>7. Deliveries'
  <2>1. "DestroyObject" \in hooks' => "DestroyObject" \in hooks
    BY <1>1
  <2> QED
    BY <1>1, <1>2, <1>3, <2>1 DEF Deliveries
<1> QED
  BY <1>2, <1>6, <1>7

(* What each of these beginnings keeps.                                    *)
LEMMA StartKeeps ==
  ASSUME Progress, Deliveries, NEW s \in 1..11, NEW k \in 1..4, InStages', Starts(s, k),
         UNCHANGED <<failed, current_load_phase, opened, skip_load, loaded, returned>>,
         hooks' \subseteq hooks,
         ~Waits(1) /\ ~Waits(2) /\ ~Waits(3) /\ ~Waits(4) /\ ~Waits(5) /\ ~Waits(6) /\ ~Waits(7) /\ ~Waits(8) /\ ~Waits(9),
         \/ s = 1 /\ k = 3 /\ host' = "loaded" /\ "EarlyMods" \notin opened
         \/ s = 4 /\ k = 2 /\ host' = "il2cpp" /\ "EarlyMods" \in opened
         \/ s = 6 /\ k = 4 /\ UNCHANGED host /\ "EarlyMods" \in opened /\ Delivered("EarlyMods", "load")
         \/ s = 10 /\ k = 1 /\ UNCHANGED host /\ "EarlyMods" \in opened /\ Delivered("EarlyMods", "load")
         \/ s = 11 /\ k = 4 /\ UNCHANGED host
  PROVE  InStages' /\ Progress' /\ Deliveries'
<1>1. /\ \A list : Skipped(list)' <=> Skipped(list)
      /\ \A list, fn : Delivered(list, fn)' <=> Delivered(list, fn)
  BY DEF Skipped, Delivered
<1>2. /\ \A n \in 1..9 : Waits(n)' <=> n \in s..(s + (k - 1))
      /\ \A n \in 1..15 : Waits(n)' => n \in s..(s + (k - 1)) \/ Waits(n)
  <2>1. \A n \in 1..9 : ~Waits(n)
    <3>1. \A n \in 1..9 : n = 1 \/ n = 2 \/ n = 3 \/ n = 4 \/ n = 5 \/ n = 6 \/ n = 7 \/ n = 8 \/ n = 9
      OBVIOUS
    <3> QED
      BY <3>1
  <2> QED
    BY <2>1 DEF Starts
<1>3. /\ Waits(1)' <=> s = 1
      /\ Waits(2)' <=> s = 1
      /\ Waits(3)' <=> s = 1
      /\ Waits(4)' <=> s = 4
      /\ Waits(5)' <=> s = 4
      /\ Waits(6)' <=> s = 6
      /\ Waits(7)' <=> s = 6
      /\ Waits(8)' <=> s = 6
      /\ Waits(9)' <=> s = 6
  BY <1>2
<1>4. (\E n \in 4..10 : Waits(n)') => (\E n \in 4..10 : Waits(n)) \/ s \in {4, 6, 10}
  <2>1. ASSUME NEW n \in 4..10, Waits(n)' PROVE (\E j \in 4..10 : Waits(j)) \/ s \in {4, 6, 10}
    BY <1>2, <2>1
  <2> QED
    BY <2>1
<1>5. (\E n \in 6..10 : Waits(n)') => (\E n \in 6..10 : Waits(n)) \/ s \in {6, 10}
  <2>1. ASSUME NEW n \in 6..10, Waits(n)' PROVE (\E j \in 6..10 : Waits(j)) \/ s \in {6, 10}
    BY <1>2, <2>1
  <2> QED
    BY <2>1
<1>6. Progress'
  <2>1. (\/ hooks # {} \/ "Mods" \in opened \/ current_load_phase = "Mods"
         \/ \E n \in 4..10 : Waits(n))'
        => "EarlyMods" \in opened'
    BY <1>4 DEF Progress
  <2> QED
    BY <1>1, <1>3, <2>1 DEF Progress
<1>7. Deliveries'
  <2>1. (\/ "DestroyObject" \in hooks \/ "Mods" \in opened \/ current_load_phase = "Mods"
         \/ \E n \in 6..10 : Waits(n))'
        => Delivered("EarlyMods", "load")'
    BY <1>1, <1>5 DEF Deliveries
  <2> QED
    BY <1>1, <1>3, <2>1 DEF Deliveries
<1> QED
  BY <1>6, <1>7

(* The host's calls that begin something.                                  *)
LEMMA StartsKeep ==
  ASSUME IInv, IInv', InStages, Progress, Deliveries,
         \/ (modloader_load /\ ~failed) \/ (Il2cppInit /\ "il2cpp_init" \in hooks)
         \/ DestroyObject \/ OrigReturns \/ (modloader_unload /\ ~failed)
  PROVE  InStages' /\ Progress' /\ Deliveries'
<1>1. /\ UNCHANGED <<failed, current_load_phase, opened, skip_load, loaded, returned>>
      /\ hooks' \subseteq hooks
      /\ modloader_load => host = "preloaded" /\ host' = "loaded"
      /\ Il2cppInit => host' = "il2cpp"
      /\ stack = <<>> \/ (stack # <<>> /\ Top.at = "orig")
      /\ DestroyObject => "DestroyObject" \in hooks
      /\ OrigReturns => stack # <<>> /\ Top.at = "orig"
  BY DEF modloader_load, Il2cppInit, DestroyObject, OrigReturns, modloader_unload, TopIs, Idle,
         vars, hostVars, listVars, historyVars
<1>3. ~Waits(1) /\ ~Waits(2) /\ ~Waits(3) /\ ~Waits(4) /\ ~Waits(5) /\ ~Waits(6) /\ ~Waits(7) /\ ~Waits(8) /\ ~Waits(9)
  BY <1>1, NoneWaits
<1>4. OrigReturns => Waits(10)
  <2>1. OrigReturns => Stage(stack[1]) = 10 /\ 1 \in 1..Len(stack)
    BY <1>1, Facts, StackTop, StageOfPlain
  <2> QED
    BY <2>1 DEF Waits
<1>5. /\ Il2cppInit /\ "il2cpp_init" \in hooks => "EarlyMods" \in opened
      /\ DestroyObject \/ OrigReturns => "EarlyMods" \in opened
  <2>1. Waits(10) => "EarlyMods" \in opened
    <3>1. 10 \in 4..10
      OBVIOUS
    <3> QED
      BY <3>1 DEF Progress
  <2> QED
    BY <1>1, <1>4, <2>1 DEF Progress
<1>6. DestroyObject \/ OrigReturns => Delivered("EarlyMods", "load")
  <2>1. Waits(10) => Delivered("EarlyMods", "load")
    <3>1. 10 \in 6..10
      OBVIOUS
    <3> QED
      BY <3>1 DEF Deliveries
  <2> QED
    BY <1>1, <1>4, <2>1 DEF Deliveries
<1>7. modloader_load => "EarlyMods" \notin opened
  BY <1>1 DEF Progress
<1>8. CASE modloader_load /\ ~failed
  <2>1. InStages' /\ Starts(1, 3)
    BY <1>8, StartStages
  <2> QED
    BY <1>1, <1>3, <1>7, <1>8, <2>1, StartKeeps
<1>9. CASE Il2cppInit /\ "il2cpp_init" \in hooks
  <2>1. InStages' /\ Starts(4, 2)
    BY <1>9, StartStages
  <2> QED
    BY <1>1, <1>3, <1>5, <1>9, <2>1, StartKeeps
<1>10. CASE OrigReturns
  <2>1. InStages' /\ Starts(6, 4)
    BY <1>10, StartStages
  <2>2. UNCHANGED host
    BY <1>10 DEF OrigReturns
  <2> QED
    BY <1>1, <1>3, <1>5, <1>6, <1>10, <2>1, <2>2, StartKeeps
<1>11. CASE DestroyObject
  <2>1. InStages' /\ Starts(10, 1)
    BY <1>11, StartStages
  <2>2. UNCHANGED host
    BY <1>11 DEF DestroyObject, hostVars
  <2> QED
    BY <1>1, <1>3, <1>5, <1>6, <1>11, <2>1, <2>2, StartKeeps
<1>12. CASE modloader_unload /\ ~failed
  <2>1. InStages' /\ Starts(11, 4)
    BY <1>12, StartStages
  <2>2. UNCHANGED host
    BY <1>12 DEF modloader_unload, hostVars
  <2> QED
    BY <1>1, <1>3, <1>12, <2>1, <2>2, StartKeeps
<1> QED
  BY <1>8, <1>9, <1>10, <1>11, <1>12

-----------------------------------------------------------------------------
(* Whose turn it is.                                                       *)

(* Nothing is taken back, and the lists list the same objects.             *)
NothingLost ==
  /\ skip_load \subseteq skip_load'
  /\ opened' = opened
  /\ \A m \in Mod : returned[m] \subseteq returned'[m]
  /\ \A list \in OpenedPhases :
       /\ Len(loaded'[list]) = Len(loaded[list])
       /\ \A i \in 1..Len(loaded[list]) :
            loaded'[list][i].mod = loaded[list][i].mod /\ loaded'[list][i].ok = loaded[list][i].ok

(* And no callback is dropped.                                             *)
GoesOn ==
  /\ NothingLost
  /\ \A k \in 1..Len(stack) : Awaited(stack[k]) =>
       \/ \E i \in 1..Len(stack') : stack'[i] = stack[k]
       \/ stack[k].fn \in returned'[stack[k].mod]

(* A frame that is left alone stays in turn.                               *)
LEMMA TurnKept ==
  ASSUME IInv, GoesOn, NEW f \in FrameType, InTurn(f)
  PROVE  InTurn(f)'
<1>1. OpensInTurn(f)'
  BY DEF InTurn, OpensInTurn, GoesOn, NothingLost
<1>2. LoopsInTurn(f)'
  <2> SUFFICES ASSUME f.at = "for", f.fn \in Flags, f.pos > 0
               PROVE  /\ f.end = Len(loaded'[f.list])
                      /\ \A j \in 1..Len(loaded'[f.list]) :
                           j < f.pos /\ loaded'[f.list][j].ok /\ f.fn \in Exports[loaded'[f.list][j].mod] =>
                             \/ f.fn \in returned'[loaded'[f.list][j].mod]
                             \/ \E i \in 1..Len(stack') :
                                  /\ stack'[i].at = "call" /\ stack'[i].fn = f.fn
                                  /\ stack'[i].mod = loaded'[f.list][j].mod
    BY DEF LoopsInTurn, InProgress
  <2>1. f.list \in OpenedPhases
    BY FrameKinds, ForFrames
  <2>2. LoopsInTurn(f)
    BY DEF InTurn
  <2>3. f.end = Len(loaded'[f.list])
    BY <2>1, <2>2 DEF LoopsInTurn, GoesOn, NothingLost
  <2>4. ASSUME NEW j \in 1..Len(loaded[f.list]), j < f.pos, loaded[f.list][j].ok,
               f.fn \in Exports[loaded[f.list][j].mod], f.fn \notin returned'[loaded[f.list][j].mod]
        PROVE  \E i \in 1..Len(stack') :
                 /\ stack'[i].at = "call" /\ stack'[i].fn = f.fn
                 /\ stack'[i].mod = loaded'[f.list][j].mod
    <3>1. loaded[f.list][j] \in LoadResult /\ loaded[f.list][j].mod \in Mod
      <4>1. loaded[f.list][j] \in LoadResult
        BY <2>1, <2>4, Facts
      <4> QED
        BY <4>1 DEF LoadResult
    <3>2. InProgress(f.fn, loaded[f.list][j].mod)
      BY <2>2, <2>4, <3>1 DEF LoopsInTurn, GoesOn, NothingLost
    <3>3. PICK k \in 1..Len(stack) :
            stack[k].at = "call" /\ stack[k].fn = f.fn /\ stack[k].mod = loaded[f.list][j].mod
      BY <3>2 DEF InProgress
    <3>4. PICK i \in 1..Len(stack') : stack'[i] = stack[k]
      BY <2>4, <3>3 DEF GoesOn, Awaited
    <3>5. loaded'[f.list][j].mod = loaded[f.list][j].mod
      BY <2>1 DEF GoesOn, NothingLost
    <3> QED
      BY <3>3, <3>4, <3>5
  <2>5. /\ Len(loaded'[f.list]) = Len(loaded[f.list])
        /\ \A j \in 1..Len(loaded[f.list]) :
             loaded'[f.list][j].mod = loaded[f.list][j].mod /\ loaded'[f.list][j].ok = loaded[f.list][j].ok
    BY <2>1 DEF GoesOn, NothingLost
  <2> QED
    BY <2>3, <2>4, <2>5
<1>3. RequiresInTurn(f)'
  BY DEF InTurn, RequiresInTurn
<1> QED
  BY <1>1, <1>2, <1>3 DEF InTurn

(* A frame that has not begun waits for its turn, whatever has happened.    *)
LEMMA FreshTurn ==
  ASSUME IInv, skip_load \subseteq skip_load', NEW f \in FrameType, Fresh(f), ResultsNew(f), InTurn(f)
  PROVE  InTurn(f)'
<1>1. OpensInTurn(f)'
  <2>1. f.at = "open" => f.results = <<>> /\ ~f.loading
    BY DEF Fresh, ResultsNew
  <2> QED
    BY <2>1 DEF InTurn, OpensInTurn
<1>2. LoopsInTurn(f)'
  BY DEF Fresh, LoopsInTurn
<1>3. RequiresInTurn(f)'
  BY DEF InTurn, RequiresInTurn
<1> QED
  BY <1>1, <1>2, <1>3 DEF InTurn

(* Only three kinds of frames have turns.                                  *)
LEMMA PlainTurn ==
  ASSUME NEW f, f.at \notin {"open", "for", "require"}
  PROVE  InTurn(f)'
BY DEF InTurn, OpensInTurn, LoopsInTurn, RequiresInTurn

(* Every frame was there before, or is in turn.                            *)
LEMMA TurnsKept ==
  ASSUME IInv, GoesOn, TakeTurns,
         \A i \in 1..Len(stack') :
           (\E k \in 1..Len(stack) : stack'[i] = stack[k]) \/ InTurn(stack[i])'
  PROVE  TakeTurns'
<1> SUFFICES ASSUME NEW i \in 1..Len(stack'), NEW k \in 1..Len(stack), stack'[i] = stack[k]
             PROVE  InTurn(stack[i])'
  BY DEF TakeTurns
<1>1. PICK f : f = stack[k]
  OBVIOUS
<1>2. f \in FrameType /\ InTurn(f)
  BY <1>1, Facts DEF TakeTurns
<1>3. InTurn(f)'
  BY <1>2, TurnKept
<1>4. stack'[i] = f
  BY <1>1
<1> QED
  BY <1>3, <1>4

(* What a step of the topmost frame leaves on the stack.                   *)
LEMMA Neighbours ==
  ASSUME stack \in Seq(FrameType), stack # <<>>, NEW f \in FrameType, NEW g \in FrameType,
         \/ stack' = Tail(stack)
         \/ stack' = <<f>> \o Tail(stack)
         \/ stack' = <<g, f>> \o Tail(stack)
  PROVE  /\ \A i \in 1..Len(stack') :
              stack'[i] = f \/ stack'[i] = g \/ \E k \in 1..Len(stack) : stack'[i] = stack[k]
         /\ \A k \in 2..Len(stack) : \E i \in 1..Len(stack') : stack'[i] = stack[k]
<1>1. Len(stack) \in Nat
  OBVIOUS
<1>2. CASE stack' = Tail(stack)
  <2>1. /\ Len(stack') = Len(stack) - 1
        /\ \A i \in 1..(Len(stack) - 1) : stack'[i] = stack[i + 1]
    BY <1>2, Popped
  <2>2. \A i \in 1..(Len(stack) - 1) : i + 1 \in 1..Len(stack)
    BY <1>1
  <2>3. \A k \in 2..Len(stack) : k - 1 \in 1..(Len(stack) - 1) /\ (k - 1) + 1 = k
    BY <1>1
  <2>4. \A k \in 2..Len(stack) : stack'[k - 1] = stack[k]
    BY <2>1, <2>3
  <2> QED
    BY <2>1, <2>2, <2>3, <2>4
<1>3. CASE stack' = <<f>> \o Tail(stack)
  <2>1. /\ Len(stack') = Len(stack) /\ stack'[1] = f
        /\ \A i \in 2..Len(stack) : stack'[i] = stack[i]
    BY <1>3, Replaced
  <2>2. \A i \in 1..Len(stack) : i = 1 \/ i \in 2..Len(stack)
    BY <1>1
  <2>3. \A i \in 2..Len(stack) : i \in 1..Len(stack)
    BY <1>1
  <2> QED
    BY <2>1, <2>2, <2>3
<1>4. CASE stack' = <<g, f>> \o Tail(stack)
  <2>1. /\ Len(stack') = Len(stack) + 1 /\ stack'[1] = g /\ stack'[2] = f
        /\ \A i \in 3..(Len(stack) + 1) : stack'[i] = stack[i - 1]
    BY <1>4, CalledFrom
  <2>2. \A i \in 1..(Len(stack) + 1) :
          i = 1 \/ i = 2 \/ (i \in 3..(Len(stack) + 1) /\ i - 1 \in 1..Len(stack))
    BY <1>1
  <2>3. \A k \in 2..Len(stack) :
          k + 1 \in 3..(Len(stack) + 1) /\ k + 1 \in 1..(Len(stack) + 1) /\ (k + 1) - 1 = k
    BY <1>1
  <2>4. \A k \in 2..Len(stack) : stack'[k + 1] = stack[k]
    BY <2>1, <2>3
  <2> QED
    BY <2>1, <2>2, <2>3, <2>4
<1> QED
  BY <1>2, <1>3, <1>4

(* The frame on top goes away, goes on, or goes on and calls g.            *)
LEMMA TurnsPass ==
  ASSUME IInv, NothingLost, TakeTurns, stack # <<>>, Awaited(Top) => Top.fn \in returned'[Top.mod],
         NEW f \in FrameType, NEW g \in FrameType, InTurn(f)', InTurn(g)',
         \/ stack' = Tail(stack)
         \/ stack' = <<f>> \o Tail(stack)
         \/ stack' = <<g, f>> \o Tail(stack)
  PROVE  TakeTurns'
<1>1. /\ \A i \in 1..Len(stack') :
           stack'[i] = f \/ stack'[i] = g \/ \E k \in 1..Len(stack) : stack'[i] = stack[k]
      /\ \A k \in 2..Len(stack) : \E i \in 1..Len(stack') : stack'[i] = stack[k]
  BY Facts, Neighbours
<1>2. Top = stack[1] /\ \A k \in 1..Len(stack) : k = 1 \/ k \in 2..Len(stack)
  BY Facts, StackTop
<1>3. GoesOn
  BY <1>1, <1>2 DEF GoesOn
<1>4. ASSUME NEW i \in 1..Len(stack')
      PROVE  (\E k \in 1..Len(stack) : stack'[i] = stack[k]) \/ InTurn(stack[i])'
  <2>1. CASE stack'[i] = f
    BY <2>1
  <2>2. CASE stack'[i] = g
    BY <2>2
  <2> QED
    BY <1>1, <2>1, <2>2
<1> QED
  BY <1>3, <1>4, TurnsKept

-----------------------------------------------------------------------------
(* The frames that go on.                                                  *)

(* The candidates are those that are left and the one that loadMods is at. *)
LEMMA ModsLeft ==
  ASSUME NEW s \in Seq(Mod), s # <<>>
  PROVE  Range(s) = {Head(s)} \union Range(Tail(s))
<1>1. /\ Len(s) \in Nat /\ Len(s) >= 1 /\ Head(s) = s[1] /\ Len(Tail(s)) = Len(s) - 1
      /\ \A i \in 1..(Len(s) - 1) : Tail(s)[i] = s[i + 1]
      /\ DOMAIN s = 1..Len(s) /\ DOMAIN Tail(s) = 1..(Len(s) - 1)
  OBVIOUS
<1>2. \A i \in 1..Len(s) : i = 1 \/ (i - 1 \in 1..(Len(s) - 1) /\ (i - 1) + 1 = i)
  BY <1>1
<1>3. \A i \in 1..(Len(s) - 1) : i + 1 \in 1..Len(s)
  BY <1>1
<1>4. 1 \in 1..Len(s)
  BY <1>1
<1>5. ASSUME NEW x \in Range(s) PROVE x \in {Head(s)} \union Range(Tail(s))
  <2>1. PICK i \in 1..Len(s) : x = s[i]
    BY <1>1, <1>5 DEF Range
  <2>2. CASE i = 1
    BY <1>1, <2>1, <2>2
  <2>3. CASE i - 1 \in 1..(Len(s) - 1) /\ (i - 1) + 1 = i
    <3>1. Tail(s)[i - 1] = x
      BY <1>1, <2>1, <2>3
    <3> QED
      BY <1>1, <2>3, <3>1 DEF Range
  <2> QED
    BY <1>2, <2>2, <2>3
<1>6. ASSUME NEW x \in Range(Tail(s)) PROVE x \in Range(s)
  <2>1. PICK i \in 1..(Len(s) - 1) : x = Tail(s)[i]
    BY <1>1, <1>6 DEF Range
  <2> QED
    BY <1>1, <1>3, <2>1 DEF Range
<1>7. Head(s) \in Range(s)
  BY <1>1, <1>4 DEF Range
<1> QED
  BY <1>5, <1>6, <1>7

(* loadMods goes on with the same candidate, or leaves one that is in       *)
(* skip_load.  Once the mods are opened all of them are there.             *)
LEMMA OpensOn ==
  ASSUME Progress, NEW f \in OpenFrameType, f.mods # <<>>, OpensInTurn(f), NEW g,
         g.at = "open", g.list = f.list, skip_load \subseteq skip_load', opened' = opened,
         \/ g.mods = f.mods
         \/ g.mods = Tail(f.mods) /\ Head(f.mods) \in skip_load',
         \/ g.results = f.results /\ (f.loading \/ ~g.loading)
         \/ f.loading
         \/ Head(f.mods) \notin skip_load
  PROVE  InTurn(g)'
<1>1. f.at = "open" /\ f.mods \in Seq(Mod)
  BY OpenFrames DEF OpenFrameType
<1>2. Range(f.mods) = {Head(f.mods)} \union Range(Tail(f.mods))
  BY <1>1, ModsLeft
<1>3. /\ Range(g.mods) \subseteq Range(Candidates[g.list])
      /\ Range(Candidates[g.list]) \subseteq skip_load' \union Range(g.mods)
      /\ Head(f.mods) \in Range(Candidates[f.list])
  BY <1>1, <1>2 DEF OpensInTurn
<1>4. g.list = "Mods" /\ "Mods" \in opened => g.results = <<>> /\ ~g.loading
  <2> SUFFICES ASSUME g.list = "Mods", "Mods" \in opened PROVE g.results = <<>> /\ ~g.loading
    OBVIOUS
  <2>1. f.results = <<>> /\ ~f.loading
    BY <1>1 DEF OpensInTurn
  <2>2. Head(f.mods) \in skip_load
    BY <1>3 DEF Progress, Skipped, ModLists
  <2> QED
    BY <2>1, <2>2
<1>5. OpensInTurn(g)'
  BY <1>3, <1>4 DEF OpensInTurn
<1> QED
  BY <1>5 DEF InTurn, LoopsInTurn, RequiresInTurn

(* LoopsInTurn of the next state, spelled out.                             *)
LEMMA LoopsInTurnNext ==
  ASSUME NEW g,
         g.at = "for" /\ g.fn \in Flags /\ g.pos > 0 =>
           /\ g.end = Len(loaded'[g.list])
           /\ \A j \in 1..Len(loaded'[g.list]) :
                j < g.pos /\ loaded'[g.list][j].ok /\ g.fn \in Exports[loaded'[g.list][j].mod] =>
                  \/ g.fn \in returned'[loaded'[g.list][j].mod]
                  \/ \E i \in 1..Len(stack') :
                       /\ stack'[i].at = "call" /\ stack'[i].fn = g.fn
                       /\ stack'[i].mod = loaded'[g.list][j].mod
  PROVE  LoopsInTurn(g)'
BY DEF LoopsInTurn, InProgress

(* A loop begins, or goes on to its next element: what it leaves behind has *)
(* returned, or is what it calls.                                          *)
LEMMA LoopsOn ==
  ASSUME IInv, NEW f \in ForFrameType, NEW g \in ForFrameType, g.list = f.list, g.fn = f.fn,
         UNCHANGED <<loaded, returned>>,
         \A m \in Mod : InProgress(f.fn, m) => InProgress(f.fn, m)',
         \/ g.pos = 1 /\ g.end = Len(loaded[f.list])
         \/ /\ LoopsInTurn(f)
            /\ f.pos \in 1..f.end /\ g.pos = f.pos + 1 /\ g.end = f.end
            /\ LET result == loaded[f.list][f.pos] IN
                 result.ok /\ f.fn \in Flags /\ Due(result, f.fn) => InProgress(f.fn, result.mod)'
  PROVE  InTurn(g)'
<1>1. /\ g.at = "for" /\ f.at = "for" /\ f.list \in OpenedPhases /\ f.pos \in Nat /\ f.end \in Nat
      /\ loaded[f.list] \in Seq(LoadResult)
  BY Facts, ForFrames DEF ForFrameType
<1>2. LoopsInTurn(g)'
  <2>1. CASE g.pos = 1 /\ g.end = Len(loaded[f.list])
    <3>1. \A j \in 1..Len(loaded[f.list]) : ~(j < 1)
      BY <1>1
    <3> QED
      BY <2>1, <3>1 DEF LoopsInTurn
  <2>2. CASE ~(g.pos = 1 /\ g.end = Len(loaded[f.list]))
    <3> SUFFICES ASSUME f.fn \in Flags, f.pos > 0
                 PROVE  /\ f.end = Len(loaded[f.list])
                        /\ \A j \in 1..Len(loaded[f.list]) :
                             LET result == loaded[f.list][j] IN
                             j < f.pos + 1 /\ result.ok /\ f.fn \in Exports[result.mod] =>
                               \/ f.fn \in returned[result.mod]
                               \/ \E i \in 1..Len(stack') :
                                    /\ stack'[i].at = "call" /\ stack'[i].fn = f.fn
                                    /\ stack'[i].mod = result.mod
      <4>1. g.pos = f.pos + 1 /\ g.end = f.end /\ f.pos > 0
        BY <1>1, <2>2
      <4>2. loaded' = loaded /\ returned' = returned
        OBVIOUS
      <4> HIDE DEF Flags
      <4> QED
        BY <4>1, <4>2, LoopsInTurnNext
    <3>1. LoopsInTurn(f) /\ f.pos \in 1..f.end
      BY <2>2
    <3>2. f.end = Len(loaded[f.list])
      BY <1>1, <3>1 DEF LoopsInTurn
    <3>3. ASSUME NEW j \in 1..Len(loaded[f.list]), j < f.pos + 1, loaded[f.list][j].ok,
                 f.fn \in Exports[loaded[f.list][j].mod]
          PROVE  \/ f.fn \in returned[loaded[f.list][j].mod]
                 \/ \E i \in 1..Len(stack') :
                      /\ stack'[i].at = "call" /\ stack'[i].fn = f.fn
                      /\ stack'[i].mod = loaded[f.list][j].mod
      <4>1. PICK m \in Mod : m = loaded[f.list][j].mod
        <5>1. loaded[f.list][j] \in LoadResult
          BY <1>1
        <5> QED
          BY <5>1 DEF LoadResult
      <4>2. CASE j < f.pos
        <5>1. f.fn \in returned[m] \/ InProgress(f.fn, m)
          BY <1>1, <3>1, <3>3, <4>1, <4>2 DEF LoopsInTurn
        <5>2. f.fn \in returned[m] \/ InProgress(f.fn, m)'
          BY <5>1
        <5> QED
          BY <4>1, <5>2 DEF InProgress
      <4>3. CASE j = f.pos
        <5>1. CASE Due(loaded[f.list][j], f.fn)
          BY <2>2, <3>3, <4>3, <5>1 DEF InProgress
        <5>2. CASE ~Due(loaded[f.list][j], f.fn)
          <6>1. f.fn \in loaded[f.list][j].called
            BY <3>3, <5>2 DEF Due
          <6>2. j \in DOMAIN loaded[f.list]
            BY <1>1
          <6> QED
            BY <1>1, <3>3, <6>1, <6>2, Facts DEF Lists, FlagsTruthful
        <5> QED
          BY <5>1, <5>2
      <4> QED
        BY <1>1, <3>3, <4>2, <4>3
    <3> QED
      BY <3>2, <3>3
  <2> QED
    BY <2>1, <2>2
<1> QED
  BY <1>1, <1>2 DEF InTurn, OpensInTurn, RequiresInTurn

-----------------------------------------------------------------------------
(* The steps of what is in progress.                                       *)

(* Nothing is lost where the lists are left alone.                         *)
LEMMA SameNothingLost ==
  ASSUME skip_load \subseteq skip_load', UNCHANGED <<opened, returned, loaded>>
  PROVE  NothingLost
BY DEF NothingLost

(* A call of the original is in turn.                                      *)
LEMMA PlainFrameTurn == OrigFrame \in FrameType /\ \A f : f = OrigFrame => InTurn(f)'
<1>1. \A f : f = OrigFrame => f.at \notin {"open", "for", "require"}
  BY DEF OrigFrame
<1> QED
  BY <1>1, PlainFramesMade, PlainTurn

(* The steps of loadMods.                                                  *)
LEMMA OpensTurn ==
  ASSUME IInv, IInv', Progress, TakeTurns, OpenBegin \/ OpenNext
  PROVE  TakeTurns'
<1>1. /\ stack # <<>> /\ Top.at = "open"
      /\ skip_load \subseteq skip_load' /\ UNCHANGED <<opened, loaded, returned>>
  <2>1. CASE OpenNext
    BY <2>1, OpenSteps DEF historyVars
  <2>2. CASE OpenBegin
    BY <2>2 DEF OpenBegin, TopIs, historyVars
  <2> QED
    BY <2>1, <2>2
<1>2. /\ stack \in Seq(FrameType) /\ stack' \in Seq(FrameType) /\ Tail(stack) \in Seq(FrameType)
      /\ Top \in FrameType /\ Top = stack[1] /\ 1 \in 1..Len(stack)
  BY <1>1, Facts, StackTop DEF IInv, TypeOK
<1>3. PICK top \in OpenFrameType : top = Top
  BY <1>1, <1>2, FrameKinds
<1>4. OpensInTurn(top) /\ InTurn(top) /\ top \in FrameType /\ ~Awaited(Top)
  BY <1>1, <1>2, <1>3 DEF TakeTurns, InTurn, Awaited
<1>5. NothingLost
  BY <1>1, SameNothingLost
<1>6. PICK o : o = OrigFrame
  OBVIOUS
<1>7. o \in FrameType /\ InTurn(o)'
  BY <1>6, PlainFrameTurn
<1>8. ASSUME NEW f, InTurn(f)', stack' = <<f>> \o Tail(stack)
      PROVE  TakeTurns'
  <2>1. f \in FrameType
    BY <1>2, <1>8, FirstTyped
  <2> QED
    BY <1>1, <1>4, <1>5, <1>7, <1>8, <2>1, TurnsPass
<1>9. CASE OpenBegin
  <2>1. PICK f : f = [top EXCEPT !.begun = TRUE]
    OBVIOUS
  <2>2. stack' = <<f>> \o Tail(stack)
    BY <1>3, <1>9, <2>1 DEF OpenBegin, Advance
  <2>3. /\ f.at = "open" /\ f.list = top.list /\ f.mods = top.mods /\ f.results = top.results
        /\ f.loading = top.loading
    BY <2>1 DEF OpenFrameType
  <2>4. InTurn(f)'
    <3>1. top.at = "open"
      BY <1>1, <1>3
    <3>2. OpensInTurn(f)'
      BY <1>1, <1>4, <2>3, <3>1 DEF OpensInTurn
    <3> QED
      BY <2>3, <3>2 DEF InTurn, LoopsInTurn, RequiresInTurn
  <2> QED
    BY <1>8, <2>2, <2>4
<1>10. CASE OpenNext
  <2>1. /\ top.mods # <<>> /\ top.mods \in Seq(Mod) /\ top.deps \in Seq(Mod)
        /\ top.results \in Seq(LoadResult)
    BY <1>3, <1>10, OpenSteps, OpenFrames
  <2>2. ASSUME NEW g, g.at = "open", g.list = top.list,
               \/ g.mods = top.mods
               \/ g.mods = Tail(top.mods) /\ Head(top.mods) \in skip_load',
               \/ g.results = top.results /\ (top.loading \/ ~g.loading)
               \/ top.loading
               \/ Head(top.mods) \notin skip_load
        PROVE  InTurn(g)'
    BY <1>1, <1>4, <2>1, <2>2, OpensOn
  <2>3. CASE NextMod
    <3>1. PICK g : \/ /\ Head(top.mods) \in skip_load /\ ~top.loading
                      /\ g = [top EXCEPT !.mods = Tail(@)]
                      /\ stack' = <<g>> \o Tail(stack)
                   \/ /\ Head(top.mods) \notin skip_load
                      /\ g = [top EXCEPT !.loading = TRUE, !.deps = Sorted[Head(top.mods)]]
                      /\ stack' = <<g>> \o Tail(stack)
      BY <1>3, <2>3 DEF NextMod, Advance
    <3>2. CASE Head(top.mods) \in skip_load /\ ~top.loading /\ g = [top EXCEPT !.mods = Tail(@)]
      <4>1. /\ g.at = "open" /\ g.list = top.list /\ g.mods = Tail(top.mods)
            /\ g.results = top.results /\ ~g.loading
        BY <3>2 DEF OpenFrameType
      <4> QED
        BY <1>1, <1>8, <2>2, <3>1, <3>2, <4>1
    <3>3. CASE /\ Head(top.mods) \notin skip_load
               /\ g = [top EXCEPT !.loading = TRUE, !.deps = Sorted[Head(top.mods)]]
      <4>1. g.at = "open" /\ g.list = top.list /\ g.mods = top.mods
        BY <3>3 DEF OpenFrameType
      <4> QED
        BY <1>8, <2>2, <3>1, <3>3, <4>1
    <3> QED
      BY <3>1, <3>2, <3>3
  <2>4. CASE SkipDependency
    <3>1. PICK g : g = [top EXCEPT !.deps = Tail(@)]
      OBVIOUS
    <3>2. top.loading /\ stack' = <<g>> \o Tail(stack)
      BY <1>3, <2>4, <3>1 DEF SkipDependency, Advance
    <3>3. g.at = "open" /\ g.list = top.list /\ g.mods = top.mods
      BY <3>1 DEF OpenFrameType
    <3> QED
      BY <1>8, <2>2, <3>2, <3>3
  <2>5. CASE OpenLibrary /\ stack' # <<CallFrame("ctor", Opening(Top), Top.list, 0), Top>> \o Tail(stack)
    <3>1. PICK g : g = Recorded(top, FailedMod(Opening(top), RoleOf(top)))
      OBVIOUS
    <3>2. /\ top.loading /\ stack' = <<g>> \o Tail(stack)
          /\ skip_load' = skip_load \union {Opening(top)}
      BY <1>3, <2>5, <3>1 DEF OpenLibrary, Advance, CallFrom
    <3>3. /\ g.at = "open" /\ g.list = top.list
          /\ g.mods = top.mods \/ (g.mods = Tail(top.mods) /\ Head(top.mods) = Opening(top))
      BY <3>1 DEF OpenFrameType, Recorded, Opening
    <3>4. InTurn(g)'
      BY <2>2, <3>2, <3>3
    <3> QED
      BY <1>8, <3>2, <3>4
  <2>6. CASE \E g : g.at = "call" /\ stack' = <<g, top>> \o Tail(stack)
    <3>1. PICK g : g.at = "call" /\ stack' = <<g, top>> \o Tail(stack)
      BY <2>6
    <3>2. g \in FrameType
      BY <1>2, <3>1, FirstTyped
    <3>3. InTurn(g)' /\ InTurn(top)'
      <4>1. InTurn(g)'
        BY <3>1, PlainTurn
      <4>2. GoesOn
        <5>1. \A k \in 2..Len(stack) : \E i \in 1..Len(stack') : stack'[i] = stack[k]
          BY <1>1, <1>2, <1>4, <3>1, <3>2, Neighbours
        <5>2. \A k \in 1..Len(stack) : k = 1 \/ k \in 2..Len(stack)
          BY <1>2
        <5> QED
          BY <1>2, <1>4, <1>5, <5>1, <5>2 DEF GoesOn
      <4> QED
        BY <1>4, <4>1, <4>2, TurnKept
    <3> QED
      BY <1>1, <1>4, <1>5, <3>1, <3>2, <3>3, TurnsPass
  <2>7. \A m, list : CallFrame("ctor", m, list, 0).at = "call"
    BY DEF CallFrame
  <2> QED
    BY <1>3, <1>10, <2>3, <2>4, <2>5, <2>6, <2>7 DEF OpenNext
<1> QED
  BY <1>9, <1>10

(* The steps of the loops over the lists.                                  *)
LEMMA LoopsTurn ==
  ASSUME IInv, IInv', TakeTurns, ForBegin \/ ForNext
  PROVE  TakeTurns'
<1>1. /\ stack # <<>> /\ Top.at = "for" /\ ~undefined'
      /\ UNCHANGED <<opened, skip_load, loaded, returned>>
  BY DEF ForBegin, ForNext, TopIs, UseStale, IInv, listVars, historyVars
<1>2. /\ stack \in Seq(FrameType) /\ stack' \in Seq(FrameType) /\ Tail(stack) \in Seq(FrameType)
      /\ Top \in FrameType /\ Top = stack[1] /\ 1 \in 1..Len(stack) /\ Len(stack) \in Nat
  BY <1>1, Facts, StackTop DEF IInv, TypeOK
<1>3. PICK top \in ForFrameType : top = Top
  BY <1>1, <1>2, FrameKinds
<1>4. LoopsInTurn(top) /\ ~Awaited(Top) /\ stack[1].at # "call"
  BY <1>1, <1>2, <1>3 DEF TakeTurns, InTurn, Awaited
<1>5. NothingLost
  BY <1>1, SameNothingLost
<1>6. ASSUME NEW f \in FrameType, NEW g \in FrameType,
             stack' = <<f>> \o Tail(stack) \/ stack' = <<g, f>> \o Tail(stack)
      PROVE  \A fn, m : InProgress(fn, m) => InProgress(fn, m)'
  <2>1. \A k \in 2..Len(stack) : \E i \in 1..Len(stack') : stack'[i] = stack[k]
    BY <1>1, <1>2, <1>6, Neighbours
  <2>2. \A k \in 1..Len(stack) : k = 1 \/ k \in 2..Len(stack)
    BY <1>2
  <2> SUFFICES ASSUME NEW fn, NEW m, NEW k \in 1..Len(stack), stack[k].at = "call",
                      stack[k].fn = fn, stack[k].mod = m
               PROVE  \E i \in 1..Len(stack') : stack'[i].at = "call" /\ stack'[i].fn = fn /\ stack'[i].mod = m
    BY DEF InProgress
  <2>3. PICK i \in 1..Len(stack') : stack'[i] = stack[k]
    BY <1>4, <2>1, <2>2
  <2> QED
    BY <2>3
<1>7. ForFrameType \subseteq FrameType
  BY DEF FrameType
<1>8. CASE ForBegin
  <2>1. PICK f : f = [top EXCEPT !.pos = 1, !.end = Len(loaded[top.list])]
    OBVIOUS
  <2>2. stack' = <<f>> \o Tail(stack)
    BY <1>3, <1>8, <2>1 DEF ForBegin, Advance
  <2>3. top.list \in OpenedPhases /\ Len(loaded[top.list]) \in Nat
    BY Facts, ForFrames
  <2>4. f \in ForFrameType /\ f.list = top.list /\ f.fn = top.fn /\ f.pos = 1 /\ f.end = Len(loaded[top.list])
    <3>1. PICK n \in Nat : n = Len(loaded[top.list])
      BY <2>3
    <3>2. f = [top EXCEPT !.pos = 1, !.end = n]
      BY <2>1, <3>1
    <3>3. f \in ForFrameType /\ f.list = top.list /\ f.fn = top.fn /\ f.pos = 1 /\ f.end = n
      BY <3>2 DEF ForFrameType
    <3> QED
      BY <3>1, <3>3
  <2>5. \A m \in Mod : InProgress(top.fn, m) => InProgress(top.fn, m)'
    BY <1>6, <1>7, <2>2, <2>4
  <2>6. InTurn(f)'
    BY <1>1, <2>4, <2>5, LoopsOn
  <2> QED
    BY <1>1, <1>4, <1>5, <1>7, <2>2, <2>4, <2>6, TurnsPass
<1>9. CASE ForNext
  <2>1. PICK f : f = [top EXCEPT !.pos = @ + 1]
    OBVIOUS
  <2>2. /\ f \in ForFrameType /\ f.at = "for" /\ f.list = top.list /\ f.fn = top.fn
        /\ f.pos = top.pos + 1 /\ f.end = top.end
    BY <2>1, ForFramesNext
  <2>3. top.pos \in 1..top.end /\ ~Stale(top.list, top.pos)
    BY <1>1, <1>3, <1>9 DEF ForNext, UseStale
  <2>4. PICK result : result = loaded[top.list][top.pos]
    OBVIOUS
  <2>5. \/ /\ result.ok /\ top.fn = "close"
           /\ stack' = <<CloseFrame(top.list, top.pos, "close_all"), f>> \o Tail(stack)
        \/ /\ result.ok /\ top.fn # "close" /\ Due(result, top.fn)
           /\ stack' = <<CallFrame(top.fn, result.mod, top.list, top.pos), f>> \o Tail(stack)
        \/ /\ ~(result.ok /\ top.fn = "close") /\ ~(result.ok /\ top.fn # "close" /\ Due(result, top.fn))
           /\ stack' = <<f>> \o Tail(stack)
    BY <1>3, <1>9, <2>1, <2>3, <2>4 DEF ForNext, CallFrom, Advance
  <2>6. /\ CloseFrame(top.list, top.pos, "close_all").at = "close"
        /\ CallFrame(top.fn, result.mod, top.list, top.pos).at = "call"
        /\ CallFrame(top.fn, result.mod, top.list, top.pos).fn = top.fn
        /\ CallFrame(top.fn, result.mod, top.list, top.pos).mod = result.mod
    BY DEF CloseFrame, CallFrame
  <2>7. CASE /\ stack' = <<f>> \o Tail(stack)
             /\ ~(result.ok /\ top.fn # "close" /\ Due(result, top.fn))
    <3>1. \A m \in Mod : InProgress(top.fn, m) => InProgress(top.fn, m)'
      BY <1>6, <1>7, <2>2, <2>7
    <3>2. "close" \notin Flags
      BY DEF Flags
    <3>3. InTurn(f)'
      BY <1>1, <1>4, <2>2, <2>3, <2>4, <2>7, <3>1, <3>2, LoopsOn
    <3> QED
      BY <1>1, <1>4, <1>5, <1>7, <2>2, <2>7, <3>3, TurnsPass
  <2>8. ASSUME NEW g, g.at \in {"call", "close"}, stack' = <<g, f>> \o Tail(stack),
               top.fn # "close" => g.at = "call" /\ g.fn = top.fn /\ g.mod = result.mod
        PROVE  TakeTurns'
    <3>1. g \in FrameType /\ f \in FrameType
      BY <1>2, <2>8, FirstTyped
    <3>2. \A m \in Mod : InProgress(top.fn, m) => InProgress(top.fn, m)'
      BY <1>6, <2>8, <3>1
    <3>3. top.fn \in Flags => InProgress(top.fn, loaded[top.list][top.pos].mod)'
      <4>1. Len(stack') = Len(stack) + 1 /\ stack'[1] = g
        BY <1>1, <1>2, <2>8, <3>1, CalledFrom
      <4>2. 1 \in 1..Len(stack')
        BY <1>2, <4>1
      <4>3. "close" \notin Flags
        BY DEF Flags
      <4> QED
        BY <1>1, <2>4, <2>8, <4>1, <4>2, <4>3 DEF InProgress
    <3>4. InTurn(f)'
      BY <1>1, <1>4, <2>2, <2>3, <3>2, <3>3, LoopsOn
    <3>5. InTurn(g)'
      BY <2>8, PlainTurn
    <3> QED
      BY <1>1, <1>4, <1>5, <2>8, <3>1, <3>4, <3>5, TurnsPass
  <2> QED
    BY <2>5, <2>6, <2>7, <2>8
<1> QED
  BY <1>8, <1>9

(* The steps of a require, the calls of the API and a close.               *)
LEMMA RequiresTurn ==
  ASSUME IInv, IInv', TakeTurns,
         \/ RequireNext \/ RequireEnd \/ CloseCall
         \/ \E request \in Requests : modloader_require_mod(request) \/ modloader_force_unload(request)
  PROVE  TakeTurns'
<1>1. /\ ~undefined' /\ UNCHANGED <<opened, skip_load, loaded, returned>>
      /\ stack \in Seq(FrameType) /\ stack' \in Seq(FrameType)
  <2>1. ~undefined' /\ stack \in Seq(FrameType) /\ stack' \in Seq(FrameType)
    BY DEF IInv, TypeOK
  <2> QED
    BY <2>1 DEF RequireNext, RequireEnd, CloseCall, modloader_require_mod, modloader_force_unload,
                UseStale, listVars, historyVars
<1>2. NothingLost
  BY <1>1, SameNothingLost
<1>3. PICK o : o = OrigFrame
  OBVIOUS
<1>4. o \in FrameType /\ InTurn(o)'
  BY <1>3, PlainFrameTurn
<1>5. CASE RequireNext \/ RequireEnd \/ CloseCall
  <2>1. stack # <<>> /\ Top.at \in {"require", "close"} /\ ~Awaited(Top)
    BY <1>5 DEF RequireNext, RequireEnd, CloseCall, TopIs, Awaited
  <2>2. /\ Top \in FrameType /\ Top = stack[1] /\ Tail(stack) \in Seq(FrameType)
        /\ 1 \in 1..Len(stack)
    BY <1>1, <2>1, Facts, StackTop
  <2>3. ASSUME NEW f, NEW g, InTurn(f)', g.at = "call",
               stack' = <<f>> \o Tail(stack) \/ stack' = <<g, f>> \o Tail(stack)
        PROVE  TakeTurns'
    <3>1. CASE stack' = <<f>> \o Tail(stack)
      <4>1. f \in FrameType
        BY <1>1, <2>2, <3>1, FirstTyped
      <4> QED
        BY <1>2, <1>4, <2>1, <2>3, <3>1, <4>1, TurnsPass
    <3>2. CASE stack' = <<g, f>> \o Tail(stack)
      <4>1. f \in FrameType /\ g \in FrameType
        BY <1>1, <2>2, <3>2, FirstTyped
      <4>2. InTurn(g)'
        BY <2>3, PlainTurn
      <4> QED
        BY <1>2, <2>1, <2>3, <3>2, <4>1, <4>2, TurnsPass
    <3> QED
      BY <2>3, <3>1, <3>2
  <2>4. CASE stack' = Tail(stack)
    BY <1>2, <1>4, <2>1, <2>4, TurnsPass
  <2>5. \A fn, m, list, pos : CallFrame(fn, m, list, pos).at = "call"
    BY DEF CallFrame
  <2>6. CASE RequireNext /\ stack' # Tail(stack)
    <3>1. Top.at = "require" /\ Top.todo # <<>>
      BY <2>6 DEF RequireNext, TopIs
    <3>2. PICK top \in RequireFrameType : top = Top
      BY <2>2, <3>1, FrameKinds
    <3>3. PICK f : f = [top EXCEPT !.todo = Tail(@)]
      OBVIOUS
    <3>4. f.at = "require" /\ f.todo = Tail(top.todo) /\ f.list = top.list
      BY <3>3 DEF RequireFrameType
    <3>5. RequiresInTurn(top)
      BY <2>2, <3>2 DEF TakeTurns, InTurn
    <3>6. RequiresInTurn(f)'
      <4>1. /\ Tail(<<"late_load">>) = <<>>
            /\ Tail(<<"load", "late_load">>) = <<"late_load">>
            /\ Tail(<<"setup", "load", "late_load">>) = <<"load", "late_load">>
            /\ Tail(<<"setup", "late_load">>) = <<"late_load">>
        OBVIOUS
      <4>2. top.todo # <<>> /\ top.at = "require"
        BY <3>1, <3>2
      <4> QED
        BY <3>4, <3>5, <4>1, <4>2 DEF RequiresInTurn
    <3>7. InTurn(f)'
      BY <3>4, <3>6 DEF InTurn, OpensInTurn, LoopsInTurn
    <3>8. \/ stack' = <<f>> \o Tail(stack)
          \/ \E g : g.at = "call" /\ stack' = <<g, f>> \o Tail(stack)
      BY <1>1, <2>5, <2>6, <3>2, <3>3 DEF RequireNext, UseStale, CallFrom, Advance, Pop
    <3> QED
      BY <2>3, <2>5, <3>7, <3>8
  <2>7. CASE CloseCall
    <3>1. Top.at = "close"
      BY <2>7 DEF CloseCall, TopIs
    <3>2. PICK top \in CloseFrameType : top = Top
      BY <2>2, <3>1, FrameKinds
    <3>3. PICK f : f = [top EXCEPT !.called = TRUE]
      OBVIOUS
    <3>4. f.at = "close"
      BY <3>3 DEF CloseFrameType
    <3>5. InTurn(f)'
      BY <3>4, PlainTurn
    <3>6. \/ stack' = <<f>> \o Tail(stack)
          \/ \E g : g.at = "call" /\ stack' = <<g, f>> \o Tail(stack)
      BY <1>1, <2>5, <2>7, <3>2, <3>3 DEF CloseCall, UseStale, CallFrom, Advance
    <3> QED
      BY <2>3, <2>5, <3>5, <3>6
  <2> QED
    BY <1>5, <2>4, <2>6, <2>7 DEF RequireEnd, Pop
<1>6. CASE \E request \in Requests : modloader_require_mod(request) \/ modloader_force_unload(request)
  <2>1. \E list, pos, m :
          /\ list \in ModLists
          /\ \/ stack' = <<RequireFrame(list, pos, m)>> \o stack
             \/ stack' = <<CloseFrame(list, pos, "force_unload")>> \o stack
    <3>1. PICK request \in Requests : modloader_require_mod(request) \/ modloader_force_unload(request)
      BY <1>6
    <3>2. CASE modloader_require_mod(request)
      <4>1. PICK list \in {"Mods", "EarlyMods"} : \E pos \in DOMAIN loaded[list] :
              stack' = <<RequireFrame(list, pos, loaded[list][pos].mod)>> \o stack
        BY <3>2 DEF modloader_require_mod, Push
      <4>2. PICK pos, m : stack' = <<RequireFrame(list, pos, m)>> \o stack
        BY <4>1
      <4>3. list \in ModLists
        BY DEF ModLists
      <4> QED
        BY <4>2, <4>3
    <3>3. CASE modloader_force_unload(request)
      <4>1. PICK list \in {"Mods", "EarlyMods"} : \E pos \in DOMAIN loaded[list] :
              stack' = <<CloseFrame(list, pos, "force_unload")>> \o stack
        BY <3>3 DEF modloader_force_unload, Push
      <4> QED
        BY <4>1 DEF ModLists
    <3> QED
      BY <3>1, <3>2, <3>3
  <2>2. PICK list, pos, m, f : /\ list \in ModLists
                               /\ f = RequireFrame(list, pos, m) \/ f = CloseFrame(list, pos, "force_unload")
                               /\ stack' = <<f>> \o stack
    BY <2>1
  <2>3. InTurn(f)'
    <3>1. CASE f = RequireFrame(list, pos, m)
      BY <2>2, <3>1 DEF RequireFrame, InTurn, OpensInTurn, LoopsInTurn, RequiresInTurn
    <3>2. CASE f = CloseFrame(list, pos, "force_unload")
      <4>1. f.at = "close"
        BY <3>2 DEF CloseFrame
      <4> QED
        BY <4>1, PlainTurn
    <3> QED
      BY <2>2, <3>1, <3>2
  <2>4. f \in FrameType
    BY <1>1, <2>2, FirstTyped
  <2>5. /\ Len(stack) \in Nat /\ Len(stack') = Len(stack) + 1 /\ stack'[1] = f
        /\ \A i \in 2..(Len(stack) + 1) : stack'[i] = stack[i - 1]
    BY <1>1, <2>2, <2>4, Pushed
  <2>6. \A i \in 1..(Len(stack) + 1) : i = 1 \/ (i \in 2..(Len(stack) + 1) /\ i - 1 \in 1..Len(stack))
    BY <2>5
  <2>7. GoesOn
    <3>1. \A k \in 1..Len(stack) : k + 1 \in 2..(Len(stack) + 1) /\ k + 1 \in 1..(Len(stack) + 1) /\ (k + 1) - 1 = k
      BY <2>5
    <3>2. \A k \in 1..Len(stack) : stack'[k + 1] = stack[k]
      BY <2>5, <3>1
    <3> QED
      BY <1>2, <2>5, <3>1, <3>2 DEF GoesOn
  <2>8. ASSUME NEW i \in 1..Len(stack')
        PROVE  (\E k \in 1..Len(stack) : stack'[i] = stack[k]) \/ InTurn(stack[i])'
    <3>1. CASE i = 1
      <4>1. stack'[i] = f
        BY <2>5, <3>1
      <4> QED
        BY <2>3, <4>1
    <3>2. CASE i # 1
      BY <2>5, <2>6, <3>2
    <3> QED
      BY <3>1, <3>2
  <2> QED
    BY <2>7, <2>8, TurnsKept
<1> QED
  BY <1>5, <1>6

(* The returns of callbacks and of dlclose.                                *)
LEMMA ReturnsTurn ==
  ASSUME IInv, IInv', TakeTurns, ReturnFlagged \/ ReturnUnload \/ Dlclose
  PROVE  TakeTurns'
<1>1. /\ ~undefined' /\ stack \in Seq(FrameType) /\ stack' \in Seq(FrameType)
      /\ returned \in [Mod -> SUBSET Callback] /\ loaded \in [OpenedPhases -> Seq(LoadResult)]
  BY DEF IInv, TypeOK
<1>2. /\ stack # <<>> /\ Top.at \in {"call", "close"} /\ stack' = Tail(stack)
      /\ UNCHANGED <<opened, skip_load>>
  BY <1>1 DEF ReturnFlagged, ReturnUnload, Dlclose, TopIs, UseStale, Pop, listVars
<1>3. /\ Top \in FrameType /\ Top = stack[1] /\ 1 \in 1..Len(stack) /\ Len(stack) \in Nat
      /\ InPlace(Top)
  BY <1>2, Facts, StackTop
<1>4. PICK o : o = OrigFrame
  OBVIOUS
<1>5. o \in FrameType /\ InTurn(o)'
  BY <1>4, PlainFrameTurn
<1>6. CASE ReturnFlagged
  <2>1. /\ Top.at = "call" /\ Top.fn \in {"setup", "load", "late_load"}
        /\ loaded' = [loaded EXCEPT ![Top.list][Top.pos] = Marked(@, Top.fn, Top.mod)]
        /\ returned' = [returned EXCEPT ![Top.mod] = @ \union {Top.fn}]
    BY <1>1, <1>6 DEF ReturnFlagged, TopIs, UseStale
  <2>2. Top.mod \in Mod /\ Top.list \in OpenedPhases /\ Holds(Top.list, Top.pos)
    BY <1>3, <2>1, FrameKinds, CallFrames DEF InPlace
  <2>3. (\A m \in Mod : returned[m] \subseteq returned'[m]) /\ Top.fn \in returned'[Top.mod]
    BY <1>1, <2>1, <2>2
  <2>4. ASSUME NEW list \in OpenedPhases
        PROVE  /\ Len(loaded'[list]) = Len(loaded[list])
               /\ \A i \in 1..Len(loaded[list]) :
                    loaded'[list][i].mod = loaded[list][i].mod /\ loaded'[list][i].ok = loaded[list][i].ok
    <3>1. Len(loaded'[list]) = Len(loaded[list])
      BY <1>1, <2>1, <2>2
    <3>2. ASSUME NEW i \in 1..Len(loaded[list])
          PROVE  loaded'[list][i].mod = loaded[list][i].mod /\ loaded'[list][i].ok = loaded[list][i].ok
      <4>1. loaded[list][i] \in LoadResult
        BY <1>1
      <4>2. /\ Marked(loaded[list][i], Top.fn, Top.mod).mod = loaded[list][i].mod
            /\ Marked(loaded[list][i], Top.fn, Top.mod).ok = loaded[list][i].ok
        BY <4>1 DEF Marked, LoadResult
      <4>3. loaded'[list][i] = loaded[list][i] \/ loaded'[list][i] = Marked(loaded[list][i], Top.fn, Top.mod)
        BY <1>1, <2>1, <2>2
      <4> QED
        BY <4>2, <4>3
    <3> QED
      BY <3>1, <3>2
  <2>5. NothingLost
    BY <1>2, <2>3, <2>4 DEF NothingLost
  <2> QED
    BY <1>2, <1>5, <2>3, <2>5, TurnsPass
<1>7. CASE ReturnUnload
  <2>1. Top.at = "call" /\ Top.fn = "unload" /\ UNCHANGED loaded
        /\ returned' = [returned EXCEPT ![Top.mod] = @ \union {"unload"}]
    BY <1>7 DEF ReturnUnload, TopIs, listVars
  <2>2. ~Awaited(Top)
    BY <2>1 DEF Awaited, Flags
  <2>3. NothingLost
    BY <1>1, <1>2, <2>1 DEF NothingLost
  <2> QED
    BY <1>2, <1>5, <2>2, <2>3, TurnsPass
<1>8. CASE Dlclose
  <2>1. Top.at = "close" /\ UNCHANGED returned /\ (Top.by = "force_unload" \/ loaded' = loaded)
    BY <1>1, <1>8 DEF Dlclose, TopIs, UseStale
  <2>2. CASE Top.by = "force_unload"
    <3>1. Len(stack) = 1
      BY <1>3, <2>1, <2>2, Facts DEF Shape, ErasesAlone
    <3>2. Len(stack') = 0
      BY <1>1, <1>2, <3>1
    <3> QED
      BY <3>2 DEF TakeTurns
  <2>3. CASE loaded' = loaded
    <3>1. NothingLost /\ ~Awaited(Top)
      BY <1>2, <2>1, <2>3, SameNothingLost DEF Awaited
    <3> QED
      BY <1>2, <1>5, <3>1, TurnsPass
  <2> QED
    BY <2>1, <2>2, <2>3
<1> QED
  BY <1>6, <1>7, <1>8

(* The return of a constructor adds one result.                            *)
LEMMA CtorTurn ==
  ASSUME IInv, IInv', Progress, TakeTurns, ReturnCtor
  PROVE  TakeTurns'
<1>1. /\ stack # <<>> /\ Top.at = "call" /\ Top.fn = "ctor"
      /\ skip_load' = skip_load \union {Top.mod}
      /\ returned' = [returned EXCEPT ![Top.mod] = @ \union {"ctor"}]
      /\ UNCHANGED <<opened, loaded>>
  BY DEF ReturnCtor, TopIs
<1>2. /\ stack \in Seq(FrameType) /\ stack' \in Seq(FrameType) /\ returned \in [Mod -> SUBSET Callback]
      /\ Top \in FrameType /\ Top = stack[1] /\ 1 \in 1..Len(stack) /\ Len(stack) \in Nat
  BY <1>1, Facts, StackTop DEF IInv, TypeOK
<1>3. /\ 1 + 1 = 2 /\ 2 \in 1..Len(stack) /\ stack[2].at = "open" /\ stack[2].mods # <<>>
      /\ stack[2].loading
  BY CtorSteps
<1>4. PICK below \in OpenFrameType : below = stack[2]
  BY CtorSteps
<1>5. OpensInTurn(below)
  BY <1>3, <1>4 DEF TakeTurns, InTurn
<1>6. below.deps = <<>> => Top.mod = Head(below.mods)
  <2>1. Top.mod = Opening(stack[2])
    BY <1>1, <1>2, <1>3, Facts DEF Shape, CallsHaveCallers
  <2> QED
    BY <1>4, <2>1 DEF Opening
<1>7. PICK f : f = Recorded(below, LoadedMod(Top.mod, RoleOf(below)))
  OBVIOUS
<1>8. /\ f.at = "open" /\ f.list = below.list
      /\ f.mods = below.mods \/ (f.mods = Tail(below.mods) /\ below.deps = <<>>)
  BY <1>7 DEF OpenFrameType, Recorded
<1>9. stack' = <<f>> \o Tail(Tail(stack))
  BY <1>4, <1>7, CtorSteps
<1>10. InTurn(f)'
  BY <1>1, <1>3, <1>4, <1>5, <1>6, <1>8, OpensOn
<1>13. /\ Tail(stack) \in Seq(FrameType) /\ Len(Tail(stack)) = Len(stack) - 1
       /\ \A i \in 1..(Len(stack) - 1) : Tail(stack)[i] = stack[i + 1]
  BY <1>1, <1>2, Popped
<1>14. Tail(stack) # <<>>
  <2>1. Len(Tail(stack)) # 0 /\ Len(<<>>) = 0
    BY <1>2, <1>3, <1>13
  <2> QED
    BY <2>1, Zenon
<1>15. Tail(Tail(stack)) \in Seq(FrameType)
  BY CtorSteps
<1>16. f \in FrameType
  BY <1>2, <1>9, <1>15, FirstTyped
<1>17. /\ Len(stack') = Len(stack) - 1 /\ stack'[1] = f
       /\ \A i \in 2..(Len(stack) - 1) : stack'[i] = stack[i + 1]
  <2>1. /\ Len(stack') = Len(Tail(stack)) /\ stack'[1] = f
        /\ \A i \in 2..Len(Tail(stack)) : stack'[i] = Tail(stack)[i]
    BY <1>9, <1>13, <1>14, <1>16, Replaced
  <2>2. \A i \in 2..(Len(stack) - 1) : i \in 1..(Len(stack) - 1)
    BY <1>2
  <2> QED
    BY <1>13, <2>1, <2>2
<1>18. GoesOn
  <2>1. NothingLost
    <3>1. \A m \in Mod : returned[m] \subseteq returned'[m]
      BY <1>1, <1>2
    <3> QED
      BY <1>1, <3>1 DEF NothingLost
  <2>2. ASSUME NEW k \in 1..Len(stack), Awaited(stack[k])
        PROVE  \E i \in 1..Len(stack') : stack'[i] = stack[k]
    <3>1. k # 1 /\ k # 2
      BY <1>1, <1>2, <1>3, <2>2 DEF Awaited, Flags
    <3>2. k - 1 \in 2..(Len(stack) - 1) /\ k - 1 \in 1..(Len(stack) - 1) /\ (k - 1) + 1 = k
      BY <1>2, <3>1
    <3>3. stack'[k - 1] = stack[k]
      BY <1>17, <3>2
    <3> QED
      BY <1>17, <3>2, <3>3
  <2> QED
    BY <2>1, <2>2 DEF GoesOn
<1>19. ASSUME NEW i \in 1..Len(stack')
       PROVE  (\E k \in 1..Len(stack) : stack'[i] = stack[k]) \/ InTurn(stack[i])'
  <2>1. CASE i = 1
    <3>1. stack'[i] = f
      BY <1>17, <2>1
    <3> QED
      BY <1>10, <3>1
  <2>2. CASE i # 1
    <3>1. i \in 2..(Len(stack) - 1) /\ i + 1 \in 1..Len(stack)
      BY <1>2, <1>17, <2>2
    <3> QED
      BY <1>17, <3>1
  <2> QED
    BY <2>1, <2>2
<1> QED
  BY <1>18, <1>19, TurnsKept

-----------------------------------------------------------------------------
(* The ends, and what the host and the game begin.                         *)

(* Frames that have not begun, and new ones, are in turn.                  *)
LEMMA FreshTurns ==
  ASSUME IInv, TakeTurns, skip_load \subseteq skip_load',
         \A i \in 1..Len(stack') :
           (\E k \in 1..Len(stack) : stack'[i] = stack[k] /\ Fresh(stack[k])) \/ InTurn(stack[i])'
  PROVE  TakeTurns'
<1> SUFFICES ASSUME NEW i \in 1..Len(stack'), NEW k \in 1..Len(stack), stack'[i] = stack[k], Fresh(stack[k])
             PROVE  InTurn(stack[i])'
  BY DEF TakeTurns
<1>1. PICK f : f = stack[k]
  OBVIOUS
<1>2. f \in FrameType /\ InTurn(f) /\ Fresh(f) /\ ResultsNew(f)
  BY <1>1, Facts DEF TakeTurns, Frames
<1>3. InTurn(f)'
  BY <1>2, FreshTurn
<1>4. stack'[i] = f
  BY <1>1
<1> QED
  BY <1>3, <1>4

(* The new frames of the base.                                             *)
LEMMA NewTurn ==
  ASSUME NEW f,
         \/ f = OrigFrame \/ f = SetupUnityFrame \/ f = ClearFrame
         \/ \E list, fn : f = ForFrame(list, fn)
         \/ \E list : f = OpenFrame(list)
  PROVE  InTurn(f)'
<1>1. CASE f = OrigFrame \/ f = SetupUnityFrame \/ f = ClearFrame
  <2>1. f.at \notin {"open", "for", "require"}
    BY <1>1 DEF OrigFrame, SetupUnityFrame, ClearFrame
  <2> QED
    BY <2>1, PlainTurn
<1>2. CASE \E list, fn : f = ForFrame(list, fn)
  <2>1. f.at = "for" /\ f.pos = 0
    BY <1>2 DEF ForFrame
  <2> QED
    BY <2>1 DEF InTurn, OpensInTurn, LoopsInTurn, RequiresInTurn
<1>3. CASE \E list : f = OpenFrame(list)
  <2>1. f.at = "open" /\ f.mods = Candidates[f.list] /\ f.results = <<>> /\ ~f.loading
    BY <1>3 DEF OpenFrame
  <2>3. OpensInTurn(f)'
    BY <2>1 DEF OpensInTurn
  <2> QED
    BY <2>1, <2>3 DEF InTurn, LoopsInTurn, RequiresInTurn
<1> QED
  BY <1>1, <1>2, <1>3

(* The ends of the functions of the base.                                  *)
LEMMA EndsTurn ==
  ASSUME IInv, DInv, setup_unity_hook \/ OpenEnd \/ ForEnd \/ ClearLists
  PROVE  TakeTurns'
<1>1. stack # <<>> /\ Base(Top) /\ stack' = Tail(stack) /\ UNCHANGED skip_load
  BY DEF setup_unity_hook, OpenEnd, ForEnd, ClearLists, TopIs, Pop, Base, listVars
<1>2. \A i \in 1..Len(stack') : \E k \in 2..Len(stack) : stack'[i] = stack[k] /\ Fresh(stack[k])
  BY <1>1, BasePops DEF DInv
<1>3. \A k \in 2..Len(stack) : k \in 1..Len(stack)
  BY Facts
<1> QED
  BY <1>1, <1>2, <1>3, FreshTurns DEF DInv

(* When the host calls, nothing on the stack has begun.                    *)
LEMMA AllFreshUnder ==
  ASSUME IInv, stack = <<>> \/ (stack # <<>> /\ Top.at = "orig"), NEW k \in 1..Len(stack)
  PROVE  Fresh(stack[k])
<1>1. stack # <<>> /\ Top.at = "orig"
  OBVIOUS
<1>2. Top = stack[1] /\ Len(stack) \in Nat /\ 1 \in 1..Len(stack)
  BY <1>1, Facts, StackTop
<1>3. CASE k = 1
  BY <1>1, <1>2, <1>3 DEF Fresh
<1>4. CASE k # 1
  <2>1. 1 < k /\ Base(stack[1])
    BY <1>1, <1>2, <1>4 DEF Base
  <2> QED
    BY <1>2, <2>1, Facts DEF Shape, BaseAboveFresh
<1> QED
  BY <1>3, <1>4

(* The host's calls.                                                       *)
LEMMA StartsTurn ==
  ASSUME IInv, IInv', TakeTurns,
         \/ modloader_preload \/ modloader_load \/ modloader_accept_unity_handle \/ Il2cppInit
         \/ DestroyObject \/ OrigReturns \/ modloader_unload \/ UNCHANGED vars
  PROVE  TakeTurns'
<1>1. stack \in Seq(FrameType) /\ Len(stack) \in Nat /\ stack' \in Seq(FrameType) /\ UNCHANGED skip_load
  BY Facts DEF IInv, TypeOK, modloader_preload, modloader_load, modloader_accept_unity_handle,
     Il2cppInit, DestroyObject, OrigReturns, modloader_unload, vars, listVars
<1>2. /\ \A list \in OpenedPhases : OpenFrame(list) \in FrameType
      /\ \A list \in OpenedPhases : \A fn \in Flags \union {"close"} : ForFrame(list, fn) \in FrameType
      /\ OrigFrame \in FrameType /\ SetupUnityFrame \in FrameType /\ ClearFrame \in FrameType
      /\ {"Libs", "EarlyMods", "Mods"} = OpenedPhases
      /\ {"setup", "load", "late_load"} = Flags
  BY OpenFramesMade, ForFramesMade, PlainFramesMade DEF OpenedPhases, Flags
<1>3. ASSUME NEW i \in 1..Len(stack'),
             \/ stack'[i] = OrigFrame \/ stack'[i] = SetupUnityFrame \/ stack'[i] = ClearFrame
             \/ \E list, fn : stack'[i] = ForFrame(list, fn)
             \/ \E list : stack'[i] = OpenFrame(list)
      PROVE  InTurn(stack[i])'
  <2>1. PICK f : f = stack'[i]
    OBVIOUS
  <2>2. InTurn(f)'
    BY <1>3, <2>1, NewTurn
  <2> QED
    BY <2>1, <2>2
<1>4. CASE UNCHANGED vars
  BY <1>4 DEF vars, listVars, historyVars, TakeTurns, InTurn, OpensInTurn, LoopsInTurn, RequiresInTurn, InProgress
<1>5. CASE stack = <<>> /\ stack' = stack
  BY <1>5 DEF TakeTurns
<1>6. CASE modloader_load /\ stack' # stack
  <2>1. /\ stack = <<>>
        /\ stack' = <<OpenFrame("Libs"), OpenFrame("EarlyMods"), ForFrame("EarlyMods", "setup")>> \o stack
    BY <1>6 DEF modloader_load, Idle, Push
  <2>2. /\ Len(stack') = Len(stack) + 3 /\ stack'[1] = OpenFrame("Libs") /\ stack'[2] = OpenFrame("EarlyMods")
        /\ stack'[3] = ForFrame("EarlyMods", "setup")
    BY <1>1, <1>2, <2>1, PushedMore
  <2>3. \A i \in 1..Len(stack') : i = 1 \/ i = 2 \/ i = 3
    <3>1. Len(stack) = 0
      BY <2>1
    <3> QED
      BY <2>2, <3>1
  <2>4. \A i \in 1..Len(stack') : InTurn(stack[i])'
    BY <1>3, <2>2, <2>3
  <2> QED
    BY <2>4 DEF TakeTurns
<1>7. CASE Il2cppInit /\ stack' # stack
  <2>1. stack = <<>> /\ stack' = <<ForFrame("EarlyMods", "load"), SetupUnityFrame>> \o stack
    BY <1>7 DEF Il2cppInit, Idle, Push
  <2>2. Len(stack') = Len(stack) + 2 /\ stack'[1] = ForFrame("EarlyMods", "load") /\ stack'[2] = SetupUnityFrame
    BY <1>1, <1>2, <2>1, PushedMore
  <2>3. \A i \in 1..Len(stack') : i = 1 \/ i = 2
    <3>1. Len(stack) = 0
      BY <2>1
    <3> QED
      BY <2>2, <3>1
  <2>4. \A i \in 1..Len(stack') : InTurn(stack[i])'
    BY <1>3, <2>2, <2>3
  <2> QED
    BY <2>4 DEF TakeTurns
<1>8. CASE modloader_unload /\ stack' # stack
  <2>1. /\ stack = <<>>
        /\ stack' = <<ForFrame("Mods", "close"), ForFrame("EarlyMods", "close"),
                      ForFrame("Libs", "close"), ClearFrame>> \o stack
    BY <1>8 DEF modloader_unload, Idle, Push
  <2>2. /\ Len(stack') = Len(stack) + 4 /\ stack'[1] = ForFrame("Mods", "close")
        /\ stack'[2] = ForFrame("EarlyMods", "close") /\ stack'[3] = ForFrame("Libs", "close")
        /\ stack'[4] = ClearFrame
    BY <1>1, <1>2, <2>1, PushedMore
  <2>3. \A i \in 1..Len(stack') : i = 1 \/ i = 2 \/ i = 3 \/ i = 4
    <3>1. Len(stack) = 0
      BY <2>1
    <3> QED
      BY <2>2, <3>1
  <2>4. \A i \in 1..Len(stack') : InTurn(stack[i])'
    BY <1>3, <2>2, <2>3
  <2> QED
    BY <2>4 DEF TakeTurns
<1>9. CASE DestroyObject
  <2>1. /\ stack = <<>> \/ (stack # <<>> /\ Top.at = "orig")
        /\ stack' = <<OrigFrame>> \o stack
    BY <1>9 DEF DestroyObject, Idle, TopIs, Push
  <2>2. /\ Len(stack') = Len(stack) + 1 /\ stack'[1] = OrigFrame
        /\ \A i \in 2..(Len(stack) + 1) : stack'[i] = stack[i - 1]
    BY <1>1, <1>2, <2>1, Pushed
  <2>3. \A i \in 1..(Len(stack) + 1) : i = 1 \/ (i \in 2..(Len(stack) + 1) /\ i - 1 \in 1..Len(stack))
    BY <1>1
  <2>4. \A k \in 1..Len(stack) : Fresh(stack[k])
    BY <2>1, AllFreshUnder
  <2>5. ASSUME NEW i \in 1..Len(stack')
        PROVE  (\E k \in 1..Len(stack) : stack'[i] = stack[k] /\ Fresh(stack[k])) \/ InTurn(stack[i])'
    <3>1. CASE i = 1
      BY <1>3, <2>2, <3>1
    <3>2. CASE i # 1
      BY <2>2, <2>3, <2>4, <3>2
    <3> QED
      BY <3>1, <3>2
  <2> QED
    BY <1>1, <2>5, FreshTurns
<1>10. CASE OrigReturns
  <2>1. /\ stack # <<>> /\ Top.at = "orig"
        /\ stack' = <<OpenFrame("Mods"), ForFrame("Mods", "setup"),
                      ForFrame("EarlyMods", "late_load"), ForFrame("Mods", "late_load")>> \o Tail(stack)
    BY <1>10 DEF OrigReturns, TopIs
  <2>2. /\ Tail(stack) \in Seq(FrameType) /\ Len(Tail(stack)) = Len(stack) - 1
        /\ \A i \in 1..(Len(stack) - 1) : Tail(stack)[i] = stack[i + 1]
    BY <1>1, <2>1, Popped
  <2>3. /\ Len(stack') = Len(Tail(stack)) + 4 /\ stack'[1] = OpenFrame("Mods")
        /\ stack'[2] = ForFrame("Mods", "setup") /\ stack'[3] = ForFrame("EarlyMods", "late_load")
        /\ stack'[4] = ForFrame("Mods", "late_load")
        /\ \A i \in 5..Len(stack') : stack'[i] = Tail(stack)[i - 4]
    BY <1>2, <2>1, <2>2, PushedMore
  <2>4. \A k \in 1..Len(stack) : Fresh(stack[k])
    BY <2>1, AllFreshUnder
  <2>5. ASSUME NEW i \in 1..Len(stack')
        PROVE  (\E k \in 1..Len(stack) : stack'[i] = stack[k] /\ Fresh(stack[k])) \/ InTurn(stack[i])'
    <3>1. CASE i \in {1, 2, 3, 4}
      BY <1>3, <2>3, <3>1
    <3>2. CASE i \notin {1, 2, 3, 4}
      <4>1. i \in 5..Len(stack') /\ i - 4 \in 1..(Len(stack) - 1) /\ (i - 4) + 1 \in 1..Len(stack)
        BY <1>1, <2>2, <2>3, <3>2
      <4> QED
        BY <2>2, <2>3, <2>4, <4>1
    <3> QED
      BY <3>1, <3>2
  <2> QED
    BY <1>1, <2>5, FreshTurns
<1> QED
  BY <1>4, <1>5, <1>6, <1>7, <1>8, <1>9, <1>10
     DEF modloader_preload, modloader_load, modloader_accept_unity_handle, Il2cppInit, modloader_unload, Idle

-----------------------------------------------------------------------------
(* Theorems.                                                               *)

(* DInv is inductive together with IInv.                                   *)
LEMMA NextDInv == ASSUME CallbacksDoNotUnload PROVE IInv /\ DInv /\ [Next]_vars => DInv'
<1> SUFFICES ASSUME IInv, DInv, [Next]_vars PROVE DInv'
  OBVIOUS
<1>1. IInv'
  BY NextIInv
<1>2. InStages /\ Progress /\ TakeTurns /\ Deliveries
  BY DEF DInv
<1>3. CASE Inner
  <2>1. InStages' /\ Progress' /\ Deliveries'
    BY <1>1, <1>2, <1>3, InnerSettles, InnerKeeps
  <2>2. TakeTurns'
    BY <1>1, <1>2, <1>3, OpensTurn, LoopsTurn, RequiresTurn, ReturnsTurn, CtorTurn DEF Inner
  <2> QED
    BY <2>1, <2>2 DEF DInv
<1>4. CASE setup_unity_hook \/ OpenEnd \/ ForEnd \/ ClearLists
  <2>1. InStages' /\ Progress' /\ Deliveries'
    BY <1>1, <1>4, EndsKeep, OpenEndStages
  <2> QED
    BY <1>4, <2>1, EndsTurn DEF DInv
<1>5. CASE \/ modloader_preload \/ modloader_load \/ modloader_accept_unity_handle \/ Il2cppInit
           \/ DestroyObject \/ OrigReturns \/ modloader_unload \/ UNCHANGED vars
  <2>1. InStages' /\ Progress' /\ Deliveries'
    BY <1>1, <1>2, <1>5, HostKeeps, StartsKeep
  <2> QED
    BY <1>1, <1>2, <1>5, <2>1, StartsTurn DEF DInv
<1> QED
  BY <1>3, <1>4, <1>5 DEF Next, Run, Start, Inner

(* It holds at the start.                                                  *)
LEMMA InitDInv == Init => DInv
<1> SUFFICES ASSUME Init PROVE DInv
  OBVIOUS
<1>1. /\ host = "start" /\ hooks = {} /\ current_load_phase = "None" /\ opened = {}
      /\ loaded["Mods"] = <<>> /\ Len(stack) = 0
  BY DEF Init, OpenedPhases
<1>2. \A i \in 1..0 : FALSE
  OBVIOUS
<1>3. \A n : ~Waits(n)
  BY <1>1, <1>2 DEF Waits
<1>4. InStages /\ TakeTurns
  BY <1>1, <1>2 DEF InStages, TakeTurns
<1>5. Progress
  BY <1>1, <1>3 DEF Progress
<1>6. Deliveries
  BY <1>1, <1>3 DEF Deliveries
<1> QED
  BY <1>4, <1>5, <1>6 DEF DInv

(* Both hold throughout.                                                   *)
LEMMA DeliveriesInductive == ASSUME CallbacksDoNotUnload PROVE Spec => [](IInv /\ DInv)
<1>1. IInv /\ DInv /\ [Next]_vars => (IInv /\ DInv)'
  BY NextIInv, NextDInv
<1>2. Init => IInv /\ DInv
  BY InitIInv, InitDInv
<1> QED
  BY <1>1, <1>2, PTL DEF Spec

(* The loops miss nobody: once early_mods_opened or late_mods_opened is     *)
(* set every setup has returned, no object is destroyed under the hook      *)
(* before every load has, and after the hook every late_load has.          *)
THEOREM Deliver == ASSUME CallbacksDoNotUnload PROVE Spec => []AllDelivered
<1>1. IInv /\ DInv => AllDelivered
  <2> SUFFICES ASSUME IInv, DInv PROVE AllDelivered
    OBVIOUS
  <2>1. \A list \in opened \ {"Libs"} : list \in ModLists
    BY Facts DEF TypeOK, OpenedPhases, ModLists
  <2>2. Idle => \A n : ~Waits(n)
    BY DEF Idle, Waits
  <2> QED
    BY <2>1, <2>2 DEF DInv, Deliveries, AllDelivered
<1> QED
  BY <1>1, DeliveriesInductive, PTL

(* A mod sees its callbacks in the order of the README's table, although    *)
(* each of them may be called by a require of another mod.                 *)
THEOREM InOrder == ASSUME CallbacksDoNotUnload PROVE Spec => StagesInOrder
<1>1. IInv /\ IInv' /\ RequiresServed /\ DInv /\ [Next]_vars =>
        [\A m \in Mod :
           /\ Enters("load", m) \/ Enters("late_load", m) =>
                Exports[m] \intersect {"setup"} \subseteq returned[m]
           /\ Enters("late_load", m) /\ IsListed("EarlyMods", m) =>
                Exports[m] \intersect {"load"} \subseteq returned[m]]_vars
  <2> SUFFICES ASSUME IInv, IInv', RequiresServed, DInv, Next,
                      NEW m \in Mod, NEW fn \in {"load", "late_load"}, Enters(fn, m)
               PROVE  /\ "setup" \in Exports[m] => "setup" \in returned[m]
                      /\ fn = "late_load" /\ IsListed("EarlyMods", m) /\ "load" \in Exports[m] =>
                           "load" \in returned[m]
    BY DEF vars
  <2>1. fn \in Flags /\ stack' \in Seq(FrameType)
    BY DEF Flags, IInv, TypeOK
  <2>2. ForNext \/ RequireNext
    BY <2>1, StartEntersNothing, OtherRunEntersNothing DEF Next, Flags
  <2>3. /\ \E list \in OpenedPhases : \E pos \in DOMAIN loaded[list] :
             /\ loaded[list][pos].ok /\ loaded[list][pos].mod = m /\ Due(loaded[list][pos], fn)
             /\ Top.list = list /\ Top.pos = pos
        /\ \/ Top.at = "for" /\ Top.fn = fn
           \/ Top.at = "require" /\ Top.todo # <<>> /\ Head(Top.todo) = fn /\ InPhase(fn)
    BY <2>1, <2>2, EntryIsDue
  <2>4. PICK list \in OpenedPhases : \E pos \in DOMAIN loaded[list] :
          loaded[list][pos].ok /\ loaded[list][pos].mod = m /\ Top.list = list /\ Top.pos = pos
    BY <2>3
  <2> PICK pos \in DOMAIN loaded[list] :
        loaded[list][pos].ok /\ loaded[list][pos].mod = m /\ Top.list = list /\ Top.pos = pos
    BY <2>4
  <2>5. stack # <<>>
    BY <2>2 DEF ForNext, RequireNext, TopIs
  <2>6. Top = stack[1] /\ 1 \in 1..Len(stack) /\ Len(stack) \in Nat /\ Top \in FrameType /\ InPlace(Top)
    BY <2>5, Facts, StackTop
  <2>7. \A other, f : Delivered(other, f) /\ other = list /\ f \in Exports[m] => f \in returned[m]
    BY <2>4 DEF Delivered
  <2>8. list = "Mods" => ~IsListed("EarlyMods", m)
    <3>1. \A l \in OpenedPhases : DOMAIN loaded[l] = 1..Len(loaded[l])
      BY Facts
    <3> QED
      BY <2>4, <3>1, Facts DEF Lists, ListedOnce, IsListed, OpenedPhases
  <2>9. CASE Top.at = "for" /\ Top.fn = fn
    <3>1. /\ Stage(Top) \in {4, 8, 9}
          /\ Stage(Top) \in {4, 8} => list = "EarlyMods"
          /\ Stage(Top) = 4 <=> fn = "load"
          /\ Stage(Top) = 9 => list = "Mods"
      BY <2>4, <2>6, <2>9, ForStages, StageOfFor DEF DInv, InStages
    <3>2. Waits(Stage(Top))
      BY <2>6 DEF Waits
    <3>3. 4 \in 4..10 /\ 8 \in 4..10 /\ 8 \in 6..10
      OBVIOUS
    <3>4. Stage(Top) \in {4, 8} => Delivered("EarlyMods", "setup")
      BY <3>2, <3>3 DEF DInv, Progress, Deliveries, ModLists
    <3>5. Stage(Top) = 8 => Delivered("EarlyMods", "load")
      BY <3>2, <3>3 DEF DInv, Deliveries
    <3>6. Stage(Top) = 9 => Delivered("Mods", "setup")
      <4> SUFFICES ASSUME Stage(Top) = 9 PROVE Delivered("Mods", "setup")
        OBVIOUS
      <4>1. ~Waits(7)
        <5> SUFFICES ASSUME NEW j \in 1..Len(stack), Stage(stack[j]) = 7 PROVE FALSE
          BY DEF Waits
        <5>1. j = 1 \/ 1 < j
          BY <2>6
        <5> QED
          BY <2>6, <5>1 DEF DInv, InStages
      <4> QED
        BY <3>2, <4>1 DEF DInv, Progress, Deliveries, ModLists
    <3> QED
      BY <2>7, <2>8, <3>1, <3>4, <3>5, <3>6
  <2>10. CASE Top.at = "require" /\ Top.todo # <<>> /\ Head(Top.todo) = fn /\ InPhase(fn)
    <3>1. list \in ModLists /\ Top.mod = m
      BY <2>4, <2>6, <2>10 DEF DInv, TakeTurns, InTurn, RequiresInTurn, InPlace
    <3>2. "setup" \notin Range(Top.todo)
      <4>1. RequiresInTurn(Top)
        BY <2>6 DEF DInv, TakeTurns, InTurn
      <4>2. Top.todo = <<"late_load">> \/ Top.todo = <<"load", "late_load">>
        BY <2>10, <4>1 DEF RequiresInTurn
      <4> QED
        BY <4>2 DEF Range
    <3>3. "setup" \in returned[m]
      <4>1. Asked("setup", Top) /\ "setup" \in Flags
        BY DEF Asked, InPhase, Flags
      <4> QED
        BY <2>6, <2>10, <3>1, <3>2, <4>1 DEF RequiresServed, ServedAt
    <3>4. fn = "late_load" => Delivered("EarlyMods", "load")
      BY <2>10 DEF InPhase, DInv, Deliveries
    <3>5. list = "Mods" \/ list = "EarlyMods"
      BY <3>1 DEF ModLists
    <3> QED
      BY <2>7, <2>8, <3>3, <3>4, <3>5
  <2> QED
    BY <2>3, <2>9, <2>10
<1> QED
  BY <1>1, Inductive, ServedInductive, DeliveriesInductive, PTL DEF Spec, StagesInOrder

-----------------------------------------------------------------------------
(* No list is replaced while it has anything in it.                        *)

(* DestroyObjectHighLevel is hooked, or may still be.                      *)
ModsPending == host # "il2cpp" \/ "DestroyObject" \in hooks \/ Waits(5) \/ Waits(10)

(* A list is empty when loadMods is called for it.                         *)
FilledOnce ==
  /\ host \in {"start", "preloaded"} => \A list \in OpenedPhases : loaded[list] = <<>>
  /\ Waits(1) => loaded["Libs"] = <<>>
  /\ Waits(2) => loaded["EarlyMods"] = <<>>
  /\ Waits(6) => loaded["Mods"] = <<>> /\ ~ModsPending
  /\ ModsPending => loaded["Mods"] = <<>>
  /\ "DestroyObject" \in hooks \/ Waits(5) \/ Waits(10) => host = "il2cpp"
  /\ Waits(14) => unloaded

(* No object is destroyed while one is.                                    *)
DestroysOne == \A i, j \in 1..Len(stack) : Stage(stack[i]) = 10 /\ Stage(stack[j]) = 10 => i = j

(* A step aside of the base ends none of its functions.                    *)
LEMMA AsideWaits ==
  ASSUME IInv, InStages, Aside
  PROVE  \A n \in 1..15 : Waits(n)' <=> Waits(n)
<1>1. PICK d \in {-1, 0, 1} : Shifted(d) /\ (d = 1 => Stage(stack[1]) = 0)
  BY DEF Aside
<1>2. Len(stack) \in Nat
  BY DEF IInv, TypeOK
<1>3. /\ \A n \in 1..15 : Waits(n)' => Waits(n)
      /\ \A n \in 1..15 : Waits(n) /\ (d = 1 => Stage(stack[1]) # n) => Waits(n)'
  BY <1>1, <1>2, ShiftedStages
<1>4. \A n \in 1..15 : d = 1 => Stage(stack[1]) # n
  BY <1>1
<1> QED
  BY <1>3, <1>4

(* Nor does it make two of one.                                            *)
LEMMA AsideDestroysOne ==
  ASSUME IInv, DestroysOne, Aside
  PROVE  DestroysOne'
<1>1. PICK d \in {-1, 0, 1} : Shifted(d)
  BY DEF Aside
<1>2. Len(stack) \in Nat
  BY DEF IInv, TypeOK
<1> SUFFICES ASSUME NEW i \in 1..Len(stack'), NEW j \in 1..Len(stack'),
                    Stage(stack'[i]) = 10, Stage(stack'[j]) = 10
             PROVE  i = j
  BY DEF DestroysOne
<1>3. i + d \in 1..Len(stack) /\ Stage(stack[i + d]) = 10
  BY <1>1 DEF Shifted
<1>4. j + d \in 1..Len(stack) /\ Stage(stack[j + d]) = 10
  BY <1>1 DEF Shifted
<1>5. i + d = j + d
  BY <1>3, <1>4 DEF DestroysOne
<1> QED
  BY <1>5

(* A list that inherits from an empty one is empty.                        *)
LEMMA EmptyStays ==
  ASSUME IInv', NEW list \in OpenedPhases, Inherits(list), loaded[list] = <<>>
  PROVE  loaded'[list] = <<>>
<1>1. loaded'[list] \in Seq(LoadResult) /\ Len(loaded'[list]) \in Nat
  BY DEF IInv, TypeOK
<1>2. \A k \in 1..Len(loaded[list]) : FALSE
  OBVIOUS
<1>3. \A i \in 1..Len(loaded'[list]) : FALSE
  BY <1>2 DEF Inherits
<1>4. Len(loaded'[list]) = 0
  BY <1>1, <1>3
<1> QED
  BY <1>1, <1>4

(* Only modloader_unload begins a teardown.                                 *)
LEMMA InnerSameUnloaded == ASSUME Inner PROVE unloaded' = unloaded
BY DEF Inner, OpenBegin, OpenNext, NextMod, SkipDependency, OpenLibrary, ForBegin, ForNext,
       ReturnFlagged, ReturnUnload, ReturnCtor, RequireNext, RequireEnd, CloseCall, Dlclose,
       modloader_require_mod, modloader_force_unload, UseStale, historyVars

(* Inner steps fill no list.                                               *)
LEMMA InnerFills ==
  ASSUME IInv, IInv', InStages, FilledOnce, Inner
  PROVE  FilledOnce'
<1>1. Settled /\ Aside /\ unloaded' = unloaded
  BY InnerSettles, InnerSameUnloaded
<1>2. /\ Waits(1)' <=> Waits(1)
      /\ Waits(2)' <=> Waits(2)
      /\ Waits(5)' <=> Waits(5)
      /\ Waits(6)' <=> Waits(6)
      /\ Waits(10)' <=> Waits(10)
      /\ Waits(14)' <=> Waits(14)
  BY <1>1, AsideWaits
<1>3. \A list \in OpenedPhases : loaded[list] = <<>> => loaded'[list] = <<>>
  BY <1>1, EmptyStays DEF Settled
<1>4. {"Libs", "EarlyMods", "Mods"} = OpenedPhases
  BY DEF OpenedPhases
<1>5. UNCHANGED <<host, hooks>>
  BY <1>1 DEF Settled
<1>6. ModsPending' <=> ModsPending
  BY <1>2, <1>5 DEF ModsPending
<1> QED
  BY <1>1, <1>2, <1>3, <1>4, <1>5, <1>6 DEF FilledOnce

(* Nor do the ends of the base, loadMods apart.                            *)
LEMMA EndsFill ==
  ASSUME IInv, IInv', InStages, FilledOnce, setup_unity_hook \/ ForEnd \/ ClearLists
  PROVE  FilledOnce'
<1>1. /\ stack # <<>> /\ Base(Top) /\ stack' = Tail(stack)
      /\ UNCHANGED <<host, unloaded>>
      /\ loaded' = loaded \/ loaded' = [p \in OpenedPhases |-> <<>>]
  BY DEF setup_unity_hook, ForEnd, ClearLists, TopIs, Pop, Base, hostVars, historyVars, listVars
<1>2. PICK n \in 1..14 : n = Stage(Top)
  BY <1>1, BasePops
<1>3. Waits(n) /\ (n # 10 => ~Waits(n)') /\ \A k \in 1..15 : k # n => (Waits(k)' <=> Waits(k))
  <2>1. /\ Waits(Stage(Top))
        /\ \A k \in 1..15 : k = Stage(Top) /\ k # 10 => ~Waits(k)'
        /\ \A k \in 1..15 : k # Stage(Top) => (Waits(k)' <=> Waits(k))
    BY <1>1, BasePops
  <2>2. n \in 1..15
    OBVIOUS
  <2> QED
    BY <1>2, <2>1, <2>2
<1>4. \A k \in 1..15 : Waits(k)' => Waits(k)
  BY <1>3
<1>5. hooks' = hooks \/ (Waits(5) /\ hooks' \subseteq hooks \union {"DestroyObject"})
  <2>1. CASE setup_unity_hook
    <3>1. n = 5
      BY <1>2, <2>1, StageOfPlain DEF setup_unity_hook, TopIs
    <3> QED
      BY <1>3, <2>1, <3>1 DEF setup_unity_hook
  <2> QED
    BY <2>1 DEF ForEnd, ClearLists, hostVars
<1>6. ModsPending' => ModsPending
  BY <1>1, <1>4, <1>5 DEF ModsPending
<1>7. \A list \in OpenedPhases : loaded[list] = <<>> => loaded'[list] = <<>>
  BY <1>1
<1>8. {"Libs", "EarlyMods", "Mods"} = OpenedPhases
  BY DEF OpenedPhases
<1>9. /\ Waits(1)' => Waits(1)
      /\ Waits(2)' => Waits(2)
      /\ Waits(5)' => Waits(5)
      /\ Waits(6)' => Waits(6)
      /\ Waits(10)' => Waits(10)
      /\ Waits(14)' => Waits(14)
  BY <1>4
<1> QED
  BY <1>1, <1>5, <1>6, <1>7, <1>8, <1>9 DEF FilledOnce

(* loadMods fills its list, and no loadMods for the list is left.          *)
LEMMA OpenEndFills ==
  ASSUME IInv, IInv', DInv, FilledOnce, OpenEnd
  PROVE  FilledOnce' /\ loaded[Top.list] = <<>>
<1>1. /\ stack # <<>> /\ Base(Top) /\ stack' = Tail(stack) /\ Top.at = "open"
      /\ UNCHANGED <<host, hooks, unloaded>>
      /\ loaded' = [loaded EXCEPT ![Top.list] = Top.results]
  <2>1. Base(Top)
    BY DEF OpenEnd, TopIs, Base
  <2> QED
    BY <2>1 DEF OpenEnd, TopIs, Pop, hostVars, historyVars
<1>2. PICK n \in 1..14 : n = Stage(Top)
  BY <1>1, BasePops DEF DInv
<1>3. Waits(n) /\ (n # 10 => ~Waits(n)') /\ \A k \in 1..15 : k # n => (Waits(k)' <=> Waits(k))
  BY <1>1, <1>2, BasePops DEF DInv
<1>4. Top.list \in OpenedPhases /\ loaded \in [OpenedPhases -> Seq(LoadResult)]
  <2>1. Top \in OpenFrameType
    BY <1>1, Facts, StackTop, FrameKinds
  <2> QED
    BY <2>1, OpenFrames, Facts
<1>5. /\ n \in {1, 2, 6}
      /\ n = 1 <=> Top.list = "Libs"
      /\ n = 2 <=> Top.list = "EarlyMods"
      /\ n = 6 <=> Top.list = "Mods"
  BY <1>1, <1>2, <1>4, StageOfOpen DEF OpenedPhases
<1>6. loaded[Top.list] = <<>>
  BY <1>3, <1>5 DEF FilledOnce
<1>7. /\ Waits(1)' => Waits(1) /\ n # 1
      /\ Waits(2)' => Waits(2) /\ n # 2
      /\ Waits(6)' => Waits(6) /\ n # 6
      /\ Waits(5)' <=> Waits(5)
      /\ Waits(10)' <=> Waits(10)
      /\ Waits(14)' <=> Waits(14)
  BY <1>3, <1>5
<1>8. ModsPending' <=> ModsPending
  BY <1>1, <1>7 DEF ModsPending
<1>9. n = 6 => ~ModsPending
  BY <1>3 DEF FilledOnce
<1>10. host \notin {"start", "preloaded"}
  <2>1. n = 1 \/ n = 2 => host = "loaded"
    BY <1>3 DEF DInv, Progress
  <2>2. n = 6 => "EarlyMods" \in opened
    <3>1. 6 \in 4..10
      OBVIOUS
    <3> QED
      BY <1>3, <3>1 DEF DInv, Progress
  <2> QED
    BY <1>5, <2>1, <2>2 DEF DInv, Progress
<1>11. /\ n # 1 => loaded'["Libs"] = loaded["Libs"]
       /\ n # 2 => loaded'["EarlyMods"] = loaded["EarlyMods"]
       /\ n # 6 => loaded'["Mods"] = loaded["Mods"]
  BY <1>1, <1>4, <1>5 DEF OpenedPhases
<1> QED
  BY <1>1, <1>6, <1>7, <1>8, <1>9, <1>10, <1>11 DEF FilledOnce

(* The host goes on and nothing is begun.                                  *)
LEMMA HostFills ==
  ASSUME IInv, InStages, FilledOnce,
         \/ modloader_preload \/ (modloader_load /\ failed) \/ modloader_accept_unity_handle
         \/ (Il2cppInit /\ "il2cpp_init" \notin hooks) \/ (modloader_unload /\ failed)
         \/ UNCHANGED vars
  PROVE  FilledOnce'
<1>1. /\ UNCHANGED <<loaded, stack>>
      /\ hooks' \subseteq hooks \union {"il2cpp_init"}
      /\ unloaded => unloaded'
  BY DEF modloader_preload, modloader_load, modloader_accept_unity_handle, Il2cppInit,
         modloader_unload, vars, hostVars, listVars, historyVars
<1>2. \A n : Waits(n)' <=> Waits(n)
  BY <1>1 DEF Waits
<1>3. /\ host' # "il2cpp" => host # "il2cpp"
      /\ host = "il2cpp" => host' = "il2cpp"
      /\ host' \in {"start", "preloaded"} => host \in {"start", "preloaded"}
  BY DEF modloader_preload, modloader_load, modloader_accept_unity_handle, Il2cppInit,
         modloader_unload, vars, hostVars
<1>4. "DestroyObject" \in hooks' => "DestroyObject" \in hooks
  BY <1>1
<1>5. ModsPending' => ModsPending
  BY <1>2, <1>3, <1>4 DEF ModsPending
<1> QED
  BY <1>1, <1>2, <1>3, <1>4, <1>5 DEF FilledOnce

(* The host's calls that begin something.                                  *)
LEMMA StartsFill ==
  ASSUME IInv, IInv', InStages, Progress, FilledOnce, DestroysOne, ~DestroyNests,
         \/ (modloader_load /\ ~failed) \/ (Il2cppInit /\ "il2cpp_init" \in hooks)
         \/ DestroyObject \/ OrigReturns \/ (modloader_unload /\ ~failed)
  PROVE  FilledOnce' /\ DestroysOne'
<1>1. /\ UNCHANGED loaded /\ hooks' \subseteq hooks
      /\ unloaded => unloaded'
  BY DEF modloader_load, Il2cppInit, DestroyObject, OrigReturns, modloader_unload, hostVars, listVars,
         historyVars
<1>2. /\ loaded["Libs"] = <<>> /\ loaded["EarlyMods"] = <<>> /\ loaded["Mods"] = <<>>
         <=> \A list \in OpenedPhases : loaded[list] = <<>>
  BY DEF OpenedPhases
<1>3. stack = <<>> => \A n \in 1..15 : ~Waits(n)
  BY DEF Waits
<1>4. ASSUME NEW s \in 1..11, NEW k \in 1..4, Starts(s, k), s + (k - 1) < 10 \/ s > 10, stack = <<>>
      PROVE  DestroysOne' /\ ~Waits(10)'
  <2>1. \A n \in s..(s + (k - 1)) : n # 10
    BY <1>4
  <2>2. 10 \in 1..15
    OBVIOUS
  <2>3. ~Waits(10)'
    BY <1>3, <1>4, <2>1, <2>2 DEF Starts
  <2> QED
    BY <2>3 DEF Waits, DestroysOne
<1>5. ASSUME NEW s \in 1..11, NEW k \in 1..4, Starts(s, k), stack = <<>>
      PROVE  \A n \in 1..15 : Waits(n)' => n \in s..(s + (k - 1))
  BY <1>3, <1>5 DEF Starts
<1>6. CASE modloader_load /\ ~failed
  <2>1. stack = <<>> /\ host = "preloaded" /\ host' = "loaded" /\ UNCHANGED hooks
    BY <1>6 DEF modloader_load, Idle
  <2>2. Starts(1, 3) /\ 1 \in 1..11 /\ 3 \in 1..4 /\ 1 + (3 - 1) = 3
    BY <1>6, StartStages
  <2>3. DestroysOne' /\ ~Waits(10)'
    BY <1>4, <2>1, <2>2
  <2>4. ~Waits(5)' /\ ~Waits(6)' /\ ~Waits(14)'
    BY <1>5, <2>1, <2>2
  <2> QED
    BY <1>1, <1>2, <2>1, <2>3, <2>4 DEF FilledOnce
<1>7. CASE Il2cppInit /\ "il2cpp_init" \in hooks
  <2>1. stack = <<>> /\ host = "unity" /\ host' = "il2cpp"
    BY <1>7 DEF Il2cppInit, Idle
  <2>2. Starts(4, 2) /\ 4 \in 1..11 /\ 2 \in 1..4 /\ 4 + (2 - 1) = 5
    BY <1>7, StartStages
  <2>3. DestroysOne' /\ ~Waits(10)'
    BY <1>4, <2>1, <2>2
  <2>4. ~Waits(1)' /\ ~Waits(2)' /\ ~Waits(6)' /\ ~Waits(14)'
    BY <1>5, <2>1, <2>2
  <2>5. loaded["Mods"] = <<>>
    BY <2>1 DEF FilledOnce, ModsPending
  <2> QED
    BY <1>1, <2>1, <2>3, <2>4, <2>5 DEF FilledOnce
<1>8. CASE modloader_unload /\ ~failed
  <2>1. stack = <<>> /\ UNCHANGED <<host, hooks>> /\ unloaded'
    BY <1>8 DEF modloader_unload, Idle, hostVars
  <2>2. Starts(11, 4) /\ 11 \in 1..11 /\ 4 \in 1..4 /\ 11 + (4 - 1) = 14
    BY <1>8, StartStages
  <2>3. DestroysOne' /\ ~Waits(10)'
    BY <1>4, <2>1, <2>2
  <2>4. ~Waits(1)' /\ ~Waits(2)' /\ ~Waits(5)' /\ ~Waits(6)'
    BY <1>5, <2>1, <2>2
  <2>5. ModsPending' => ModsPending
    BY <2>1, <2>3, <2>4 DEF ModsPending
  <2> QED
    BY <1>1, <2>1, <2>3, <2>4, <2>5 DEF FilledOnce
<1>9. CASE DestroyObject
  <2>1. /\ stack = <<>> /\ "DestroyObject" \in hooks /\ UNCHANGED <<host, hooks>>
        /\ stack' = <<OrigFrame>> \o stack
    BY <1>9 DEF DestroyObject, Idle, Push, hostVars
  <2>2. Starts(10, 1) /\ 10 \in 1..11 /\ 1 \in 1..4 /\ 10 + (1 - 1) = 10
    BY <1>9, StartStages
  <2>3. ~Waits(1)' /\ ~Waits(2)' /\ ~Waits(5)' /\ ~Waits(6)' /\ ~Waits(14)'
    BY <1>5, <2>1, <2>2
  <2>4. Len(stack') = 1
    BY <2>1
  <2>5. DestroysOne'
    BY <2>4 DEF DestroysOne
  <2>6. host = "il2cpp" /\ loaded["Mods"] = <<>>
    BY <2>1 DEF FilledOnce, ModsPending
  <2> QED
    BY <1>1, <2>1, <2>3, <2>5, <2>6 DEF FilledOnce
<1>10. CASE OrigReturns
  <2>1. /\ stack # <<>> /\ Top.at = "orig" /\ UNCHANGED host /\ hooks' = hooks \ {"DestroyObject"}
        /\ stack' = <<OpenFrame("Mods"), ForFrame("Mods", "setup"),
                      ForFrame("EarlyMods", "late_load"), ForFrame("Mods", "late_load")>> \o Tail(stack)
    BY <1>10 DEF OrigReturns, TopIs
  <2>2. /\ stack \in Seq(FrameType) /\ Top = stack[1] /\ Len(stack) \in Nat /\ 1 \in 1..Len(stack)
        /\ Tail(stack) \in Seq(FrameType) /\ Len(Tail(stack)) = Len(stack) - 1
        /\ \A i \in 1..(Len(stack) - 1) : Tail(stack)[i] = stack[i + 1]
    BY <2>1, Facts, StackTop, Popped
  <2>3. Stage(stack[1]) = 10 /\ Waits(10)
    <3>1. Stage(stack[1]) = 10
      BY <2>1, <2>2, StageOfPlain
    <3> QED
      BY <2>2, <3>1 DEF Waits
  <2>4. host = "il2cpp" /\ loaded["Mods"] = <<>>
    BY <2>3 DEF FilledOnce, ModsPending
  <2>5. \A n \in 1..9 : ~Waits(n)
    BY <2>1, NoneWaits
  <2>6. ~Waits(1)' /\ ~Waits(2)' /\ ~Waits(5)' /\ (Waits(14)' => Waits(14))
    <3>1. Starts(6, 4) /\ 6 + (4 - 1) = 9
      BY <1>10, StartStages
    <3>2. \A n \in 1..15 : Waits(n)' => n \in 6..9 \/ Waits(n)
      BY <3>1 DEF Starts
    <3> QED
      BY <2>5, <3>2
  <2>7. ~Waits(10)'
    <3> SUFFICES ASSUME NEW i \in 1..Len(stack'), Stage(stack'[i]) = 10 PROVE FALSE
      BY DEF Waits
    <3>1. /\ "Mods" \in OpenedPhases /\ "EarlyMods" \in OpenedPhases
          /\ "setup" \in Flags \union {"close"} /\ "late_load" \in Flags \union {"close"}
      BY DEF OpenedPhases, Flags
    <3>2. /\ OpenFrame("Mods") \in FrameType /\ ForFrame("Mods", "setup") \in FrameType
          /\ ForFrame("EarlyMods", "late_load") \in FrameType /\ ForFrame("Mods", "late_load") \in FrameType
      BY <3>1, OpenFramesMade, ForFramesMade
    <3>3. /\ Len(stack') = Len(Tail(stack)) + 4
          /\ stack'[1] = OpenFrame("Mods") /\ stack'[2] = ForFrame("Mods", "setup")
          /\ stack'[3] = ForFrame("EarlyMods", "late_load") /\ stack'[4] = ForFrame("Mods", "late_load")
          /\ \A j \in 5..Len(stack') : stack'[j] = Tail(stack)[j - 4]
      BY <2>1, <2>2, <3>2, PushedMore
    <3>4. /\ Stage(stack'[1]) # 10 /\ Stage(stack'[2]) # 10
          /\ Stage(stack'[3]) # 10 /\ Stage(stack'[4]) # 10
      BY <3>3, StageOfPlain DEF OpenFrame, ForFrame
    <3>5. i \in 5..Len(stack')
      BY <2>2, <3>3, <3>4
    <3>6. i - 4 \in 1..(Len(stack) - 1)
      BY <2>2, <3>3, <3>5
    <3>7. stack'[i] = stack[(i - 4) + 1] /\ (i - 4) + 1 \in 2..Len(stack)
      BY <2>2, <3>3, <3>5, <3>6
    <3>8. \A k \in 2..Len(stack) : k \in 1..Len(stack) /\ k # 1
      BY <2>2
    <3> QED
      BY <2>2, <2>3, <3>7, <3>8 DEF DestroysOne
  <2>8. DestroysOne'
    BY <2>7 DEF Waits, DestroysOne
  <2>9. ~ModsPending'
    BY <2>1, <2>4, <2>6, <2>7 DEF ModsPending
  <2> QED
    BY <1>1, <2>1, <2>4, <2>6, <2>7, <2>8, <2>9 DEF FilledOnce
<1> QED
  BY <1>6, <1>7, <1>8, <1>9, <1>10

(* Everything else keeps the original of DestroyObjectHighLevel alone.     *)
LEMMA PopsDestroyOne ==
  ASSUME IInv, DestroysOne, stack # <<>>, stack' = Tail(stack)
  PROVE  DestroysOne'
<1>1. /\ Len(stack) \in Nat /\ Len(stack') = Len(stack) - 1
      /\ \A i \in 1..(Len(stack) - 1) : stack'[i] = stack[i + 1]
  BY Facts, Popped
<1> SUFFICES ASSUME NEW i \in 1..(Len(stack) - 1), NEW j \in 1..(Len(stack) - 1),
                    Stage(stack'[i]) = 10, Stage(stack'[j]) = 10
             PROVE  i = j
  BY <1>1 DEF DestroysOne
<1>2. i + 1 \in 1..Len(stack) /\ j + 1 \in 1..Len(stack)
  BY <1>1
<1>3. i + 1 = j + 1
  BY <1>1, <1>2 DEF DestroysOne
<1> QED
  BY <1>3

-----------------------------------------------------------------------------
(* What is open is in a list, or will come into one.                       *)

Gives(result, handle) == result.ok /\ Handle(result) = handle

Listed(handle) ==
  \E list \in OpenedPhases : \E i \in 1..Len(loaded[list]) : Gives(loaded[list][i], handle)

(* A loadMods has it among its results.                                    *)
HasResult(f, handle) == f.at = "open" /\ \E i \in 1..Len(f.results) : Gives(f.results[i], handle)

InResults(handle) == \E k \in 1..Len(stack) : HasResult(stack[k], handle)

Remembered == ~unloaded => \A handle \in handles : Listed(handle) \/ InResults(handle)

(* What there is to show of a step.                                        *)
LEMMA StillRemembered ==
  ASSUME Remembered, unloaded => unloaded',
         ~unloaded' => \A m \in handles' :
           /\ m \in handles
           /\ Listed(m) => Listed(m)' \/ InResults(m)'
           /\ InResults(m) => Listed(m)' \/ InResults(m)'
  PROVE  Remembered'
BY DEF Remembered

(* Only the frame on top of the base's has results.                        *)
LEMMA OnlyTopHasResults ==
  ASSUME IInv, NEW i \in 1..Len(stack), Base(stack[i]), NEW m, NEW k \in 1..Len(stack), i < k
  PROVE  ~HasResult(stack[k], m)
<1>1. Fresh(stack[k]) /\ ResultsNew(stack[k])
  BY Facts DEF Shape, BaseAboveFresh, Frames
<1>2. stack[k].at = "open" => stack[k].results = <<>>
  BY <1>1 DEF Fresh, ResultsNew
<1>3. \A j \in 1..Len(<<>>) : FALSE
  OBVIOUS
<1> QED
  BY <1>2, <1>3 DEF HasResult

(* Under a function of the base no loadMods has results.                    *)
LEMMA NoResultsBelow ==
  ASSUME IInv, stack # <<>>, Base(Top), NEW m, InResults(m)
  PROVE  HasResult(Top, m)
<1>1. Top = stack[1] /\ Len(stack) \in Nat /\ 1 \in 1..Len(stack)
  BY Facts, StackTop
<1>2. PICK k \in 1..Len(stack) : HasResult(stack[k], m)
  BY DEF InResults
<1>3. k = 1 \/ 1 < k
  BY <1>1
<1> QED
  BY <1>1, <1>2, <1>3, OnlyTopHasResults

(* The frame on top goes on and keeps its results, or has none.            *)
LEMMA ResultsStay ==
  ASSUME IInv, IInv', stack # <<>>, NEW f, NEW g, NEW m,
         \/ stack' = Tail(stack)
         \/ stack' = <<f>> \o Tail(stack)
         \/ stack' = <<g, f>> \o Tail(stack),
         HasResult(Top, m) => /\ HasResult(f, m)
                              /\ \/ stack' = <<f>> \o Tail(stack)
                                 \/ stack' = <<g, f>> \o Tail(stack),
         InResults(m)
  PROVE  InResults(m)'
<1>1. /\ stack \in Seq(FrameType) /\ stack' \in Seq(FrameType) /\ Tail(stack) \in Seq(FrameType)
      /\ Top = stack[1] /\ Top \in FrameType /\ Len(stack) \in Nat
  BY Facts, StackTop DEF IInv, TypeOK
<1>2. PICK k \in 1..Len(stack) : HasResult(stack[k], m)
  BY DEF InResults
<1>3. \E i \in 1..Len(stack') : HasResult(stack'[i], m)
  <2>1. CASE stack' = Tail(stack) /\ ~HasResult(Top, m)
    <3>1. k \in 2..Len(stack)
      BY <1>1, <1>2, <2>1
    <3>2. \E i \in 1..Len(stack') : stack'[i] = stack[k]
      BY <1>1, <2>1, <3>1, Neighbours
    <3> QED
      BY <1>2, <3>2
  <2>2. CASE stack' = <<f>> \o Tail(stack)
    <3>1. f \in FrameType
      BY <1>1, <2>2, FirstTyped
    <3>2. Len(stack') = Len(stack) /\ stack'[1] = f
      BY <1>1, <2>2, <3>1, Replaced
    <3>3. CASE k = 1
      BY <1>1, <1>2, <3>2, <3>3
    <3>4. CASE k \in 2..Len(stack)
      <4>1. \E i \in 1..Len(stack') : stack'[i] = stack[k]
        BY <1>1, <2>2, <3>1, <3>4, Neighbours
      <4> QED
        BY <1>2, <4>1
    <3> QED
      BY <1>1, <3>3, <3>4
  <2>3. CASE stack' = <<g, f>> \o Tail(stack)
    <3>1. f \in FrameType /\ g \in FrameType
      BY <1>1, <2>3, FirstTyped
    <3>2. Len(stack') = Len(stack) + 1 /\ stack'[2] = f /\ 2 \in 1..Len(stack')
      BY <1>1, <2>3, <3>1, CalledFrom
    <3>3. CASE k = 1
      BY <1>1, <1>2, <3>2, <3>3
    <3>4. CASE k \in 2..Len(stack)
      <4>1. \E i \in 1..Len(stack') : stack'[i] = stack[k]
        BY <1>1, <2>3, <3>1, <3>4, Neighbours
      <4> QED
        BY <1>2, <4>1
    <3> QED
      BY <1>1, <3>3, <3>4
  <2> QED
    BY <2>1, <2>2, <2>3
<1> QED
  BY <1>3 DEF InResults

(* The steps that change neither the lists nor the handles.                *)
LEMMA QuietRemembers ==
  ASSUME IInv, IInv', Remembered, stack # <<>>,
         UNCHANGED <<loaded, handles>>, unloaded => unloaded',
         \/ Top.at # "open" /\ \E f, g : \/ stack' = Tail(stack)
                                         \/ stack' = <<f>> \o Tail(stack)
                                         \/ stack' = <<g, f>> \o Tail(stack)
         \/ Top.at = "open" /\ \E f, g : /\ \A m : HasResult(Top, m) => HasResult(f, m)
                                         /\ \/ stack' = <<f>> \o Tail(stack)
                                            \/ stack' = <<g, f>> \o Tail(stack)
  PROVE  Remembered'
<1>2. \A m : Listed(m) => Listed(m)'
  BY DEF Listed
<1>3. Len(stack') \in Nat /\ stack \in Seq(FrameType)
  BY Facts DEF IInv, TypeOK
<1>4. ASSUME NEW m, InResults(m) PROVE InResults(m)'
  <2>1. CASE Top.at # "open"
    <3>1. PICK f, g : \/ stack' = Tail(stack)
                      \/ stack' = <<f>> \o Tail(stack)
                      \/ stack' = <<g, f>> \o Tail(stack)
      BY <2>1
    <3>2. ~HasResult(Top, m)
      BY <2>1 DEF HasResult
    <3> QED
      BY <1>4, <3>1, <3>2, ResultsStay
  <2>2. CASE Top.at = "open"
    <3>1. PICK f, g : /\ \A x : HasResult(Top, x) => HasResult(f, x)
                      /\ \/ stack' = <<f>> \o Tail(stack)
                         \/ stack' = <<g, f>> \o Tail(stack)
      BY <2>2
    <3> QED
      BY <1>4, <3>1, ResultsStay
  <2> QED
    BY <2>1, <2>2
<1> QED
  BY <1>2, <1>4, StillRemembered

(* Steps that leave the lists and the results alone.                        *)
LEMMA LoopsRemember ==
  ASSUME IInv, IInv', Remembered,
         \/ ForBegin \/ ForNext \/ ForEnd \/ RequireNext \/ RequireEnd
         \/ CloseCall \/ ReturnUnload \/ setup_unity_hook
  PROVE  Remembered'
<1>1. /\ stack # <<>> /\ Top.at \in {"for", "require", "close", "call", "setup_unity_hook"}
      /\ UNCHANGED <<loaded, handles, unloaded>>
  BY DEF ForBegin, ForNext, ForEnd, RequireNext, RequireEnd, CloseCall, ReturnUnload, setup_unity_hook,
         TopIs, UseStale, listVars, historyVars
<1>2. \E f, g : stack' = Tail(stack) \/ stack' = <<f>> \o Tail(stack) \/ stack' = <<g, f>> \o Tail(stack)
  <2>1. ~UseStale
    BY DEF UseStale, IInv
  <2> QED
    BY <2>1 DEF ForBegin, ForNext, ForEnd, RequireNext, RequireEnd, CloseCall, ReturnUnload,
                setup_unity_hook, Advance, CallFrom, Pop
<1> QED
  BY <1>1, <1>2, QuietRemembers

(* Results that are appended come after those there are.                   *)
LEMMA ResultsGrow ==
  ASSUME NEW f, NEW h, NEW r \in LoadResult, f.results \in Seq(LoadResult), h.at = "open",
         h.results = Append(f.results, r)
  PROVE  /\ \A m : HasResult(f, m) => HasResult(h, m)
         /\ r.ok => HasResult(h, Handle(r))
<1> DEFINE s == f.results
           t == Append(s, r)
<1>1. /\ Len(s) \in Nat /\ Len(t) = Len(s) + 1 /\ t[Len(s) + 1] = r
      /\ \A i \in 1..Len(s) : i \in 1..Len(t) /\ t[i] = s[i]
  OBVIOUS
<1> HIDE DEF t
<1>2. h.results = t
  BY DEF t
<1>3. Len(s) + 1 \in 1..Len(t)
  BY <1>1
<1> QED
  BY <1>1, <1>2, <1>3 DEF HasResult, Gives

(* loadMods goes on.                                                       *)
LEMMA OpensRemember ==
  ASSUME IInv, IInv', Remembered, OpenBegin \/ OpenNext
  PROVE  Remembered'
<1>1. stack # <<>> /\ Top.at = "open" /\ UNCHANGED <<loaded, handles, unloaded>>
  BY OpenSteps DEF OpenBegin, TopIs, historyVars
<1>2. Top \in OpenFrameType
  BY <1>1, Facts, StackTop, FrameKinds
<1> DEFINE Keeps(f) == \A m : HasResult(Top, m) => HasResult(f, m)
<1>3. \A f : f.at = "open" /\ f.results = Top.results => Keeps(f)
  BY DEF HasResult
<1>4. \E f, g : Keeps(f) /\ (stack' = <<f>> \o Tail(stack) \/ stack' = <<g, f>> \o Tail(stack))
  <2>1. CASE OpenBegin
    BY <1>2, <1>3, <2>1, OpenFrames DEF OpenBegin, Advance
  <2>2. CASE OpenNext
    <3>1. Top.mods # <<>> /\ Top.mods \in Seq(Mod)
      BY <1>2, <2>2, OpenSteps, OpenFrames
    <3>2. Keeps(Top)
      OBVIOUS
    <3> HIDE DEF Keeps
    <3>3. CASE NextMod
      <4>1. Head(Top.mods) \in Mod
        BY <3>1
      <4>2. Sorted[Head(Top.mods)] \in Seq(Mod)
        BY <4>1, ModAssumption
      <4> QED
        BY <1>2, <1>3, <3>1, <3>3, <4>2, OpenFramesNext DEF NextMod, Advance
    <3>4. CASE SkipDependency
      BY <1>2, <1>3, <3>4, OpenFramesNext DEF SkipDependency, Advance
    <3>5. CASE OpenLibrary
      <4> DEFINE r == FailedMod(Opening(Top), RoleOf(Top))
                 f == Recorded(Top, r)
      <4>1. r \in LoadResult
        <5>1. RoleOf(Top) \in Role
          BY DEF RoleOf, Role
        <5>2. Top.deps \in Seq(Mod)
          BY <1>2, OpenFrames
        <5>3. Opening(Top) \in Mod
          BY <3>1, <5>2 DEF Opening
        <5> QED
          BY <5>1, <5>3, ResultsMade
      <4> HIDE DEF r
      <4>2. f.at = "open" /\ f.results = Append(Top.results, r) /\ Top.results \in Seq(LoadResult)
        <5>1. f.at = "open" /\ f.results = Append(Top.results, r)
          BY <1>2, <3>1, <4>1, OpenFramesResult
        <5> QED
          BY <1>2, <5>1, OpenFrames
      <4> HIDE DEF f
      <4>3. Keeps(f)
        BY <4>1, <4>2, ResultsGrow DEF Keeps
      <4>4. \/ stack' = <<f>> \o Tail(stack)
            \/ \E m : stack' = <<CallFrame("ctor", m, Top.list, 0), Top>> \o Tail(stack)
        BY <3>5 DEF OpenLibrary, Advance, CallFrom, f, r
      <4> QED
        BY <3>2, <4>3, <4>4
    <3> QED
      BY <2>2, <3>3, <3>4, <3>5 DEF OpenNext
  <2> QED
    BY <2>1, <2>2
<1> QED
  BY <1>1, <1>4, QuietRemembers

(* A frame without results goes away.                                      *)
LEMMA PopKeepsResults ==
  ASSUME IInv, IInv', stack # <<>>, Top.at # "open", stack' = Tail(stack), NEW m, InResults(m)
  PROVE  InResults(m)'
<1>1. ~HasResult(Top, m)
  BY DEF HasResult
<1> QED
  BY <1>1, ResultsStay

(* A callback returns: the objects in the lists are the same.              *)
LEMMA FlaggedRemembers ==
  ASSUME IInv, IInv', Remembered, ReturnFlagged
  PROVE  Remembered'
<1>1. /\ stack # <<>> /\ Top.at = "call" /\ Top.fn # "ctor"
      /\ loaded' = [loaded EXCEPT ![Top.list][Top.pos] = Marked(@, Top.fn, Top.mod)]
      /\ stack' = Tail(stack)
      /\ UNCHANGED <<handles, unloaded>>
  BY DEF ReturnFlagged, TopIs, UseStale, Pop, IInv
<1>2. Top.list \in OpenedPhases /\ Holds(Top.list, Top.pos)
  BY <1>1, Facts, StackTop, FrameKinds, CallFrames DEF InPlace
<1>3. ASSUME NEW m, Listed(m) PROVE Listed(m)'
  <2>1. PICK list \in OpenedPhases : \E i \in 1..Len(loaded[list]) : Gives(loaded[list][i], m)
    BY <1>3 DEF Listed
  <2>2. PICK i \in 1..Len(loaded[list]) : Gives(loaded[list][i], m)
    BY <2>1
  <2>3. Len(loaded'[list]) = Len(loaded[list])
    BY <1>1, <1>2, Facts
  <2>4. loaded[list][i] \in LoadResult
    BY Facts
  <2>5. loaded'[list][i] = loaded[list][i] \/ loaded'[list][i] = Marked(loaded[list][i], Top.fn, Top.mod)
    BY <1>1, <1>2, Facts
  <2>6. /\ loaded'[list][i].mod = loaded[list][i].mod /\ loaded'[list][i].as = loaded[list][i].as
        /\ loaded'[list][i].ok = loaded[list][i].ok
    BY <2>4, <2>5 DEF Marked, LoadResult
  <2>7. Gives(loaded'[list][i], m)
    BY <2>2, <2>6 DEF Gives, Handle
  <2> QED
    BY <2>3, <2>7 DEF Listed
<1>4. \A m : InResults(m) => InResults(m)'
  BY <1>1, PopKeepsResults
<1> QED
  BY <1>1, <1>3, <1>4, StillRemembered

(* force_unload takes out of its list what it has closed.                  *)
LEMMA DlcloseRemembers ==
  ASSUME IInv, IInv', Remembered, Dlclose
  PROVE  Remembered'
<1> DEFINE h0 == Handle(loaded[Top.list][Top.pos])
<1>1. /\ stack # <<>> /\ Top.at = "close" /\ stack' = Tail(stack)
      /\ UNCHANGED unloaded
      /\ \/ UNCHANGED <<handles, loaded>>
         \/ /\ handles' = handles \ {h0}
            /\ loaded' = IF Top.by = "force_unload"
                         THEN [loaded EXCEPT ![Top.list] = WithoutAt(@, Top.pos)]
                         ELSE loaded
  BY DEF Dlclose, TopIs, UseStale, Pop, IInv
<1>2. /\ Top = stack[1] /\ Len(stack) \in Nat /\ 1 \in 1..Len(stack) /\ InPlace(Top)
      /\ Top.list \in OpenedPhases /\ Holds(Top.list, Top.pos)
      /\ Top.by \in {"force_unload", "close_all"}
  BY <1>1, Facts, StackTop, FrameKinds DEF InPlace, CloseFrameType
<1>3. \A m : InResults(m) => InResults(m)'
  BY <1>1, PopKeepsResults
<1>4. CASE UNCHANGED <<handles, loaded>>
  BY <1>1, <1>3, <1>4, StillRemembered DEF Listed
<1>5. CASE Top.by = "close_all"
  <2>1. unloaded
    BY <1>1, <1>2, <1>5, Facts DEF Shape, ErasesAlone, TornDown
  <2> QED
    BY <1>1, <2>1 DEF Remembered
<1>6. CASE /\ handles' = handles \ {h0}
           /\ loaded' = [loaded EXCEPT ![Top.list] = WithoutAt(@, Top.pos)]
  <2> DEFINE s == loaded[Top.list]
             t == WithoutAt(s, Top.pos)
  <2>1. s \in Seq(LoadResult) /\ Top.pos \in 1..Len(s)
    BY <1>2, Facts DEF Holds
  <2>2. /\ Len(s) \in Nat /\ Len(t) = Len(s) - 1
        /\ \A i \in 1..(Len(s) - 1) : t[i] = s[IF i < Top.pos THEN i ELSE i + 1]
    BY <2>1, WithoutOne
  <2>3. loaded'[Top.list] = t /\ \A list \in OpenedPhases : list # Top.list => loaded'[list] = loaded[list]
    BY <1>2, <1>6, Facts
  <2> HIDE DEF t
  <2>4. \A i \in 1..Len(s) : i # Top.pos => \E j \in 1..Len(t) : t[j] = s[i]
    <3> SUFFICES ASSUME NEW i \in 1..Len(s), i # Top.pos PROVE \E j \in 1..Len(t) : t[j] = s[i]
      OBVIOUS
    <3>1. CASE i < Top.pos
      <4>1. i \in 1..(Len(s) - 1)
        BY <2>1, <2>2, <3>1
      <4> QED
        BY <2>2, <3>1, <4>1
    <3>2. CASE ~(i < Top.pos)
      <4>1. i - 1 \in 1..(Len(s) - 1) /\ ~(i - 1 < Top.pos) /\ (i - 1) + 1 = i
        BY <2>1, <2>2, <3>2
      <4> QED
        BY <2>2, <4>1
    <3> QED
      BY <3>1, <3>2
  <2>5. ASSUME NEW m, m # h0, Listed(m) PROVE Listed(m)'
    <3>1. PICK list \in OpenedPhases : \E i \in 1..Len(loaded[list]) : Gives(loaded[list][i], m)
      BY <2>5 DEF Listed
    <3>2. PICK i \in 1..Len(loaded[list]) : Gives(loaded[list][i], m)
      BY <3>1
    <3>3. \E j \in 1..Len(loaded'[list]) : loaded'[list][j] = loaded[list][i]
      <4>1. CASE list = Top.list
        BY <2>3, <2>4, <2>5, <3>2, <4>1 DEF Gives
      <4>2. CASE list # Top.list
        BY <2>3, <4>2
      <4> QED
        BY <4>1, <4>2
    <3> QED
      BY <3>2, <3>3 DEF Listed
  <2>6. \A m \in handles' : m \in handles /\ m # h0
    BY <1>6
  <2> QED
    BY <1>1, <1>3, <2>5, <2>6, StillRemembered
<1> QED
  BY <1>1, <1>2, <1>4, <1>5, <1>6

(* The teardown forgets everything.                                        *)
LEMMA ClearRemembers ==
  ASSUME IInv, FilledOnce, ClearLists
  PROVE  Remembered'
<1>1. stack # <<>> /\ Top.at = "clear" /\ unloaded' = unloaded
  BY DEF ClearLists, TopIs, historyVars
<1>2. Top = stack[1] /\ 1 \in 1..Len(stack)
  BY <1>1, Facts, StackTop
<1>3. Waits(14)
  BY <1>1, <1>2, StageOfPlain DEF Waits
<1> QED
  BY <1>1, <1>3 DEF FilledOnce, Remembered

(* loadMods is over: its results are the list.                             *)
LEMMA OpenEndRemembers ==
  ASSUME IInv, Remembered, OpenEnd, loaded[Top.list] = <<>>
  PROVE  Remembered'
<1>1. /\ stack # <<>> /\ Top.at = "open"
      /\ UNCHANGED <<handles, unloaded>>
      /\ loaded' = [loaded EXCEPT ![Top.list] = Top.results]
  BY DEF OpenEnd, TopIs, historyVars
<1>2. Top.list \in OpenedPhases
  BY <1>1, Facts, StackTop, FrameKinds, OpenFrames
<1>3. loaded'[Top.list] = Top.results /\ \A list \in OpenedPhases : list # Top.list => loaded'[list] = loaded[list]
  BY <1>1, <1>2, Facts
<1>4. ASSUME NEW m, Listed(m) PROVE Listed(m)'
  <2>1. PICK list \in OpenedPhases : \E i \in 1..Len(loaded[list]) : Gives(loaded[list][i], m)
    BY <1>4 DEF Listed
  <2>2. \A i \in 1..Len(<<>>) : FALSE
    OBVIOUS
  <2>3. list # Top.list
    BY <2>1, <2>2
  <2> QED
    BY <1>3, <2>1, <2>3 DEF Listed
<1>5. ASSUME NEW m, InResults(m) PROVE Listed(m)'
  <2>1. HasResult(Top, m)
    BY <1>1, <1>5, NoResultsBelow DEF Base
  <2> QED
    BY <1>2, <1>3, <2>1 DEF HasResult, Listed
<1> QED
  BY <1>1, <1>4, <1>5, StillRemembered

(* The API is called.                                                      *)
LEMMA ApiRemembers ==
  ASSUME IInv, IInv', Remembered,
         \E request \in Requests : modloader_require_mod(request) \/ modloader_force_unload(request)
  PROVE  Remembered'
<1>1. UNCHANGED <<loaded, handles, unloaded>> /\ \E f : stack' = <<f>> \o stack
  BY DEF modloader_require_mod, modloader_force_unload, Push, listVars, historyVars
<1>2. PICK f : stack' = <<f>> \o stack
  BY <1>1
<1>3. stack \in Seq(FrameType) /\ f \in FrameType
  <2>1. stack \in Seq(FrameType) /\ stack' \in Seq(FrameType)
    BY DEF IInv, TypeOK
  <2> QED
    BY <1>2, <2>1, FirstTyped
<1>4. /\ Len(stack) \in Nat /\ Len(stack') = Len(stack) + 1
      /\ \A i \in 2..(Len(stack) + 1) : stack'[i] = stack[i - 1]
  BY <1>2, <1>3, Pushed
<1>5. ASSUME NEW m, InResults(m) PROVE InResults(m)'
  <2>1. PICK k \in 1..Len(stack) : HasResult(stack[k], m)
    BY <1>5 DEF InResults
  <2>2. k + 1 \in 2..(Len(stack) + 1) /\ k + 1 \in 1..(Len(stack) + 1) /\ (k + 1) - 1 = k
    BY <1>4
  <2>3. stack'[k + 1] = stack[k]
    BY <1>4, <2>2
  <2> QED
    BY <1>4, <2>1, <2>2, <2>3 DEF InResults
<1> QED
  BY <1>1, <1>5, StillRemembered DEF Listed

(* The host goes on: nothing was in progress but what DestroyObjectHighLevel *)
(* is called from.                                                         *)
LEMMA HostRemembers ==
  ASSUME IInv, Remembered, ~DestroyNests,
         \/ modloader_preload \/ modloader_load \/ modloader_accept_unity_handle \/ Il2cppInit
         \/ DestroyObject \/ OrigReturns \/ modloader_unload
  PROVE  Remembered'
<1>1. UNCHANGED <<loaded, handles>> /\ (unloaded => unloaded')
  BY DEF modloader_preload, modloader_load, modloader_accept_unity_handle, Il2cppInit,
         DestroyObject, OrigReturns, modloader_unload, hostVars, listVars, historyVars
<1>2. \A m : ~InResults(m)
  <2>1. CASE stack = <<>>
    BY <2>1 DEF InResults
  <2>2. CASE stack # <<>> /\ Top.at = "orig"
    BY <2>2, NoResultsBelow DEF Base, HasResult
  <2> QED
    BY <2>1, <2>2 DEF modloader_preload, modloader_load, modloader_accept_unity_handle, Il2cppInit,
         DestroyObject, OrigReturns, modloader_unload, Idle, TopIs
<1> QED
  BY <1>1, <1>2, StillRemembered DEF Listed

(* dlopen returns: the object is a result of the loadMods below.           *)
LEMMA CtorRemembers ==
  ASSUME IInv, IInv', Remembered, ReturnCtor
  PROVE  Remembered'
<1> DEFINE below == stack[2]
           r == LoadedMod(Top.mod, RoleOf(below))
           h == Recorded(below, r)
           rest == Tail(Tail(stack))
<1>1. /\ stack # <<>> /\ Top.at = "call" /\ Top = stack[1] /\ Top.mod \in Mod
      /\ Len(stack) \in Nat /\ 2 \in 1..Len(stack)
      /\ below \in OpenFrameType /\ below.mods # <<>>
      /\ rest \in Seq(FrameType) /\ stack' = <<h>> \o rest
  BY CtorSteps
<1>2. handles' = handles \union {<<Top.mod, RoleOf(below)>>} /\ UNCHANGED <<loaded, unloaded>>
  BY DEF ReturnCtor
<1>3. stack \in Seq(FrameType)
  BY Facts
<1>4. below.results \in Seq(LoadResult)
  BY <1>1, OpenFrames
<1>5. r \in LoadResult /\ Handle(r) = <<Top.mod, RoleOf(below)>> /\ r.ok
  <2>1. RoleOf(below) \in Role
    BY DEF RoleOf, Role
  <2> HIDE DEF below
  <2> QED
    BY <1>1, <2>1, ResultsMade DEF Handle
<1>6. h \in FrameType /\ h.at = "open" /\ h.results = Append(below.results, r)
  <2> HIDE DEF r, below
  <2> QED
    BY <1>1, <1>5, OpenFramesResult DEF FrameType
<1> HIDE DEF r
<1>7. (\A m : HasResult(below, m) => HasResult(h, m)) /\ HasResult(h, <<Top.mod, RoleOf(below)>>)
  <2>1. (\A m : HasResult(below, m) => HasResult(h, m)) /\ HasResult(h, Handle(r))
    <3> HIDE DEF below, h
    <3> QED
      BY <1>4, <1>5, <1>6, ResultsGrow
  <2> QED
    BY <1>5, <2>1
<1> HIDE DEF h
<1>8. /\ Len(stack') = Len(stack) - 1 /\ stack'[1] = h
      /\ \A i \in 2..(Len(stack) - 1) : stack'[i] = stack[i + 1]
  <2>1. /\ Tail(stack) \in Seq(FrameType) /\ Len(Tail(stack)) = Len(stack) - 1
        /\ \A i \in 1..(Len(stack) - 1) : Tail(stack)[i] = stack[i + 1]
    BY <1>1, <1>3, Popped
  <2>2. Tail(stack) # <<>>
    <3>1. Len(Tail(stack)) # 0 /\ Len(<<>>) = 0
      BY <1>1, <2>1
    <3> QED
      BY <3>1, Zenon
  <2>3. /\ Len(stack') = Len(Tail(stack)) /\ stack'[1] = h
        /\ \A i \in 2..Len(Tail(stack)) : stack'[i] = Tail(stack)[i]
    BY <1>1, <1>6, <2>1, <2>2, Replaced
  <2>4. \A i \in 2..(Len(stack) - 1) : i \in 1..(Len(stack) - 1)
    BY <1>1
  <2> QED
    BY <2>1, <2>3, <2>4
<1>9. 1 \in 1..Len(stack')
  BY <1>1, <1>8
<1>10. ASSUME NEW m, InResults(m) PROVE InResults(m)'
  <2>1. PICK k \in 1..Len(stack) : HasResult(stack[k], m)
    BY <1>10 DEF InResults
  <2>2. k # 1
    BY <1>1, <2>1 DEF HasResult
  <2>3. CASE k = 2
    BY <1>7, <1>8, <1>9, <2>1, <2>3 DEF InResults
  <2>4. CASE k # 2
    <3>1. k - 1 \in 2..(Len(stack) - 1) /\ k - 1 \in 1..(Len(stack) - 1) /\ (k - 1) + 1 = k
      BY <1>1, <2>2, <2>4
    <3>2. stack'[k - 1] = stack[k]
      BY <1>8, <3>1
    <3> QED
      BY <1>8, <2>1, <3>1, <3>2 DEF InResults
  <2> QED
    BY <2>3, <2>4
<1> SUFFICES ASSUME ~unloaded', NEW m \in handles' PROVE Listed(m)' \/ InResults(m)'
  BY DEF Remembered
<1>11. CASE m = <<Top.mod, RoleOf(below)>>
  <2>1. HasResult(stack'[1], m)
    BY <1>7, <1>8, <1>11
  <2> QED
    BY <1>9, <2>1 DEF InResults
<1>12. CASE m # <<Top.mod, RoleOf(below)>>
  <2>1. m \in handles
    BY <1>2, <1>12
  <2>2. Listed(m) \/ InResults(m)
    BY <1>2, <2>1 DEF Remembered
  <2>3. Listed(m) => Listed(m)'
    BY <1>2 DEF Listed
  <2> QED
    BY <1>10, <2>2, <2>3
<1> QED
  BY <1>11, <1>12

-----------------------------------------------------------------------------
(* The lists lose nothing: the invariant and its proof.                     *)
MInv == FilledOnce /\ DestroysOne /\ Remembered

(* MInv is inductive together with IInv and DInv.                           *)
LEMMA NextMInv ==
  ASSUME CallbacksDoNotUnload, ~DestroyNests
  PROVE  IInv /\ IInv' /\ DInv /\ MInv /\ [Next]_vars => MInv'
<1> SUFFICES ASSUME IInv, IInv', DInv, MInv, [Next]_vars PROVE MInv'
  OBVIOUS
<1>1. InStages /\ Progress /\ FilledOnce /\ DestroysOne /\ Remembered
  BY DEF DInv, MInv
<1>2. CASE Inner
  <2>1. FilledOnce'
    BY <1>1, <1>2, InnerFills
  <2>2. DestroysOne'
    BY <1>1, <1>2, InnerSettles, AsideDestroysOne
  <2>3. Remembered'
    BY <1>1, <1>2, LoopsRemember, OpensRemember, FlaggedRemembers, CtorRemembers, DlcloseRemembers,
       ApiRemembers DEF Inner
  <2> QED
    BY <2>1, <2>2, <2>3 DEF MInv
<1>3. CASE setup_unity_hook \/ OpenEnd \/ ForEnd \/ ClearLists
  <2>1. stack # <<>> /\ stack' = Tail(stack)
    BY <1>3 DEF setup_unity_hook, OpenEnd, ForEnd, ClearLists, TopIs, Pop
  <2>2. DestroysOne'
    BY <1>1, <2>1, PopsDestroyOne
  <2>3. FilledOnce'
    BY <1>1, <1>3, EndsFill, OpenEndFills
  <2>4. Remembered'
    BY <1>1, <1>3, LoopsRemember, OpenEndFills, OpenEndRemembers, ClearRemembers
  <2> QED
    BY <2>2, <2>3, <2>4 DEF MInv
<1>4. CASE UNCHANGED vars
  <2>1. FilledOnce'
    BY <1>1, <1>4, HostFills
  <2>2. UNCHANGED <<loaded, handles, unloaded, stack>>
    BY <1>4 DEF vars, listVars, historyVars
  <2>3. Remembered'
    BY <1>1, <2>2, StillRemembered DEF Listed, InResults
  <2>4. DestroysOne'
    BY <1>1, <2>2 DEF DestroysOne
  <2> QED
    BY <2>1, <2>3, <2>4 DEF MInv
<1>5. CASE \/ modloader_preload \/ modloader_load \/ modloader_accept_unity_handle \/ Il2cppInit
           \/ DestroyObject \/ OrigReturns \/ modloader_unload
  <2>1. Remembered'
    BY <1>1, <1>5, HostRemembers
  <2>2. CASE \/ (modloader_load /\ ~failed) \/ (Il2cppInit /\ "il2cpp_init" \in hooks)
             \/ DestroyObject \/ OrigReturns \/ (modloader_unload /\ ~failed)
    BY <1>1, <2>1, <2>2, StartsFill DEF MInv
  <2>3. CASE \/ modloader_preload \/ (modloader_load /\ failed) \/ modloader_accept_unity_handle
             \/ (Il2cppInit /\ "il2cpp_init" \notin hooks) \/ (modloader_unload /\ failed)
    <3>1. FilledOnce'
      BY <1>1, <2>3, HostFills
    <3>2. stack' = stack
      BY <2>3 DEF modloader_preload, modloader_load, modloader_accept_unity_handle, Il2cppInit,
                  modloader_unload
    <3>3. DestroysOne'
      BY <1>1, <3>2 DEF DestroysOne
    <3> QED
      BY <2>1, <3>1, <3>3 DEF MInv
  <2> QED
    BY <1>5, <2>2, <2>3
<1> QED
  BY <1>2, <1>3, <1>4, <1>5 DEF Next, Run, Start, Inner

(* It holds at the start.                                                  *)
LEMMA InitMInv == Init => MInv
<1> SUFFICES ASSUME Init PROVE MInv
  OBVIOUS
<1>1. /\ host = "start" /\ hooks = {} /\ Len(stack) = 0
      /\ loaded["Libs"] = <<>> /\ loaded["EarlyMods"] = <<>> /\ loaded["Mods"] = <<>>
      /\ \A list \in OpenedPhases : loaded[list] = <<>>
  BY DEF Init, OpenedPhases
<1>2. \A i \in 1..0 : FALSE
  OBVIOUS
<1>3. \A n : ~Waits(n)
  BY <1>1, <1>2 DEF Waits
<1>4. FilledOnce
  BY <1>1, <1>3 DEF FilledOnce
<1>5. DestroysOne
  BY <1>1, <1>2 DEF DestroysOne
<1>6. Remembered
  BY DEF Init, Remembered
<1> QED
  BY <1>4, <1>5, <1>6 DEF MInv

(* Between calls, every handle that dlopen has given is in a list until     *)
(* dlclose has taken it back.                                              *)
THEOREM Kept == ASSUME CallbacksDoNotUnload, ~DestroyNests PROVE Spec => []NothingForgotten
<1>1. IInv /\ IInv' /\ DInv /\ MInv /\ [Next]_vars => MInv'
  BY NextMInv
<1>2. IInv /\ MInv => NothingForgotten
  <2> SUFFICES ASSUME IInv, MInv, Idle, ~unloaded, NEW h \in handles
               PROVE  \E list \in OpenedPhases : \E i \in DOMAIN loaded[list] :
                        loaded[list][i].ok /\ Handle(loaded[list][i]) = h
    BY DEF NothingForgotten
  <2>1. Listed(h) \/ InResults(h)
    BY DEF MInv, Remembered
  <2>2. ~InResults(h)
    BY DEF Idle, InResults
  <2> QED
    BY <2>1, <2>2, Facts DEF Listed, Gives
<1> QED
  BY <1>1, <1>2, InitMInv, DeliveriesInductive, PTL DEF Spec

-----------------------------------------------------------------------------
(* Nothing is called of what is closed.                                    *)

(* No unload function calls the API, which finds in the lists what close_all *)
(* has closed.                                                             *)
UnloadsCallNothing == \A api \in Api : <<"unload", api>> \notin Reentrant

(* A frame of modloader_unload.                                            *)
TearsDown(f) ==
  /\ f.at \in {"for", "close", "call", "clear"}
  /\ f.at = "for" => f.fn = "close"
  /\ f.at = "call" => f.fn = "unload"

TeardownAlone == Waits(14) => \A i \in 1..Len(stack) : TearsDown(stack[i])

(* What closes all has the end of close_all below it.                      *)
ClosesAll(f) == (f.at = "for" /\ f.fn = "close") \/ (f.at = "close" /\ f.by = "close_all")

TeardownClears == \A i \in 1..Len(stack) : ClosesAll(stack[i]) => Waits(14)

(* A close has nothing above it but the unload it has called.              *)
ClosesOnTop ==
  \A i \in 1..Len(stack) : stack[i].at = "close" =>
    i = 1 \/ (i = 2 /\ stack[1].at = "call" /\ stack[1].fn = "unload")

(* The loop over the list of a close has gone past its place.              *)
LoopPast ==
  \A i, j \in 1..Len(stack) : stack[i].at = "close" /\ IsFor(stack[j], stack[i].list, "close") =>
    stack[i].pos < stack[j].pos

(* The frame will not close what is at the place.                          *)
Past(f, list, pos) ==
  f.at \in {"for", "close"} /\ f.list = list =>
    /\ f.at = "for" /\ f.fn = "close" => pos < f.pos
    /\ f.at = "close" => f.pos # pos

(* Only close_all leaves in a list what is closed, and does not come to it  *)
(* again.                                                                  *)
ClosedArePast ==
  \A list \in OpenedPhases : \A i \in 1..Len(loaded[list]) :
    loaded[list][i].ok /\ Handle(loaded[list][i]) \notin handles =>
      Waits(14) /\ \A k \in 1..Len(stack) : Past(stack[k], list, i)

Teardown == TeardownAlone /\ TeardownClears /\ ClosesOnTop /\ LoopPast

(* While something else is on top there is no teardown and no close.       *)
LEMMA NoTeardown ==
  ASSUME IInv, Teardown, stack = <<>> \/ ~TearsDown(Top)
  PROVE  ~Waits(14) /\ \A i \in 1..Len(stack) : stack[i].at # "close"
<1>1. CASE stack = <<>>
  BY <1>1 DEF Waits
<1>2. CASE stack # <<>> /\ ~TearsDown(Top)
  <2>1. Top = stack[1] /\ Len(stack) \in Nat /\ 1 \in 1..Len(stack)
    BY <1>2, Facts, StackTop
  <2>2. ~Waits(14)
    BY <1>2, <2>1 DEF Teardown, TeardownAlone
  <2> QED
    BY <1>2, <2>1, <2>2 DEF Teardown, ClosesOnTop, TearsDown
<1> QED
  BY <1>1, <1>2

(* A frame that has nothing to do with a teardown.                         *)
Builds(f) ==
  \/ f.at \in {"open", "call", "require", "orig", "setup_unity_hook"}
  \/ f.at = "for" /\ f.fn \in Flags

(* With such frames only there is no teardown.                             *)
LEMMA BuildsKeep ==
  ASSUME ~Waits(14), ~Waits(14)', TeardownClears,
         \A i \in 1..Len(stack) : stack[i].at # "close",
         \A i \in 1..Len(stack') : Builds(stack'[i]) \/ \E k \in 1..Len(stack) : stack'[i] = stack[k]
  PROVE  Teardown'
<1>1. \A f : Builds(f) => f.at # "close" /\ ~ClosesAll(f)
  BY DEF Builds, ClosesAll, Flags
<1>2. \A i \in 1..Len(stack) : ~ClosesAll(stack[i])
  BY DEF TeardownClears
<1>3. \A i \in 1..Len(stack') : stack'[i].at # "close" /\ ~ClosesAll(stack'[i])
  BY <1>1, <1>2
<1> QED
  BY <1>3 DEF Teardown, TeardownAlone, TeardownClears, ClosesOnTop, LoopPast

(* The steps of what is in progress that build.                            *)
LEMMA InnerBuilds ==
  ASSUME IInv, IInv', InStages, Teardown, Inner, stack # <<>> => ~TearsDown(Top),
         \A i \in 1..Len(stack') : Builds(stack'[i]) \/ \E k \in 1..Len(stack) : stack'[i] = stack[k]
  PROVE  Teardown'
<1>1. ~Waits(14) /\ \A i \in 1..Len(stack) : stack[i].at # "close"
  BY NoTeardown
<1>2. ~Waits(14)'
  BY <1>1, InnerSettles, AsideWaits
<1> QED
  BY <1>1, <1>2, BuildsKeep DEF Teardown

(* The frame on top goes away, goes on, or goes on and calls g.            *)
LEMMA TopBuilds ==
  ASSUME IInv, IInv', stack # <<>>, NEW f, NEW g,
         \/ stack' = Tail(stack)
         \/ stack' = <<f>> \o Tail(stack) /\ Builds(f)
         \/ stack' = <<g, f>> \o Tail(stack) /\ Builds(f) /\ Builds(g)
  PROVE  \A i \in 1..Len(stack') : Builds(stack'[i]) \/ \E k \in 1..Len(stack) : stack'[i] = stack[k]
<1>1. stack \in Seq(FrameType) /\ stack' \in Seq(FrameType) /\ Tail(stack) \in Seq(FrameType)
      /\ Top \in FrameType
  BY Facts, StackTop DEF IInv, TypeOK
<1>2. CASE stack' = Tail(stack)
  BY <1>1, <1>2, Neighbours
<1>3. CASE stack' = <<f>> \o Tail(stack) /\ Builds(f)
  <2>1. f \in FrameType
    BY <1>1, <1>3, FirstTyped
  <2>2. \A i \in 1..Len(stack') : stack'[i] = f \/ \E k \in 1..Len(stack) : stack'[i] = stack[k]
    BY <1>1, <1>3, <2>1, Neighbours
  <2> QED
    BY <1>3, <2>2
<1>4. CASE stack' = <<g, f>> \o Tail(stack) /\ Builds(f) /\ Builds(g)
  <2>1. f \in FrameType /\ g \in FrameType
    BY <1>1, <1>4, FirstTyped
  <2>2. \A i \in 1..Len(stack') : stack'[i] = f \/ stack'[i] = g \/ \E k \in 1..Len(stack) : stack'[i] = stack[k]
    BY <1>1, <1>4, <2>1, Neighbours
  <2> QED
    BY <1>4, <2>2
<1> QED
  BY <1>2, <1>3, <1>4

(* The loops that build, loadMods and modloader_require_mod.               *)
LEMMA LoopsBuild ==
  ASSUME IInv, IInv', InStages, Teardown,
         \/ OpenBegin \/ OpenNext \/ RequireNext \/ RequireEnd \/ ReturnFlagged
         \/ (ForBegin /\ Top.fn # "close") \/ (ForNext /\ Top.fn # "close")
  PROVE  Teardown'
<1>1. stack # <<>> /\ ~TearsDown(Top) /\ ~UseStale
  <2>1. OpenNext => stack # <<>> /\ Top.at = "open"
    BY OpenSteps
  <2> QED
    BY <2>1 DEF OpenBegin, RequireNext, RequireEnd, ReturnFlagged, ForBegin, ForNext, TopIs, TearsDown,
                UseStale, IInv
<1>2. Top \in FrameType
  BY <1>1, Facts, StackTop
<1>3. \A fn, m, list, pos : Builds(CallFrame(fn, m, list, pos))
  BY DEF Builds, CallFrame
<1>4. \E f, g : \/ stack' = Tail(stack)
                \/ stack' = <<f>> \o Tail(stack) /\ Builds(f)
                \/ stack' = <<g, f>> \o Tail(stack) /\ Builds(f) /\ Builds(g)
  <2>1. CASE OpenBegin \/ OpenNext
    <3>1. \A f : f.at = "open" => Builds(f)
      BY DEF Builds
    <3>2. CASE OpenBegin
      <4>1. Top \in OpenFrameType
        BY <1>2, <3>2, FrameKinds DEF OpenBegin, TopIs
      <4>2. [Top EXCEPT !.begun = TRUE].at = "open"
        BY <4>1, OpenFrames
      <4> QED
        BY <3>1, <3>2, <4>2 DEF OpenBegin, Advance
    <3>3. CASE OpenNext
      BY <1>3, <3>1, <3>3, OpenSteps
    <3> QED
      BY <2>1, <3>2, <3>3
  <2>2. CASE RequireNext \/ RequireEnd \/ ReturnFlagged
    <3> DEFINE f == [Top EXCEPT !.todo = Tail(@)]
    <3>1. Top.at = "require" => f.at = "require"
      BY <1>2, FrameKinds DEF RequireFrameType
    <3>2. Top.at = "require" => Builds(f)
      BY <3>1 DEF Builds
    <3> HIDE DEF f
    <3>3. \/ stack' = Tail(stack)
          \/ Top.at = "require" /\ stack' = <<f>> \o Tail(stack)
          \/ /\ Top.at = "require"
             /\ \E fn, m, list, pos : stack' = <<CallFrame(fn, m, list, pos), f>> \o Tail(stack)
      BY <1>1, <2>2 DEF RequireNext, RequireEnd, ReturnFlagged, TopIs, Pop, Advance, CallFrom, f
    <3> QED
      BY <1>3, <3>2, <3>3
  <2>3. CASE ForBegin /\ Top.fn # "close"
    <3> DEFINE f == [Top EXCEPT !.pos = 1, !.end = Len(loaded[Top.list])]
    <3>1. Top \in ForFrameType
      BY <1>2, <2>3, FrameKinds DEF ForBegin, TopIs
    <3>2. f.at = "for" /\ f.fn = Top.fn /\ Top.fn \in Flags
      BY <2>3, <3>1 DEF ForFrameType
    <3>3. stack' = <<f>> \o Tail(stack)
      BY <2>3 DEF ForBegin, Advance
    <3> HIDE DEF f
    <3> QED
      BY <3>2, <3>3 DEF Builds
  <2>4. CASE ForNext /\ Top.fn # "close"
    <3> DEFINE f == [Top EXCEPT !.pos = @ + 1]
    <3>1. Top \in ForFrameType
      BY <1>2, <2>4, FrameKinds DEF ForNext, TopIs
    <3>2. f.at = "for" /\ f.fn = Top.fn /\ Top.fn \in Flags
      BY <2>4, <3>1 DEF ForFrameType
    <3> HIDE DEF f
    <3>3. \/ stack' = <<f>> \o Tail(stack)
          \/ \E fn, m, list, pos : stack' = <<CallFrame(fn, m, list, pos), f>> \o Tail(stack)
      BY <1>1, <2>4 DEF ForNext, Advance, CallFrom, f
    <3> QED
      BY <1>3, <3>2, <3>3 DEF Builds
  <2> QED
    BY <2>1, <2>2, <2>3, <2>4
<1>5. \A i \in 1..Len(stack') : Builds(stack'[i]) \/ \E k \in 1..Len(stack) : stack'[i] = stack[k]
  BY <1>1, <1>4, TopBuilds
<1>6. Inner
  BY DEF Inner
<1> QED
  BY <1>1, <1>5, <1>6, InnerBuilds

(* dlopen returns.                                                         *)
LEMMA CtorBuilds ==
  ASSUME IInv, IInv', InStages, Teardown, ReturnCtor
  PROVE  Teardown'
<1> DEFINE h == Recorded(stack[2], LoadedMod(Top.mod, RoleOf(stack[2])))
<1>1. /\ stack # <<>> /\ Top.at = "call" /\ Top.fn = "ctor" /\ stack' = <<h>> \o Tail(Tail(stack))
      /\ Len(stack) \in Nat /\ 2 \in 1..Len(stack)
      /\ Tail(Tail(stack)) \in Seq(FrameType) /\ h.at = "open"
  BY CtorSteps
<1>2. stack \in Seq(FrameType) /\ stack' \in Seq(FrameType)
  BY Facts DEF IInv, TypeOK
<1>3. Builds(h)
  BY <1>1 DEF Builds
<1> HIDE DEF h
<1>4. /\ Tail(stack) \in Seq(FrameType) /\ Len(Tail(stack)) = Len(stack) - 1
      /\ \A i \in 1..(Len(stack) - 1) : Tail(stack)[i] = stack[i + 1]
  BY <1>1, <1>2, Popped
<1>5. Tail(stack) # <<>>
  <2>1. Len(Tail(stack)) # 0 /\ Len(<<>>) = 0
    BY <1>1, <1>4
  <2> QED
    BY <2>1, Zenon
<1>6. h \in FrameType
  BY <1>1, <1>2, FirstTyped
<1>7. /\ Len(stack') = Len(Tail(stack)) /\ stack'[1] = h
      /\ \A i \in 2..Len(Tail(stack)) : stack'[i] = Tail(stack)[i]
  BY <1>1, <1>4, <1>5, <1>6, Replaced
<1>8. ASSUME NEW i \in 1..Len(stack')
      PROVE  Builds(stack'[i]) \/ \E k \in 1..Len(stack) : stack'[i] = stack[k]
  <2>1. i = 1 \/ (i \in 2..Len(Tail(stack)) /\ i \in 1..(Len(stack) - 1) /\ i + 1 \in 1..Len(stack))
    BY <1>1, <1>4, <1>7
  <2> QED
    BY <1>3, <1>4, <1>7, <2>1
<1>9. ~TearsDown(Top) /\ Inner
  BY <1>1 DEF TearsDown, Inner
<1> QED
  BY <1>8, <1>9, InnerBuilds

(* The API is called, which an unload does not do.                         *)
LEMMA ApiBuilds ==
  ASSUME CallbacksDoNotUnload, UnloadsCallNothing, IInv, IInv', InStages, Teardown,
         \E request \in Requests : modloader_require_mod(request) \/ modloader_force_unload(request)
  PROVE  Teardown'
<1>1. PICK request \in Requests : modloader_require_mod(request) \/ modloader_force_unload(request)
  OBVIOUS
<1>2. Inner
  BY <1>1 DEF Inner
<1>3. stack \in Seq(FrameType) /\ Len(stack) \in Nat
  BY Facts
<1>4. CASE modloader_require_mod(request)
  <2>1. stack # <<>> => ~TearsDown(Top)
    BY <1>4 DEF modloader_require_mod, MayCall, UnloadsCallNothing, Api, TearsDown
  <2>2. PICK f : f.at = "require" /\ stack' = <<f>> \o stack
    BY <1>4 DEF modloader_require_mod, Push, RequireFrame
  <2>3. f \in FrameType
    BY <1>3, <2>2, FirstTyped DEF IInv, TypeOK
  <2>4. /\ Len(stack') = Len(stack) + 1 /\ stack'[1] = f
        /\ \A i \in 2..(Len(stack) + 1) : stack'[i] = stack[i - 1]
    BY <1>3, <2>2, <2>3, Pushed
  <2>5. ASSUME NEW i \in 1..Len(stack')
        PROVE  Builds(stack'[i]) \/ \E k \in 1..Len(stack) : stack'[i] = stack[k]
    <3>1. i = 1 \/ (i \in 2..(Len(stack) + 1) /\ i - 1 \in 1..Len(stack))
      BY <1>3, <2>4
    <3> QED
      BY <2>2, <2>4, <3>1 DEF Builds
  <2> QED
    BY <1>2, <2>1, <2>5, InnerBuilds
<1>5. CASE modloader_force_unload(request)
  <2>1. stack = <<>>
    <3>1. stack # <<>> => Top.at = "call" /\ <<Top.fn, "force_unload">> \in Reentrant
      BY <1>5 DEF modloader_force_unload, MayCall
    <3>2. stack # <<>> => Top.fn \in Callback
      BY <3>1, Facts, StackTop, FrameKinds, CallFrames
    <3> QED
      BY <3>1, <3>2 DEF CallbacksDoNotUnload
  <2>2. PICK f : f.at = "close" /\ f.by = "force_unload" /\ stack' = <<f>> \o stack
    BY <1>5 DEF modloader_force_unload, Push, CloseFrame
  <2>3. stack' = <<f>>
    BY <2>1, <2>2
  <2>4. Len(stack') = 1 /\ stack'[1] = f /\ \A i \in 1..Len(stack') : i = 1
    BY <2>3
  <2>5. ~IsFor(f, f.list, "close") /\ ~ClosesAll(f) /\ Stage(f) # 14
    BY <2>2, StageOfPlain DEF IsFor, ClosesAll
  <2> QED
    BY <2>4, <2>5 DEF Teardown, TeardownAlone, TeardownClears, ClosesOnTop, LoopPast, Waits
<1> QED
  BY <1>1, <1>4, <1>5

(* A function of the base comes to its end.                                *)
LEMMA EndsTearDown ==
  ASSUME IInv, InStages, Teardown, setup_unity_hook \/ OpenEnd \/ ForEnd \/ ClearLists
  PROVE  Teardown'
<1>1. stack # <<>> /\ Base(Top) /\ stack' = Tail(stack)
  BY DEF setup_unity_hook, OpenEnd, ForEnd, ClearLists, TopIs, Pop, Base
<1>2. PICK n \in 1..14 : n = Stage(Top)
  BY <1>1, BasePops
<1>3. /\ \A i \in 1..Len(stack') : \E k \in 2..Len(stack) : stack'[i] = stack[k] /\ Fresh(stack[k])
      /\ \A k \in 1..15 : k # n => (Waits(k)' <=> Waits(k))
      /\ \A k \in 1..15 : k < n => ~Waits(k)
      /\ Waits(n)
  BY <1>1, <1>2, BasePops
<1>4. Len(stack) \in Nat /\ \A k \in 2..Len(stack) : k \in 1..Len(stack)
  BY Facts
<1>5. \A i \in 1..Len(stack') : stack'[i].at # "close"
  BY <1>3 DEF Fresh
<1>6. TeardownAlone'
  <2>1. Waits(14)' => Waits(14)
    BY <1>3
  <2> SUFFICES ASSUME Waits(14)', NEW i \in 1..Len(stack') PROVE TearsDown(stack'[i])
    BY DEF TeardownAlone, TearsDown
  <2>2. PICK k \in 1..Len(stack) : stack'[i] = stack[k]
    BY <1>3, <1>4
  <2> QED
    BY <2>1, <2>2 DEF Teardown, TeardownAlone
<1>7. TeardownClears'
  <2> SUFFICES ASSUME NEW i \in 1..Len(stack'), ClosesAll(stack'[i]) PROVE Waits(14)'
    BY DEF TeardownClears
  <2>1. PICK k \in 1..Len(stack) : stack'[i] = stack[k] /\ Fresh(stack[k])
    BY <1>3, <1>4
  <2>2. Waits(14)
    BY <2>1 DEF Teardown, TeardownClears
  <2>3. stack[k].at = "for" /\ stack[k].fn = "close"
    BY <2>1 DEF ClosesAll, Fresh
  <2>4. Stage(stack[k]) \in {11, 12, 13}
    <3>1. Stage(stack[k]) \in {3, 4, 7, 8, 9, 11, 12, 13}
      BY <2>3, ForStages DEF InStages
    <3>2. Stage(stack[k]) \notin {3, 4, 7, 8, 9}
      BY <2>3, StageOfFor
    <3> QED
      BY <3>1, <3>2
  <2>5. n # 14
    <3>1. PICK m \in {11, 12, 13} : m = Stage(stack[k])
      BY <2>4
    <3>2. Waits(m) /\ m \in 1..15 /\ m < 14
      BY <3>1 DEF Waits
    <3> QED
      BY <1>3, <3>2
  <2> QED
    BY <1>3, <2>2, <2>5
<1> QED
  BY <1>5, <1>6, <1>7 DEF Teardown, ClosesOnTop, LoopPast

(* A teardown stays one by what its steps put on the stack.                *)
LEMMA TeardownKept ==
  ASSUME TeardownAlone, TeardownClears, Waits(14)' <=> Waits(14),
         \A i \in 1..Len(stack') :
           \/ \E k \in 1..Len(stack) : stack'[i] = stack[k]
           \/ /\ Waits(14) => TearsDown(stack'[i])
              /\ ClosesAll(stack'[i]) => Waits(14)
  PROVE  TeardownAlone' /\ TeardownClears'
BY DEF TeardownAlone, TeardownClears

(* A loop of close_all goes on, and closes.                                *)
LEMMA LoopsTearDown ==
  ASSUME IInv, IInv', InStages, Teardown, ForBegin \/ ForNext, Top.fn = "close"
  PROVE  Teardown'
<1>1. stack # <<>> /\ Top.at = "for" /\ ~UseStale /\ Inner
  BY DEF ForBegin, ForNext, TopIs, UseStale, IInv, Inner
<1>2. /\ Top = stack[1] /\ Top \in FrameType /\ Top \in ForFrameType /\ Len(stack) \in Nat
      /\ 1 \in 1..Len(stack) /\ Tail(stack) \in Seq(FrameType)
      /\ stack \in Seq(FrameType) /\ stack' \in Seq(FrameType)
  BY <1>1, Facts, StackTop, FrameKinds DEF IInv, TypeOK
<1>3. Waits(14) /\ Waits(14)'
  <2>1. Waits(14)
    BY <1>1, <1>2 DEF Teardown, TeardownClears, ClosesAll
  <2> QED
    BY <1>1, <2>1, InnerSettles, AsideWaits
<1>4. \A i \in 1..Len(stack) : stack[i].at # "close"
  BY <1>1, <1>2 DEF Teardown, ClosesOnTop
<1>5. ASSUME NEW k \in 1..Len(stack), 1 < k PROVE ~IsFor(stack[k], Top.list, "close")
  <2>1. Stage(stack[1]) \in {3, 4, 7, 8, 9, 11, 12, 13} /\ Stage(stack[1]) < Stage(stack[k])
    <3>1. Stage(stack[1]) \in {3, 4, 7, 8, 9, 11, 12, 13}
      BY <1>1, <1>2, ForStages DEF InStages
    <3> QED
      BY <1>2, <1>5, <3>1 DEF InStages
  <2>2. IsFor(stack[k], Top.list, "close") => Stage(stack[k]) = Stage(stack[1])
    BY <1>1, <1>2, SameStage DEF IsFor
  <2> QED
    BY <2>1, <2>2
<1>6. \E f : /\ f.at = "for" /\ f.fn = "close" /\ f.list = Top.list
             /\ \/ stack' = <<f>> \o Tail(stack)
                \/ /\ stack' = <<CloseFrame(Top.list, Top.pos, "close_all"), f>> \o Tail(stack)
                   /\ f.pos = Top.pos + 1
  <2>1. CASE ForBegin
    <3> DEFINE f == [Top EXCEPT !.pos = 1, !.end = Len(loaded[Top.list])]
    <3>1. f.at = "for" /\ f.fn = "close" /\ f.list = Top.list
      BY <1>2 DEF ForFrameType
    <3>2. stack' = <<f>> \o Tail(stack)
      BY <2>1 DEF ForBegin, Advance
    <3> HIDE DEF f
    <3> QED
      BY <3>1, <3>2
  <2>2. CASE ForNext
    <3> DEFINE f == [Top EXCEPT !.pos = @ + 1]
    <3>1. f.at = "for" /\ f.fn = "close" /\ f.list = Top.list /\ f.pos = Top.pos + 1
      BY <1>2, ForFramesNext
    <3>2. \/ stack' = <<f>> \o Tail(stack)
          \/ stack' = <<CloseFrame(Top.list, Top.pos, "close_all"), f>> \o Tail(stack)
      BY <1>1, <2>2 DEF ForNext, Advance, CallFrom, f
    <3> HIDE DEF f
    <3> QED
      BY <3>1, <3>2
  <2> QED
    BY <2>1, <2>2
<1>7. PICK f : /\ f.at = "for" /\ f.fn = "close" /\ f.list = Top.list
               /\ \/ stack' = <<f>> \o Tail(stack)
                  \/ /\ stack' = <<CloseFrame(Top.list, Top.pos, "close_all"), f>> \o Tail(stack)
                     /\ f.pos = Top.pos + 1
  BY <1>6
<1>8. TearsDown(f)
  BY <1>7 DEF TearsDown
<1>9. CASE stack' = <<f>> \o Tail(stack)
  <2>1. f \in FrameType
    BY <1>2, <1>9, FirstTyped
  <2>2. \A i \in 1..Len(stack') : stack'[i] = f \/ \E k \in 1..Len(stack) : stack'[i] = stack[k]
    BY <1>1, <1>2, <1>9, <2>1, Neighbours
  <2>3. TeardownAlone' /\ TeardownClears'
    BY <1>3, <1>8, <2>2, TeardownKept DEF Teardown
  <2>4. \A i \in 1..Len(stack') : stack'[i].at # "close"
    BY <1>4, <1>7, <2>2
  <2> QED
    BY <2>3, <2>4 DEF Teardown, ClosesOnTop, LoopPast
<1>10. CASE stack' = <<CloseFrame(Top.list, Top.pos, "close_all"), f>> \o Tail(stack) /\ f.pos = Top.pos + 1
  <2>1. PICK g : g = CloseFrame(Top.list, Top.pos, "close_all")
    OBVIOUS
  <2>2. g.at = "close" /\ g.list = Top.list /\ g.pos = Top.pos
    BY <2>1 DEF CloseFrame
  <2>3. f \in FrameType /\ g \in FrameType
    BY <1>2, <1>10, <2>1, FirstTyped
  <2>4. /\ Len(stack') = Len(stack) + 1 /\ stack'[1] = g /\ stack'[2] = f
        /\ \A i \in 3..(Len(stack) + 1) : stack'[i] = stack[i - 1]
    BY <1>1, <1>2, <1>10, <2>1, <2>3, CalledFrom
  <2>5. \A i \in 1..Len(stack') :
          i = 1 \/ i = 2 \/ (i \in 3..(Len(stack) + 1) /\ i - 1 \in 1..Len(stack) /\ 1 < i - 1)
    BY <1>2, <2>4
  <2>6. \A i \in 1..Len(stack') : stack'[i] = g \/ stack'[i] = f \/ \E k \in 1..Len(stack) : stack'[i] = stack[k]
    BY <2>4, <2>5
  <2>7. TearsDown(g)
    BY <2>2 DEF TearsDown
  <2>8. TeardownAlone' /\ TeardownClears'
    BY <1>3, <1>8, <2>6, <2>7, TeardownKept DEF Teardown
  <2>9. \A i \in 1..Len(stack') : stack'[i].at = "close" => i = 1
    BY <1>4, <1>7, <2>4, <2>5
  <2>10. \A j \in 1..Len(stack') : IsFor(stack'[j], Top.list, "close") => j = 2
    <3> SUFFICES ASSUME NEW j \in 1..Len(stack'), IsFor(stack'[j], Top.list, "close"), j # 2 PROVE FALSE
      OBVIOUS
    <3>1. j # 1
      BY <2>2, <2>4 DEF IsFor
    <3>2. stack'[j] = stack[j - 1] /\ j - 1 \in 1..Len(stack) /\ 1 < j - 1
      BY <2>4, <2>5, <3>1
    <3> QED
      BY <1>5, <3>2
  <2>11. g.pos < f.pos
    <3>1. Top.pos \in Nat
      BY <1>2, ForFrames
    <3> QED
      BY <1>10, <2>2, <3>1
  <2>12. LoopPast'
    <3> SUFFICES ASSUME NEW i \in 1..Len(stack'), NEW j \in 1..Len(stack'), stack'[i].at = "close",
                        IsFor(stack'[j], stack'[i].list, "close")
                 PROVE  stack'[i].pos < stack'[j].pos
      BY DEF LoopPast
    <3>1. i = 1
      BY <2>9
    <3>2. j = 2
      BY <2>2, <2>4, <2>10, <3>1
    <3> QED
      BY <2>4, <2>11, <3>1, <3>2
  <2> QED
    BY <2>8, <2>9, <2>12 DEF Teardown, ClosesOnTop
<1> QED
  BY <1>7, <1>9, <1>10

(* A close calls unload, and goes away.                                    *)
LEMMA CloseTearsDown ==
  ASSUME IInv, IInv', InStages, Teardown, CloseCall \/ Dlclose
  PROVE  Teardown'
<1>1. stack # <<>> /\ Top.at = "close" /\ ~UseStale /\ Inner
  BY DEF CloseCall, Dlclose, TopIs, UseStale, IInv, Inner
<1>2. /\ Top = stack[1] /\ Top \in FrameType /\ Top \in CloseFrameType /\ Len(stack) \in Nat
      /\ 1 \in 1..Len(stack) /\ Tail(stack) \in Seq(FrameType)
      /\ stack \in Seq(FrameType) /\ stack' \in Seq(FrameType)
  BY <1>1, Facts, StackTop, FrameKinds DEF IInv, TypeOK
<1>3. Waits(14)' <=> Waits(14)
  BY <1>1, InnerSettles, AsideWaits
<1>4. \A k \in 1..Len(stack) : 1 < k => stack[k].at # "close"
  BY <1>1, <1>2 DEF Teardown, ClosesOnTop
<1>5. \E f, g : /\ f.at = "close" /\ f.list = Top.list /\ f.pos = Top.pos /\ f.by = Top.by
                /\ g.at = "call" /\ g.fn = "unload"
                /\ \/ stack' = Tail(stack)
                   \/ stack' = <<f>> \o Tail(stack)
                   \/ stack' = <<g, f>> \o Tail(stack)
  <2> DEFINE f == [Top EXCEPT !.called = TRUE]
  <2>1. f.at = "close" /\ f.list = Top.list /\ f.pos = Top.pos /\ f.by = Top.by
    BY <1>2, CloseFrames
  <2>2. \A m, list, pos : LET g == CallFrame("unload", m, list, pos) IN g.at = "call" /\ g.fn = "unload"
    BY DEF CallFrame
  <2>3. \/ stack' = Tail(stack)
        \/ stack' = <<f>> \o Tail(stack)
        \/ \E m, list, pos : stack' = <<CallFrame("unload", m, list, pos), f>> \o Tail(stack)
    BY <1>1 DEF CloseCall, Dlclose, Pop, Advance, CallFrom, f
  <2> HIDE DEF f
  <2> QED
    BY <2>1, <2>2, <2>3
<1>6. PICK f, g : /\ f.at = "close" /\ f.list = Top.list /\ f.pos = Top.pos /\ f.by = Top.by
                  /\ g.at = "call" /\ g.fn = "unload"
                  /\ \/ stack' = Tail(stack)
                     \/ stack' = <<f>> \o Tail(stack)
                     \/ stack' = <<g, f>> \o Tail(stack)
  BY <1>5
<1>7. TearsDown(f) /\ TearsDown(g) /\ (ClosesAll(f) => Waits(14)) /\ ~ClosesAll(g)
  BY <1>1, <1>2, <1>6 DEF TearsDown, ClosesAll, Teardown, TeardownClears
<1>8. ASSUME NEW k \in 1..Len(stack), IsFor(stack[k], Top.list, "close") PROVE Top.pos < stack[k].pos
  BY <1>1, <1>2, <1>8 DEF Teardown, LoopPast
<1>9. CASE stack' = Tail(stack)
  <2>1. /\ Len(stack') = Len(stack) - 1
        /\ \A i \in 1..(Len(stack) - 1) : stack'[i] = stack[i + 1]
    BY <1>1, <1>2, <1>9, Popped
  <2>2. \A i \in 1..Len(stack') : i + 1 \in 1..Len(stack) /\ 1 < i + 1 /\ stack'[i] = stack[i + 1]
    BY <1>2, <2>1
  <2>3. TeardownAlone' /\ TeardownClears'
    BY <1>3, <2>2, TeardownKept DEF Teardown
  <2>4. \A i \in 1..Len(stack') : stack'[i].at # "close"
    BY <1>4, <2>2
  <2> QED
    BY <2>3, <2>4 DEF Teardown, ClosesOnTop, LoopPast
<1>10. CASE stack' = <<f>> \o Tail(stack)
  <2>1. f \in FrameType
    BY <1>2, <1>10, FirstTyped
  <2>2. /\ Len(stack') = Len(stack) /\ stack'[1] = f
        /\ \A i \in 2..Len(stack) : stack'[i] = stack[i]
    BY <1>1, <1>2, <1>10, <2>1, Replaced
  <2>3. \A i \in 1..Len(stack') : i = 1 \/ (i \in 2..Len(stack) /\ i \in 1..Len(stack) /\ 1 < i)
    BY <1>2, <2>2
  <2>4. \A i \in 1..Len(stack') : stack'[i] = f \/ \E k \in 1..Len(stack) : stack'[i] = stack[k]
    BY <2>2, <2>3
  <2>5. TeardownAlone' /\ TeardownClears'
    BY <1>3, <1>7, <2>4, TeardownKept DEF Teardown
  <2>6. \A i \in 1..Len(stack') : stack'[i].at = "close" => i = 1
    BY <1>4, <2>2, <2>3
  <2>7. LoopPast'
    <3> SUFFICES ASSUME NEW i \in 1..Len(stack'), NEW j \in 1..Len(stack'), stack'[i].at = "close",
                        IsFor(stack'[j], stack'[i].list, "close")
                 PROVE  stack'[i].pos < stack'[j].pos
      BY DEF LoopPast
    <3>1. stack'[i] = f
      BY <2>2, <2>6
    <3>2. j # 1
      BY <1>6, <2>2 DEF IsFor
    <3>3. stack'[j] = stack[j] /\ j \in 1..Len(stack)
      BY <2>2, <2>3, <3>2
    <3> QED
      BY <1>6, <1>8, <3>1, <3>3
  <2> QED
    BY <2>5, <2>6, <2>7 DEF Teardown, ClosesOnTop
<1>11. CASE stack' = <<g, f>> \o Tail(stack)
  <2>1. f \in FrameType /\ g \in FrameType
    BY <1>2, <1>11, FirstTyped
  <2>2. /\ Len(stack') = Len(stack) + 1 /\ stack'[1] = g /\ stack'[2] = f
        /\ \A i \in 3..(Len(stack) + 1) : stack'[i] = stack[i - 1]
    BY <1>1, <1>2, <1>11, <2>1, CalledFrom
  <2>3. \A i \in 1..Len(stack') :
          i = 1 \/ i = 2 \/ (i \in 3..(Len(stack) + 1) /\ i - 1 \in 1..Len(stack) /\ 1 < i - 1)
    BY <1>2, <2>2
  <2>4. \A i \in 1..Len(stack') : stack'[i] = g \/ stack'[i] = f \/ \E k \in 1..Len(stack) : stack'[i] = stack[k]
    BY <2>2, <2>3
  <2>5. TeardownAlone' /\ TeardownClears'
    BY <1>3, <1>7, <2>4, TeardownKept DEF Teardown
  <2>6. \A i \in 1..Len(stack') : stack'[i].at = "close" => i = 2
    BY <1>4, <1>6, <2>2, <2>3
  <2>7. LoopPast'
    <3> SUFFICES ASSUME NEW i \in 1..Len(stack'), NEW j \in 1..Len(stack'), stack'[i].at = "close",
                        IsFor(stack'[j], stack'[i].list, "close")
                 PROVE  stack'[i].pos < stack'[j].pos
      BY DEF LoopPast
    <3>1. stack'[i] = f
      BY <2>2, <2>6
    <3>2. j # 1 /\ j # 2
      BY <1>6, <2>2 DEF IsFor
    <3>3. stack'[j] = stack[j - 1] /\ j - 1 \in 1..Len(stack)
      BY <2>2, <2>3, <3>2
    <3> QED
      BY <1>6, <1>8, <3>1, <3>3
  <2>8. ClosesOnTop'
    BY <1>6, <2>2, <2>6 DEF ClosesOnTop
  <2> QED
    BY <2>5, <2>7, <2>8 DEF Teardown
<1> QED
  BY <1>6, <1>9, <1>10, <1>11

(* unload returns to the close.                                            *)
LEMMA UnloadTearsDown ==
  ASSUME IInv, IInv', InStages, Teardown, ReturnUnload
  PROVE  Teardown'
<1>1. stack # <<>> /\ Top.at = "call" /\ stack' = Tail(stack) /\ Inner
  BY DEF ReturnUnload, TopIs, Pop, Inner
<1>2. /\ Top = stack[1] /\ Len(stack) \in Nat /\ Len(stack') = Len(stack) - 1
      /\ \A i \in 1..(Len(stack) - 1) : stack'[i] = stack[i + 1]
  BY <1>1, Facts, StackTop, Popped
<1>3. \A i \in 1..Len(stack') : i + 1 \in 1..Len(stack) /\ stack'[i] = stack[i + 1] /\ i \in Nat /\ i + 1 # 1
  BY <1>2
<1>4. Waits(14)' <=> Waits(14)
  BY <1>1, InnerSettles, AsideWaits
<1>5. TeardownAlone' /\ TeardownClears'
  BY <1>3, <1>4, TeardownKept DEF Teardown
<1>6. ClosesOnTop'
  <2> SUFFICES ASSUME NEW i \in 1..Len(stack'), stack'[i].at = "close" PROVE i = 1
    BY DEF ClosesOnTop
  <2>1. i + 1 = 2
    BY <1>3 DEF Teardown, ClosesOnTop
  <2> QED
    BY <1>3, <2>1
<1>7. LoopPast'
  BY <1>3 DEF Teardown, LoopPast
<1> QED
  BY <1>5, <1>6, <1>7 DEF Teardown

(* The host's calls.                                                       *)
LEMMA StartsTearDown ==
  ASSUME IInv, IInv', InStages, Teardown,
         \/ modloader_preload \/ modloader_load \/ modloader_accept_unity_handle \/ Il2cppInit
         \/ DestroyObject \/ OrigReturns \/ modloader_unload \/ UNCHANGED vars
  PROVE  Teardown'
<1>1. stack \in Seq(FrameType) /\ stack' \in Seq(FrameType) /\ Len(stack) \in Nat
  BY Facts DEF IInv, TypeOK
<1>2. CASE UNCHANGED stack
  BY <1>2 DEF Teardown, TeardownAlone, TeardownClears, ClosesOnTop, LoopPast, Waits
<1>3. CASE modloader_unload /\ ~failed
  <2>1. /\ stack = <<>>
        /\ stack' = <<ForFrame("Mods", "close"), ForFrame("EarlyMods", "close"),
                      ForFrame("Libs", "close"), ClearFrame>> \o stack
    BY <1>3 DEF modloader_unload, Idle, Push
  <2>2. stack' = <<ForFrame("Mods", "close"), ForFrame("EarlyMods", "close"),
                   ForFrame("Libs", "close"), ClearFrame>>
    BY <2>1
  <2>3. \A i \in 1..Len(stack') :
          (\E list : stack'[i] = ForFrame(list, "close")) \/ stack'[i] = ClearFrame
    BY <2>2
  <2>4. \A i \in 1..Len(stack') : TearsDown(stack'[i]) /\ stack'[i].at # "close"
    <3>1. \A list : LET f == ForFrame(list, "close") IN TearsDown(f) /\ f.at # "close"
      BY DEF ForFrame, TearsDown
    <3>2. TearsDown(ClearFrame) /\ ClearFrame.at # "close"
      BY DEF ClearFrame, TearsDown
    <3> QED
      BY <2>3, <3>1, <3>2
  <2>5. Waits(14)'
    <3>1. Starts(11, 4) /\ 14 \in 11..(11 + (4 - 1))
      BY <1>3, StartStages
    <3> QED
      BY <3>1 DEF Starts
  <2> QED
    BY <2>4, <2>5 DEF Teardown, TeardownAlone, TeardownClears, ClosesOnTop, LoopPast
<1>4. CASE \/ (modloader_load /\ ~failed) \/ (Il2cppInit /\ "il2cpp_init" \in hooks)
           \/ DestroyObject \/ OrigReturns
  <2>1. stack = <<>> \/ ~TearsDown(Top)
    BY <1>4 DEF modloader_load, Il2cppInit, DestroyObject, OrigReturns, Idle, TopIs, TearsDown
  <2>2. ~Waits(14) /\ \A i \in 1..Len(stack) : stack[i].at # "close"
    BY <2>1, NoTeardown
  <2>3. ~Waits(14)'
    <3>1. Starts(1, 3) \/ Starts(4, 2) \/ Starts(10, 1) \/ Starts(6, 4)
      BY <1>4, StartStages
    <3>2. /\ 14 \notin 1..(1 + (3 - 1)) /\ 14 \notin 4..(4 + (2 - 1))
          /\ 14 \notin 10..(10 + (1 - 1)) /\ 14 \notin 6..(6 + (4 - 1)) /\ 14 \in 1..15
      OBVIOUS
    <3> QED
      BY <2>2, <3>1, <3>2 DEF Starts
  <2>4. \A list, fn : Builds(OpenFrame(list)) /\ (fn \in Flags => Builds(ForFrame(list, fn)))
    BY DEF Builds, OpenFrame, ForFrame
  <2>5. Builds(OrigFrame) /\ Builds(SetupUnityFrame)
    BY DEF Builds, OrigFrame, SetupUnityFrame
  <2>6. "setup" \in Flags /\ "load" \in Flags /\ "late_load" \in Flags
    BY DEF Flags
  <2>7. ASSUME NEW i \in 1..Len(stack')
        PROVE  Builds(stack'[i]) \/ \E k \in 1..Len(stack) : stack'[i] = stack[k]
    <3>1. CASE modloader_load /\ ~failed
      <4>1. stack' = <<OpenFrame("Libs"), OpenFrame("EarlyMods"), ForFrame("EarlyMods", "setup")>>
        BY <3>1 DEF modloader_load, Idle, Push
      <4> QED
        BY <2>4, <2>6, <4>1
    <3>2. CASE Il2cppInit /\ "il2cpp_init" \in hooks
      <4>1. stack' = <<ForFrame("EarlyMods", "load"), SetupUnityFrame>>
        BY <3>2 DEF Il2cppInit, Idle, Push
      <4> QED
        BY <2>4, <2>5, <2>6, <4>1
    <3>3. CASE DestroyObject
      <4>1. stack' = <<OrigFrame>> \o stack
        BY <3>3 DEF DestroyObject, Push
      <4>2. /\ Len(stack') = Len(stack) + 1 /\ stack'[1] = OrigFrame
            /\ \A j \in 2..(Len(stack) + 1) : stack'[j] = stack[j - 1]
        BY <1>1, <4>1, PlainFramesMade, Pushed
      <4>3. i = 1 \/ (i \in 2..(Len(stack) + 1) /\ i - 1 \in 1..Len(stack))
        BY <1>1, <4>2
      <4> QED
        BY <2>5, <4>2, <4>3
    <3>4. CASE OrigReturns
      <4> DEFINE o == OpenFrame("Mods")
                 a == ForFrame("Mods", "setup")
                 b == ForFrame("EarlyMods", "late_load")
                 c == ForFrame("Mods", "late_load")
      <4>1. stack # <<>> /\ stack' = <<o, a, b, c>> \o Tail(stack)
        BY <3>4 DEF OrigReturns, TopIs
      <4>2. o \in FrameType /\ a \in FrameType /\ b \in FrameType /\ c \in FrameType
        <5>1. "Mods" \in OpenedPhases /\ "EarlyMods" \in OpenedPhases
          BY DEF OpenedPhases
        <5> QED
          BY <2>6, <5>1, OpenFramesMade, ForFramesMade
      <4>3. Builds(o) /\ Builds(a) /\ Builds(b) /\ Builds(c)
        BY <2>4, <2>6
      <4> HIDE DEF o, a, b, c
      <4>4. /\ Tail(stack) \in Seq(FrameType) /\ Len(Tail(stack)) = Len(stack) - 1
            /\ \A j \in 1..(Len(stack) - 1) : Tail(stack)[j] = stack[j + 1]
        BY <1>1, <4>1, Popped
      <4>5. /\ Len(stack') = Len(Tail(stack)) + 4
            /\ stack'[1] = o /\ stack'[2] = a /\ stack'[3] = b /\ stack'[4] = c
            /\ \A j \in 5..Len(stack') : stack'[j] = Tail(stack)[j - 4]
        BY <4>1, <4>2, <4>4, PushedMore
      <4>6. \/ i = 1 \/ i = 2 \/ i = 3 \/ i = 4
            \/ (i \in 5..Len(stack') /\ i - 4 \in 1..(Len(stack) - 1) /\ (i - 4) + 1 \in 1..Len(stack))
        BY <1>1, <4>4, <4>5
      <4> QED
        BY <4>3, <4>4, <4>5, <4>6
    <3> QED
      BY <1>4, <3>1, <3>2, <3>3, <3>4
  <2> QED
    BY <2>2, <2>3, <2>7, BuildsKeep DEF Teardown
<1>5. \/ UNCHANGED stack \/ (modloader_unload /\ ~failed) \/ (modloader_load /\ ~failed)
      \/ (Il2cppInit /\ "il2cpp_init" \in hooks) \/ DestroyObject \/ OrigReturns
  BY DEF modloader_preload, modloader_load, modloader_accept_unity_handle, Il2cppInit,
         modloader_unload, vars
<1> QED
  BY <1>2, <1>3, <1>4, <1>5

(* All steps together.                                                     *)
LEMMA NextTeardown ==
  ASSUME CallbacksDoNotUnload, UnloadsCallNothing
  PROVE  IInv /\ IInv' /\ InStages /\ Teardown /\ [Next]_vars => Teardown'
<1> SUFFICES ASSUME IInv, IInv', InStages, Teardown, [Next]_vars PROVE Teardown'
  OBVIOUS
<1>1. CASE ForBegin \/ ForNext
  <2>1. CASE Top.fn = "close"
    BY <1>1, <2>1, LoopsTearDown
  <2>2. CASE Top.fn # "close"
    BY <1>1, <2>2, LoopsBuild
  <2> QED
    BY <2>1, <2>2
<1>2. CASE OpenBegin \/ OpenNext \/ RequireNext \/ RequireEnd \/ ReturnFlagged \/ ReturnCtor
  BY <1>2, LoopsBuild, CtorBuilds
<1>3. CASE CloseCall \/ Dlclose \/ ReturnUnload
  BY <1>3, CloseTearsDown, UnloadTearsDown
<1>4. CASE setup_unity_hook \/ OpenEnd \/ ForEnd \/ ClearLists
  BY <1>4, EndsTearDown
<1>5. CASE \E request \in Requests : modloader_require_mod(request) \/ modloader_force_unload(request)
  BY <1>5, ApiBuilds
<1>6. CASE \/ modloader_preload \/ modloader_load \/ modloader_accept_unity_handle \/ Il2cppInit
           \/ DestroyObject \/ OrigReturns \/ modloader_unload \/ UNCHANGED vars
  BY <1>6, StartsTearDown
<1> QED
  BY <1>1, <1>2, <1>3, <1>4, <1>5, <1>6 DEF Next, Run, Start

(* Nothing that is closed is in a list but while close_all closes all.     *)
LEMMA NoneClosed ==
  ASSUME IInv, Teardown, ClosedArePast, stack = <<>> \/ ~TearsDown(Top)
  PROVE  \A list \in OpenedPhases : \A i \in 1..Len(loaded[list]) :
           loaded[list][i].ok => Handle(loaded[list][i]) \in handles
BY NoTeardown DEF ClosedArePast

(* It stays so while nothing is closed and no list gets anything new.      *)
LEMMA QuietPast ==
  ASSUME IInv, Teardown, ClosedArePast, stack = <<>> \/ ~TearsDown(Top), handles \subseteq handles',
         \A list \in OpenedPhases : Inherits(list)
  PROVE  ClosedArePast'
<1>1. \A list \in OpenedPhases : \A i \in 1..Len(loaded[list]) :
        loaded[list][i].ok => Handle(loaded[list][i]) \in handles
  BY NoneClosed
<1>2. \A list \in OpenedPhases : \A i \in 1..Len(loaded'[list]) :
        loaded'[list][i].ok => Handle(loaded'[list][i]) \in handles'
  BY <1>1 DEF Inherits, Handle
<1> QED
  BY <1>2 DEF ClosedArePast

(* The results of a loadMods are open.                                     *)
LEMMA OpenEndPast ==
  ASSUME IInv, Teardown, ClosedArePast, OpenEnd
  PROVE  ClosedArePast'
<1>1. /\ stack # <<>> /\ Top.at = "open" /\ handles' = handles
      /\ loaded' = [loaded EXCEPT ![Top.list] = Top.results]
  BY DEF OpenEnd, TopIs, historyVars
<1>2. Top.list \in OpenedPhases /\ ResultsNew(Top)
  BY <1>1, Facts, StackTop, FrameKinds, OpenFrames
<1>3. \A list \in OpenedPhases : \A i \in 1..Len(loaded[list]) :
        loaded[list][i].ok => Handle(loaded[list][i]) \in handles
  BY <1>1, NoneClosed DEF TearsDown
<1>4. \A i \in 1..Len(Top.results) : Top.results[i].ok => Handle(Top.results[i]) \in handles
  BY <1>1, <1>2 DEF ResultsNew, JustOpened
<1>5. loaded'[Top.list] = Top.results /\ \A list \in OpenedPhases : list # Top.list => loaded'[list] = loaded[list]
  BY <1>1, <1>2, Facts
<1>6. \A list \in OpenedPhases : \A i \in 1..Len(loaded'[list]) :
        loaded'[list][i].ok => Handle(loaded'[list][i]) \in handles'
  <2> SUFFICES ASSUME NEW list \in OpenedPhases, NEW i \in 1..Len(loaded'[list]), loaded'[list][i].ok
               PROVE  Handle(loaded'[list][i]) \in handles
    BY <1>1
  <2>1. CASE list = Top.list
    BY <1>4, <1>5, <2>1
  <2>2. CASE list # Top.list
    BY <1>3, <1>5, <2>2
  <2> QED
    BY <2>1, <2>2
<1> QED
  BY <1>6 DEF ClosedArePast

(* What the frames on the stack have gone past, the next ones have.        *)
LEMMA PastKept ==
  ASSUME ClosedArePast, UNCHANGED <<loaded, handles>>, Waits(14) => Waits(14)',
         \A i \in 1..Len(stack') :
           \/ \E k \in 1..Len(stack) : stack'[i] = stack[k]
           \/ \A list, pos : pos \in Nat /\ (\A k \in 1..Len(stack) : Past(stack[k], list, pos)) =>
                Past(stack'[i], list, pos)
  PROVE  ClosedArePast'
<1> SUFFICES ASSUME NEW list \in OpenedPhases, NEW p \in 1..Len(loaded[list]), loaded[list][p].ok,
                    Handle(loaded[list][p]) \notin handles
             PROVE  Waits(14)' /\ \A i \in 1..Len(stack') : Past(stack'[i], list, p)
  BY DEF ClosedArePast, Past
<1>1. Waits(14) /\ \A k \in 1..Len(stack) : Past(stack[k], list, p)
  BY DEF ClosedArePast
<1>2. p \in Nat
  OBVIOUS
<1>3. ASSUME NEW i \in 1..Len(stack') PROVE Past(stack'[i], list, p)
  BY <1>1, <1>2
<1> QED
  BY <1>1, <1>3

(* The loops of close_all, and what they call.                             *)
LEMMA TearingPast ==
  ASSUME IInv, IInv', InStages, ClosedArePast,
         \/ ((ForBegin \/ ForNext \/ ForEnd) /\ Top.fn = "close")
         \/ CloseCall \/ ReturnUnload \/ (Dlclose /\ UNCHANGED <<loaded, handles>>)
  PROVE  ClosedArePast'
<1>1. /\ stack # <<>> /\ Top.at \in {"for", "close", "call"} /\ ~UseStale
      /\ UNCHANGED <<loaded, handles>>
  BY DEF ForBegin, ForNext, ForEnd, CloseCall, ReturnUnload, Dlclose, TopIs, UseStale, IInv, listVars,
         historyVars
<1>2. /\ Top = stack[1] /\ Top \in FrameType /\ Len(stack) \in Nat
      /\ 1 \in 1..Len(stack) /\ Tail(stack) \in Seq(FrameType)
      /\ stack \in Seq(FrameType) /\ stack' \in Seq(FrameType)
  BY <1>1, Facts, StackTop DEF IInv, TypeOK
<1>3. Waits(14) => Waits(14)'
  <2>1. CASE ForEnd
    <3>1. Base(Top) /\ stack' = Tail(stack) /\ Stage(Top) # 14
      BY <1>1, <2>1, StageOfPlain DEF Base, ForEnd, TopIs, Pop
    <3>2. 14 \in 1..15
      OBVIOUS
    <3> QED
      BY <1>1, <3>1, <3>2, BasePops
  <2>2. CASE ~ForEnd
    <3>1. Inner
      BY <2>2 DEF Inner
    <3> QED
      BY <3>1, InnerSettles, AsideWaits
  <2> QED
    BY <2>1, <2>2
<1>4. \E f, g : /\ \/ stack' = Tail(stack)
                   \/ stack' = <<f>> \o Tail(stack)
                   \/ stack' = <<g, f>> \o Tail(stack)
                /\ \A list, pos : pos \in Nat /\ Past(Top, list, pos) => Past(f, list, pos) /\ Past(g, list, pos)
  <2>1. CASE (ForBegin \/ ForNext) /\ Top.fn = "close"
    <3>1. Top \in ForFrameType /\ Top.pos \in Nat /\ Top.at = "for"
      BY <1>1, <1>2, <2>1, FrameKinds, ForFrames DEF ForBegin, ForNext, TopIs
    <3>2. \A n : [Top EXCEPT !.pos = 1, !.end = n].at = "for" /\ [Top EXCEPT !.pos = 1, !.end = n].pos = 1
                 /\ [Top EXCEPT !.pos = 1, !.end = n].list = Top.list
                 /\ [Top EXCEPT !.pos = 1, !.end = n].fn = Top.fn
      BY <3>1 DEF ForFrameType
    <3>3. CASE ForBegin
      <4>1. PICK f : /\ f.at = "for" /\ f.list = Top.list /\ f.fn = Top.fn /\ f.pos = 1
                     /\ stack' = <<f>> \o Tail(stack)
        BY <3>2, <3>3 DEF ForBegin, Advance
      <4>2. Top.pos = 0
        BY <3>3 DEF ForBegin
      <4>3. \A p \in Nat : ~(p < 0)
        OBVIOUS
      <4>4. \A list, pos : pos \in Nat /\ Past(Top, list, pos) => Past(f, list, pos)
        BY <2>1, <3>1, <4>1, <4>2, <4>3 DEF Past
      <4> QED
        BY <4>1, <4>4
    <3>4. CASE ForNext
      <4> DEFINE f == [Top EXCEPT !.pos = @ + 1]
                 g == CloseFrame(Top.list, Top.pos, "close_all")
      <4>1. f.at = "for" /\ f.list = Top.list /\ f.fn = Top.fn /\ f.pos = Top.pos + 1
        BY <3>1, ForFramesNext
      <4>2. g.at = "close" /\ g.list = Top.list /\ g.pos = Top.pos
        BY DEF CloseFrame
      <4>3. stack' = <<f>> \o Tail(stack) \/ stack' = <<g, f>> \o Tail(stack)
        BY <1>1, <2>1, <3>4 DEF ForNext, Advance, CallFrom
      <4> HIDE DEF f, g
      <4>4. \A p, q \in Nat : p < q => p < q + 1 /\ q # p
        OBVIOUS
      <4>5. ASSUME NEW list, NEW pos \in Nat, Past(Top, list, pos) PROVE Past(f, list, pos) /\ Past(g, list, pos)
        <5>1. Top.list = list => pos < Top.pos
          BY <2>1, <3>1, <4>5 DEF Past
        <5>2. Top.list = list => pos < Top.pos + 1 /\ Top.pos # pos
          BY <3>1, <4>4, <5>1
        <5> QED
          BY <4>1, <4>2, <5>2 DEF Past
      <4> QED
        BY <4>3, <4>5
    <3> QED
      BY <2>1, <3>3, <3>4
  <2>2. CASE CloseCall
    <3> DEFINE f == [Top EXCEPT !.called = TRUE]
    <3>1. Top \in CloseFrameType /\ Top.at = "close"
      BY <1>2, <2>2, FrameKinds DEF CloseCall, TopIs
    <3>2. f.at = "close" /\ f.list = Top.list /\ f.pos = Top.pos
      BY <3>1, CloseFrames
    <3>3. \A m, list, pos : CallFrame("unload", m, list, pos).at = "call"
      BY DEF CallFrame
    <3>4. \/ stack' = <<f>> \o Tail(stack)
          \/ \E m, list, pos : stack' = <<CallFrame("unload", m, list, pos), f>> \o Tail(stack)
      BY <1>1, <2>2 DEF CloseCall, Advance, CallFrom
    <3> HIDE DEF f
    <3>5. \A list, pos : Past(Top, list, pos) => Past(f, list, pos)
      BY <3>1, <3>2 DEF Past
    <3>6. \A g : g.at = "call" => \A list, pos : Past(g, list, pos)
      BY DEF Past
    <3>7. \E g : g.at = "call" /\ (stack' = <<f>> \o Tail(stack) \/ stack' = <<g, f>> \o Tail(stack))
      BY <3>3, <3>4
    <3> QED
      BY <3>5, <3>6, <3>7
  <2>3. CASE ForEnd \/ ReturnUnload \/ Dlclose
    <3>1. stack' = Tail(stack)
      BY <1>1, <2>3 DEF ForEnd, ReturnUnload, Dlclose, Pop
    <3> QED
      BY <3>1
  <2> QED
    BY <2>1, <2>2, <2>3
<1>5. PICK f, g : /\ \/ stack' = Tail(stack)
                     \/ stack' = <<f>> \o Tail(stack)
                     \/ stack' = <<g, f>> \o Tail(stack)
                  /\ \A list, pos : pos \in Nat /\ Past(Top, list, pos) => Past(f, list, pos) /\ Past(g, list, pos)
  BY <1>4
<1>6. \A i \in 1..Len(stack') : stack'[i] = f \/ stack'[i] = g \/ \E k \in 1..Len(stack) : stack'[i] = stack[k]
  <2>1. CASE stack' = Tail(stack)
    BY <1>1, <1>2, <2>1, Neighbours
  <2>2. CASE stack' = <<f>> \o Tail(stack)
    <3>1. f \in FrameType
      BY <1>2, <2>2, FirstTyped
    <3>2. \A i \in 1..Len(stack') : stack'[i] = f \/ \E k \in 1..Len(stack) : stack'[i] = stack[k]
      BY <1>1, <1>2, <2>2, <3>1, Neighbours
    <3> QED
      BY <3>2
  <2>3. CASE stack' = <<g, f>> \o Tail(stack)
    <3>1. f \in FrameType /\ g \in FrameType
      BY <1>2, <2>3, FirstTyped
    <3> QED
      BY <1>1, <1>2, <2>3, <3>1, Neighbours
  <2> QED
    BY <1>5, <2>1, <2>2, <2>3
<1>7. \A i \in 1..Len(stack') :
        \/ \E k \in 1..Len(stack) : stack'[i] = stack[k]
        \/ \A list, pos : pos \in Nat /\ (\A k \in 1..Len(stack) : Past(stack[k], list, pos)) =>
             Past(stack'[i], list, pos)
  BY <1>2, <1>5, <1>6
<1> QED
  BY <1>1, <1>3, <1>7, PastKept

(* dlclose closes what the loop of close_all has gone past, or what         *)
(* force_unload takes out of its list.                                     *)
LEMMA DlclosePast ==
  ASSUME IInv, IInv', InStages, Teardown, ClosedArePast, Dlclose
  PROVE  ClosedArePast'
<1> DEFINE h0 == Handle(loaded[Top.list][Top.pos])
<1>1. /\ stack # <<>> /\ Top.at = "close" /\ stack' = Tail(stack)
      /\ \/ UNCHANGED <<handles, loaded>>
         \/ /\ handles' = handles \ {h0}
            /\ loaded' = IF Top.by = "force_unload"
                         THEN [loaded EXCEPT ![Top.list] = WithoutAt(@, Top.pos)]
                         ELSE loaded
  BY DEF Dlclose, TopIs, UseStale, Pop, IInv
<1>2. /\ Top = stack[1] /\ Len(stack) \in Nat /\ 1 \in 1..Len(stack) /\ Len(stack') = Len(stack) - 1
      /\ \A i \in 1..(Len(stack) - 1) : stack'[i] = stack[i + 1]
      /\ Top.list \in OpenedPhases /\ Holds(Top.list, Top.pos)
      /\ Top.by \in {"force_unload", "close_all"}
  BY <1>1, Facts, StackTop, Popped, FrameKinds DEF Frames, InPlace, CloseFrameType
<1>3. CASE UNCHANGED <<handles, loaded>>
  BY <1>3, TearingPast
<1>4. CASE Top.by = "close_all" /\ handles' = handles \ {h0} /\ loaded' = loaded
  <2>1. Waits(14) /\ Waits(14)'
    <3>1. Waits(14)
      BY <1>1, <1>2, <1>4 DEF Teardown, TeardownClears, ClosesAll
    <3>2. Inner
      BY DEF Inner
    <3> QED
      BY <3>1, <3>2, InnerSettles, AsideWaits
  <2>2. \A i \in 1..Len(stack') : i + 1 \in 1..Len(stack) /\ 1 < i + 1 /\ i + 1 # 1 /\ stack'[i] = stack[i + 1]
    BY <1>2
  <2>3. ASSUME NEW k \in 1..Len(stack), k # 1 PROVE Past(stack[k], Top.list, Top.pos)
    <3>1. stack[k].at # "close"
      BY <1>1, <1>2, <2>3 DEF Teardown, ClosesOnTop
    <3>2. IsFor(stack[k], Top.list, "close") => Top.pos < stack[k].pos
      BY <1>1, <1>2 DEF Teardown, LoopPast
    <3> QED
      BY <3>1, <3>2 DEF Past, IsFor
  <2> SUFFICES ASSUME NEW list \in OpenedPhases, NEW p \in 1..Len(loaded[list]), loaded[list][p].ok,
                      Handle(loaded[list][p]) \notin handles \ {h0}, NEW i \in 1..Len(stack')
               PROVE  Past(stack'[i], list, p)
    BY <1>4, <2>1 DEF ClosedArePast, Past
  <2>4. CASE Handle(loaded[list][p]) \notin handles
    BY <2>2, <2>4 DEF ClosedArePast
  <2>5. CASE Handle(loaded[list][p]) = h0
    <3>1. list = Top.list /\ p = Top.pos
      BY <1>2, <2>5, Facts DEF Lists, ListedOnce, Twice, Handle, Holds
    <3> QED
      BY <2>2, <2>3, <3>1
  <2> QED
    BY <2>4, <2>5
<1>5. CASE /\ Top.by = "force_unload"
           /\ handles' = handles \ {h0}
           /\ loaded' = [loaded EXCEPT ![Top.list] = WithoutAt(@, Top.pos)]
  <2>1. ~Waits(14)
    <3>1. Len(stack) = 1
      BY <1>1, <1>2, <1>5, Facts DEF Shape, ErasesAlone
    <3>2. Stage(Top) = 0 /\ 0 # 14
      BY <1>1, StageSpan DEF Base
    <3>3. \A i \in 1..Len(stack) : i = 1
      BY <3>1
    <3> QED
      BY <1>2, <3>2, <3>3 DEF Waits
  <2>2. \A list \in OpenedPhases : \A i \in 1..Len(loaded[list]) :
          loaded[list][i].ok => Handle(loaded[list][i]) \in handles
    BY <2>1 DEF ClosedArePast
  <2> DEFINE s == loaded[Top.list]
             t == WithoutAt(s, Top.pos)
  <2>3. s \in Seq(LoadResult) /\ Top.pos \in 1..Len(s)
    BY <1>2, Facts DEF Holds
  <2>4. /\ Len(s) \in Nat /\ Len(t) = Len(s) - 1
        /\ \A i \in 1..(Len(s) - 1) : t[i] = s[IF i < Top.pos THEN i ELSE i + 1]
    BY <2>3, WithoutOne
  <2>5. loaded'[Top.list] = t /\ \A list \in OpenedPhases : list # Top.list => loaded'[list] = loaded[list]
    BY <1>2, <1>5, Facts
  <2> HIDE DEF t
  <2>6. ASSUME NEW i \in 1..Len(t) PROVE \E k \in 1..Len(s) : k # Top.pos /\ t[i] = s[k]
    <3> DEFINE k == IF i < Top.pos THEN i ELSE i + 1
    <3>1. k \in 1..Len(s) /\ k # Top.pos /\ i \in 1..(Len(s) - 1)
      BY <2>3, <2>4
    <3> QED
      BY <2>4, <3>1
  <2>7. ASSUME NEW list \in OpenedPhases, NEW i \in 1..Len(loaded'[list])
        PROVE  \E k \in 1..Len(loaded[list]) :
                 loaded'[list][i] = loaded[list][k] /\ Handle(loaded[list][k]) # h0
    <3>1. PICK k \in 1..Len(loaded[list]) :
            loaded'[list][i] = loaded[list][k] /\ (list # Top.list \/ k # Top.pos)
      BY <2>5, <2>6
    <3>2. Handle(loaded[list][k]) = h0 => list = Top.list /\ k = Top.pos
      <4> SUFFICES ASSUME Handle(loaded[list][k]) = h0 PROVE list = Top.list /\ k = Top.pos
        OBVIOUS
      <4>1. /\ loaded[list][k].mod = loaded[Top.list][Top.pos].mod
            /\ loaded[list][k].as = loaded[Top.list][Top.pos].as
        BY DEF Handle
      <4> QED
        BY <1>2, <2>3, <4>1, Facts DEF Lists, ListedOnce, Twice
    <3> QED
      BY <3>1, <3>2
  <2>8. \A list \in OpenedPhases : \A i \in 1..Len(loaded'[list]) :
          loaded'[list][i].ok => Handle(loaded'[list][i]) \in handles'
    <3> SUFFICES ASSUME NEW list \in OpenedPhases, NEW i \in 1..Len(loaded'[list]), loaded'[list][i].ok
                 PROVE  Handle(loaded'[list][i]) \in handles'
      OBVIOUS
    <3>1. PICK k \in 1..Len(loaded[list]) :
            loaded'[list][i] = loaded[list][k] /\ Handle(loaded[list][k]) # h0
      BY <2>7
    <3>2. Handle(loaded[list][k]) \in handles
      BY <2>2, <3>1
    <3> QED
      BY <1>5, <3>1, <3>2
  <2> QED
    BY <2>8 DEF ClosedArePast
<1> QED
  BY <1>1, <1>2, <1>3, <1>4, <1>5

(* What does not tear down closes nothing and lists nothing that is closed. *)
LEMMA BuildingPast ==
  ASSUME IInv, IInv', Teardown, ClosedArePast,
         \/ OpenBegin \/ OpenNext \/ RequireNext \/ RequireEnd \/ ReturnFlagged \/ ReturnCtor
         \/ ((ForBegin \/ ForNext \/ ForEnd) /\ Top.fn # "close")
         \/ setup_unity_hook \/ OrigReturns
  PROVE  ClosedArePast'
<1>1. stack # <<>> /\ ~TearsDown(Top) /\ handles \subseteq handles' /\ ~UseStale
  <2>1. OpenNext => stack # <<>> /\ Top.at = "open" /\ handles' = handles
    BY OpenSteps DEF historyVars
  <2> QED
    BY <2>1 DEF OpenBegin, RequireNext, RequireEnd, ReturnFlagged, ReturnCtor, ForBegin, ForNext, ForEnd,
                setup_unity_hook, OrigReturns, TopIs, TearsDown, UseStale, IInv, historyVars
<1>2. \A list \in OpenedPhases : Inherits(list)
  <2>1. CASE Inner
    BY <2>1, InnerSettles DEF Settled
  <2>2. CASE ForEnd \/ setup_unity_hook \/ OrigReturns
    <3>1. loaded' = loaded
      BY <2>2 DEF ForEnd, setup_unity_hook, OrigReturns, listVars
    <3> QED
      BY <3>1, Facts, SameInherits
  <2> QED
    BY <2>1, <2>2 DEF Inner
<1> QED
  BY <1>1, <1>2, QuietPast

(* Neither do the host's calls, and those of the API, but for modloader_unload, *)
(* which begins the teardown of what is all open.                          *)
LEMMA StartsPast ==
  ASSUME CallbacksDoNotUnload, UnloadsCallNothing, IInv, IInv', Teardown, ClosedArePast,
         Start \/ UNCHANGED vars
  PROVE  ClosedArePast'
<1>1. loaded' = loaded /\ handles' = handles
  BY DEF Start, modloader_preload, modloader_load, modloader_accept_unity_handle, Il2cppInit, DestroyObject,
         modloader_require_mod, modloader_force_unload, modloader_unload, vars, listVars, historyVars
<1>2. CASE UNCHANGED vars
  BY <1>2 DEF ClosedArePast, Waits, vars, listVars, historyVars
<1>3. CASE stack' = stack
  BY <1>1, <1>3 DEF ClosedArePast, Waits
<1>4. CASE stack' # stack /\ Start
  <2>1. stack = <<>> \/ ~TearsDown(Top)
    <3>1. CASE modloader_load \/ Il2cppInit \/ modloader_unload
      BY <3>1 DEF modloader_load, Il2cppInit, modloader_unload, Idle
    <3>2. CASE DestroyObject
      BY <3>2 DEF DestroyObject, Idle, TopIs, TearsDown
    <3>3. CASE \E request \in Requests : modloader_require_mod(request) \/ modloader_force_unload(request)
      BY <3>3 DEF modloader_require_mod, modloader_force_unload, MayCall, UnloadsCallNothing, Api, TearsDown
    <3>4. CASE modloader_preload \/ modloader_accept_unity_handle
      BY <1>4, <3>4 DEF modloader_preload, modloader_accept_unity_handle
    <3> QED
      BY <1>4, <3>1, <3>2, <3>3, <3>4 DEF Start
  <2> QED
    BY <1>1, <2>1, Facts, SameInherits, QuietPast
<1> QED
  BY <1>2, <1>3, <1>4

(* All steps together.                                                     *)
LEMMA NextPast ==
  ASSUME CallbacksDoNotUnload, UnloadsCallNothing
  PROVE  IInv /\ IInv' /\ InStages /\ Teardown /\ ClosedArePast /\ [Next]_vars => ClosedArePast'
<1> SUFFICES ASSUME IInv, IInv', InStages, Teardown, ClosedArePast, [Next]_vars PROVE ClosedArePast'
  OBVIOUS
<1>1. CASE ForBegin \/ ForNext \/ ForEnd
  BY <1>1, TearingPast, BuildingPast
<1>2. CASE OpenEnd
  BY <1>2, OpenEndPast
<1>3. CASE CloseCall \/ ReturnUnload \/ Dlclose
  BY <1>3, TearingPast, DlclosePast
<1>4. CASE ClearLists
  <2>1. \A list \in OpenedPhases : loaded'[list] = <<>>
    BY <1>4 DEF ClearLists
  <2>2. \A list \in OpenedPhases : \A i \in 1..Len(loaded'[list]) : FALSE
    BY <2>1
  <2> QED
    BY <2>2 DEF ClosedArePast
<1>5. CASE \/ OpenBegin \/ OpenNext \/ RequireNext \/ RequireEnd \/ ReturnFlagged \/ ReturnCtor
           \/ setup_unity_hook \/ OrigReturns
  BY <1>5, BuildingPast
<1>6. CASE Start \/ UNCHANGED vars
  BY <1>6, StartsPast
<1> QED
  BY <1>1, <1>2, <1>3, <1>4, <1>5, <1>6 DEF Next, Run

(* loadMods opens what was never opened, or what is still open.            *)
LEMMA OpensUnknown ==
  ASSUME IInv, OpenNext, NEW m \in Mod, Enters("ctor", m), "ctor" \in returned[m]
  PROVE  IsOpen(m)
<1>1. /\ stack # <<>> /\ Top.at = "open" /\ stack \in Seq(FrameType) /\ Top \in OpenFrameType
      /\ Tail(stack) \in Seq(FrameType) /\ ResultsNew(Top)
  BY OpenSteps, Facts, StackTop
<1>2. ~\E f : f.at = "open" /\ f.list = Top.list /\ stack' = <<f>> \o Tail(stack)
  <2> SUFFICES ASSUME NEW f, stack' = <<f>> \o Tail(stack), f.at = "open" PROVE FALSE
    OBVIOUS
  <2>1. stack' # <<>> /\ Head(stack').at # "call"
    BY <1>1, Pushes
  <2> QED
    BY <1>1, <2>1, NoEntry
<1>3. ~NextMod /\ ~SkipDependency
  <2>1. /\ [Top EXCEPT !.mods = Tail(@)].at = "open" /\ [Top EXCEPT !.mods = Tail(@)].list = Top.list
        /\ \A deps : /\ [Top EXCEPT !.loading = TRUE, !.deps = deps].at = "open"
                     /\ [Top EXCEPT !.loading = TRUE, !.deps = deps].list = Top.list
        /\ [Top EXCEPT !.deps = Tail(@)].at = "open" /\ [Top EXCEPT !.deps = Tail(@)].list = Top.list
    BY <1>1 DEF OpenFrameType
  <2> QED
    BY <1>2, <2>1 DEF NextMod, SkipDependency, Advance
<1>4. OpenLibrary
  BY <1>3 DEF OpenNext
<1>5. \A r : Recorded(Top, r).at = "open" /\ Recorded(Top, r).list = Top.list
  BY <1>1 DEF OpenFrameType, Recorded
<1>6. stack' = <<CallFrame("ctor", Opening(Top), Top.list, 0), Top>> \o Tail(stack)
  BY <1>2, <1>4, <1>5 DEF OpenLibrary, Advance, CallFrom
<1>7. Head(stack') = CallFrame("ctor", Opening(Top), Top.list, 0)
  BY <1>1, <1>6, Pushes
<1>8. m = Opening(Top)
  BY <1>7 DEF Enters, CallFrame
<1>9. CASE Top.deps = <<>>
  BY <1>1, <1>4, <1>8, <1>9 DEF OpenLibrary, Opening, ResultsNew, LoadsNew
<1>10. CASE Top.deps # <<>>
  <2>1. m \notin skip_load
    BY <1>4, <1>8, <1>10 DEF OpenLibrary, Opening
  <2> QED
    BY <2>1, Facts DEF Lists, Unknown
<1> QED
  BY <1>9, <1>10

(* What the lists give out is open.                                        *)
LEMMA HeldIsOpen ==
  ASSUME IInv, NEW list \in OpenedPhases, NEW pos \in 1..Len(loaded[list]),
         Handle(loaded[list][pos]) \in handles
  PROVE  IsOpen(loaded[list][pos].mod)
BY Facts DEF Handle, IsOpen

(* A close calls and closes what no other has closed.                      *)
LEMMA ClosesOpen ==
  ASSUME IInv, ClosedArePast, stack # <<>>, Top.at = "close"
  PROVE  /\ Handle(loaded[Top.list][Top.pos]) \in handles
         /\ IsOpen(loaded[Top.list][Top.pos].mod)
<1>1. /\ Top = stack[1] /\ 1 \in 1..Len(stack) /\ Top.list \in OpenedPhases /\ Holds(Top.list, Top.pos)
  BY Facts, StackTop, FrameKinds DEF Frames, InPlace, CloseFrameType
<1>2. ~Past(stack[1], Top.list, Top.pos)
  BY <1>1 DEF Past
<1>3. Handle(loaded[Top.list][Top.pos]) \in handles
  BY <1>1, <1>2 DEF ClosedArePast, Holds
<1> QED
  BY <1>1, <1>3, HeldIsOpen DEF Holds

(* The object whose unload it calls is the one at its place.               *)
LEMMA UnloadsInPlace ==
  ASSUME IInv, CloseCall, NEW m, Enters("unload", m)
  PROVE  stack # <<>> /\ Top.at = "close" /\ m = loaded[Top.list][Top.pos].mod
<1> DEFINE f == [Top EXCEPT !.called = TRUE]
           m0 == loaded[Top.list][Top.pos].mod
<1>1. stack # <<>> /\ Top.at = "close" /\ stack \in Seq(FrameType)
  BY Facts DEF CloseCall, TopIs
<1>2. Top \in CloseFrameType /\ Tail(stack) \in Seq(FrameType)
  BY <1>1, Facts, StackTop, FrameKinds
<1>3. f.at = "close"
  BY <1>1, <1>2, CloseFrames
<1>4. \/ stack' = stack
      \/ stack' = <<f>> \o Tail(stack)
      \/ stack' = <<CallFrame("unload", m0, Top.list, Top.pos), f>> \o Tail(stack)
  BY DEF CloseCall, UseStale, CallFrom, Advance
<1> HIDE DEF f
<1>5. stack' = <<f>> \o Tail(stack) => stack' # <<>> /\ Head(stack').at # "call"
  BY <1>2, <1>3, Pushes
<1>6. stack' = <<CallFrame("unload", m0, Top.list, Top.pos), f>> \o Tail(stack)
  BY <1>1, <1>4, <1>5, NoEntry
<1>7. Head(stack') = CallFrame("unload", m0, Top.list, Top.pos)
  BY <1>2, <1>6, Pushes
<1> QED
  BY <1>1, <1>7 DEF Enters, CallFrame

(* Both hold throughout.                                                   *)
LEMMA TeardownInductive ==
  ASSUME CallbacksDoNotUnload, UnloadsCallNothing
  PROVE  Spec => [](Teardown /\ ClosedArePast)
<1>1. IInv /\ IInv' /\ DInv /\ Teardown /\ ClosedArePast /\ [Next]_vars => (Teardown /\ ClosedArePast)'
  BY NextTeardown, NextPast DEF DInv
<1>2. Init => Teardown /\ ClosedArePast
  <2> SUFFICES ASSUME Init PROVE Teardown /\ ClosedArePast
    OBVIOUS
  <2>1. Len(stack) = 0 /\ \A list \in OpenedPhases : Len(loaded[list]) = 0
    BY DEF Init
  <2>2. \A i \in 1..0 : FALSE
    OBVIOUS
  <2> QED
    BY <2>1, <2>2 DEF Teardown, TeardownAlone, TeardownClears, ClosesOnTop, LoopPast, ClosedArePast
<1> QED
  BY <1>1, <1>2, Inductive, DeliveriesInductive, PTL DEF Spec

(* When dlclose has taken back the last handle of an object, nothing of it  *)
(* is called and it is not opened again, and no handle is given back twice, *)
(* although close_all leaves what it has closed in the lists until it       *)
(* clears them.                                                            *)
THEOREM Final == ASSUME CallbacksDoNotUnload, UnloadsCallNothing PROVE Spec => ClosedIsFinal
<1>1. IInv /\ IInv' /\ Teardown /\ ClosedArePast /\ [Next]_vars =>
        [/\ \A m \in Mod : \A fn \in Callback :
              Enters(fn, m) /\ "ctor" \in returned[m] => IsOpen(m)
         /\ Dlclose /\ ~Stale(Top.list, Top.pos) =>
              Handle(loaded[Top.list][Top.pos]) \in handles]_vars
  <2> SUFFICES ASSUME IInv, IInv', Teardown, ClosedArePast, Next
               PROVE  /\ \A m \in Mod : \A fn \in Callback :
                           Enters(fn, m) /\ "ctor" \in returned[m] => IsOpen(m)
                      /\ Dlclose /\ ~Stale(Top.list, Top.pos) =>
                           Handle(loaded[Top.list][Top.pos]) \in handles
    BY DEF vars
  <2>1. ASSUME NEW m \in Mod, NEW fn \in Callback, Enters(fn, m), "ctor" \in returned[m]
        PROVE  IsOpen(m)
    <3>1. stack' \in Seq(FrameType)
      BY DEF IInv, TypeOK
    <3>2. CASE ForNext \/ RequireNext
      <4>1. /\ \E list \in OpenedPhases : \E pos \in DOMAIN loaded[list] :
                 loaded[list][pos].ok /\ loaded[list][pos].mod = m
            /\ (Top.at = "for" /\ Top.fn = fn) \/ Top.at = "require"
        BY <2>1, <3>1, <3>2, EntryIsDue
      <4>2. ~TearsDown(Top)
        BY <4>1 DEF TearsDown, Callback
      <4>3. PICK list \in OpenedPhases : \E pos \in DOMAIN loaded[list] :
              loaded[list][pos].ok /\ loaded[list][pos].mod = m
        BY <4>1
      <4>4. PICK pos \in 1..Len(loaded[list]) : loaded[list][pos].ok /\ loaded[list][pos].mod = m
        BY <4>3, Facts
      <4>5. Handle(loaded[list][pos]) \in handles
        BY <4>2, <4>4, NoneClosed
      <4> QED
        BY <4>4, <4>5, HeldIsOpen
    <3>3. CASE OpenNext /\ fn = "ctor"
      BY <2>1, <3>3, OpensUnknown
    <3>4. CASE CloseCall /\ fn = "unload"
      BY <2>1, <3>4, UnloadsInPlace, ClosesOpen
    <3>5. ~Start
      BY <2>1, StartEntersNothing
    <3>6. Run
      BY <3>5 DEF Next
    <3> QED
      BY <2>1, <3>2, <3>3, <3>4, <3>6, OtherRunEntersNothing
  <2>2. ASSUME Dlclose PROVE Handle(loaded[Top.list][Top.pos]) \in handles
    BY <2>2, ClosesOpen DEF Dlclose, TopIs
  <2> QED
    BY <2>1, <2>2
<1> QED
  BY <1>1, Inductive, TeardownInductive, PTL DEF Spec, ClosedIsFinal
=============================================================================
