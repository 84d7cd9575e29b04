-------------------------- MODULE HookMemoryProofs -------------------------
(***************************************************************************)
(* Theorems about HookMemory, for any number of hooks of mods and calls    *)
(* nested to any depth: memory is used as its rights allow, the hooks of   *)
(* mods stay, and those of the loader work once.                           *)
(*                                                                         *)
(* What makes the hooks of mods stay is a fact about the two places they   *)
(* may be in: as long as a hook of the loader is still to be undone, every *)
(* hook of a mod at its function was made when the loader's was not there, *)
(* or earlier, and then the trampoline that will be copied back has it.    *)
(***************************************************************************)
EXTENDS HookMemory, SequenceTheorems, TLAPS

-----------------------------------------------------------------------------
(* The pieces of the invariant.                                            *)

(* Only the innermost call can be at another place than a call that it      *)
(* made, and the entry point of the host calls nothing.                    *)
StackShape ==
  \A i \in DOMAIN stack :
    /\ i < Len(stack) => stack[i].step = "called"
    /\ stack[i].run \notin LoaderHooks \union {Host} => stack[i].step \in {"enter", "called"}
    /\ stack[i].run = Host =>
         /\ Len(stack) = 1
         /\ stack[i].step \notin {"enter", "called"}
         /\ stage = Host
         /\ target[LoadHook] = "none"

(* The host begins with nothing hooked by the loader.                      *)
HostBegins ==
  stage = "modloader_load" => stack = <<>> /\ target[LoadHook] = "none"

(* A hook stands at its target only, and behind hooks of the same function. *)
Placed ==
  /\ \A f \in Functions, x \in Hooks : x \in Range(start[f]) => target[x] = f
  /\ \A h, x \in Hooks : x \in Range(saved[h]) => target[h] # "none" /\ target[x] = target[h]
  /\ \A l \in LoaderHooks : target[l] \in {"none", TargetOf(l)}
  /\ \A i \in DOMAIN stack : stack[i].run \in Hooks => target[stack[i].run] # "none"

(* What is behind a hook is behind whatever it is behind.                  *)
Closed ==
  /\ \A f \in Functions, x \in Hooks : x \in Range(start[f]) => Range(saved[x]) \subseteq Range(start[f])
  /\ \A h, x \in Hooks : x \in Range(saved[h]) => Range(saved[x]) \subseteq Range(saved[h])
  /\ \A h \in Hooks : h \notin Range(saved[h])

(* A call that is about to reach a hook of the loader reaches one that is   *)
(* still to be undone.                                                     *)
ReachesUndone ==
  \A h \in Hooks, l \in LoaderHooks :
    stack # <<>> /\ Last(stack) = Frame(h, "enter") /\ l \in Range(saved[h]) => ToBeUndone(l)

(* What will be copied back has the hooks of mods that are to stay.        *)
UndoKeeps ==
  \A h \in ModHooks, l \in LoaderHooks :
    target[h] = TargetOf(l) /\ h \notin disturbed /\ ToBeUndone(l) => h \in Range(saved[l])

(* Calls of the function that l is for do not nest.                        *)
Single(l) == l = LoadHook \/ ~nested

(* Then l runs at most once at a time.                                     *)
OneCall ==
  \A l \in LoaderHooks : Single(l) =>
    /\ \A i, j \in DOMAIN stack : stack[i].run = l /\ stack[j].run = l => i = j
    /\ \A h \in Hooks :
         stack # <<>> /\ Last(stack) = Frame(h, "enter") /\ l \in Range(saved[h]) =>
           \A i \in DOMAIN stack : stack[i].run # l

(* And it is undone before it loads mods.                                  *)
AfterUndo ==
  \A l \in LoaderHooks : Single(l) =>
    /\ worked[l] <= 1
    /\ worked[l] > 0 => ~ToBeUndone(l)
    /\ target[l] = "none" => worked[l] = 0
    /\ \A i \in DOMAIN stack :
         /\ stack[i] = Frame(l, "load_mods") => ~ToBeUndone(l) /\ worked[l] = 0
         /\ stack[i] = Frame(l, "setup_unity_hook") => worked[l] > 0

(* The hook at DestroyObject is made by the other one, which is over then. *)
UnityAfterLoad ==
  target[UnityHook] # "none" =>
    /\ worked[LoadHook] > 0
    /\ \A i \in DOMAIN stack : stack[i].run # LoadHook

HooksInv ==
  /\ TypeOK
  /\ StackShape
  /\ HostBegins
  /\ Placed
  /\ Closed
  /\ ReachesUndone
  /\ UndoKeeps
  /\ ModHooksStay
  /\ OneCall
  /\ AfterUndo
  /\ UnityAfterLoad

-----------------------------------------------------------------------------
(* Sequence facts.                                                         *)

Step == {"enter", "called", "load_mods", "setup_unity_hook", "dlopen", "install_load_hook"}
          \union Functions
FrameType == [run : Functions \union Hooks \union {Host}, step : Step]

(* The empty sequence has no elements.                                     *)
LEMMA RangeOfEmpty == Range(<<>>) = {}
BY DEF Range

(* The first element of a sequence is one of its elements.                 *)
LEMMA HeadInRange ==
  ASSUME NEW S, NEW s \in Seq(S), s # <<>>
  PROVE  Head(s) \in Range(s) /\ Head(s) \in S
<1>1. Len(s) \in Nat /\ Len(s) # 0 /\ DOMAIN s = 1..Len(s) /\ Head(s) = s[1] /\ Head(s) \in S
  BY LenProperties, HeadTailProperties, EmptySeq
<1> QED
  BY <1>1 DEF Range

(* Prepending adds one element.                                            *)
LEMMA RangeOfPrepend ==
  ASSUME NEW S, NEW s \in Seq(S), NEW e \in S
  PROVE  <<e>> \o s \in Seq(S) /\ Range(<<e>> \o s) = {e} \union Range(s)
<1>1. /\ <<e>> \in Seq(S) /\ Len(<<e>>) = 1 /\ <<e>>[1] = e
      /\ Len(s) \in Nat /\ DOMAIN s = 1..Len(s)
  BY LenProperties
<1> DEFINE t == <<e>> \o s
<1>2. /\ t \in Seq(S)
      /\ Len(t) = 1 + Len(s)
      /\ \A i \in 1..(1 + Len(s)) : t[i] = IF i <= 1 THEN e ELSE s[i - 1]
  BY <1>1, ConcatProperties
<1>3. DOMAIN t = 1..(1 + Len(s))
  BY <1>2, LenProperties
<1> HIDE DEF t
<1>4. t[1] = e /\ 1 \in DOMAIN t
  BY <1>1, <1>2, <1>3
<1>5. \A j \in DOMAIN s : j + 1 \in DOMAIN t /\ t[j + 1] = s[j]
  BY <1>1, <1>2, <1>3
<1>6. \A i \in DOMAIN t : i = 1 \/ (i - 1 \in DOMAIN s /\ t[i] = s[i - 1])
  BY <1>1, <1>2, <1>3
<1>7. Range(t) = {e} \union Range(s)
  BY <1>4, <1>5, <1>6 DEF Range
<1> QED
  BY <1>2, <1>7 DEF t

-----------------------------------------------------------------------------
(* The stack.                                                              *)

(* The innermost frame, and the frames below it.                           *)
LEMMA StackFacts ==
  ASSUME NEW s \in Seq(FrameType), s # <<>>
  PROVE  /\ Len(s) \in Nat \ {0}
         /\ DOMAIN s = 1..Len(s)
         /\ Last(s) = s[Len(s)]
         /\ Last(s) \in FrameType
         /\ Front(s) \in Seq(FrameType)
         /\ Len(Front(s)) = Len(s) - 1
         /\ DOMAIN Front(s) = 1..(Len(s) - 1)
         /\ \A i \in 1..(Len(s) - 1) : Front(s)[i] = s[i]
<1>1. Len(s) \in Nat \ {0} /\ DOMAIN s = 1..Len(s) /\ \A i \in 1..Len(s) : s[i] \in FrameType
  BY LenProperties, EmptySeq, ElementOfSeq
<1>2. /\ Front(s) \in Seq(FrameType)
      /\ Len(Front(s)) = Len(s) - 1
      /\ \A i \in 1..(Len(s) - 1) : Front(s)[i] = s[i]
  BY <1>1, SubSeqProperties DEF Front
<1>3. DOMAIN Front(s) = 1..(Len(s) - 1)
  BY <1>2, LenProperties
<1> QED
  BY <1>1, <1>2, <1>3 DEF Last

(* A frame goes on to another step, and nothing else changes.              *)
LEMMA NextStepFacts ==
  ASSUME stack \in Seq(FrameType), stack # <<>>, NEW step \in Step
  PROVE  /\ NextStep(step) \in Seq(FrameType)
         /\ Len(NextStep(step)) = Len(stack)
         /\ DOMAIN NextStep(step) = DOMAIN stack
         /\ \A i \in 1..(Len(stack) - 1) : NextStep(step)[i] = stack[i]
         /\ NextStep(step)[Len(stack)] = Frame(stack[Len(stack)].run, step)
         /\ Last(NextStep(step)) = Frame(stack[Len(stack)].run, step)
         /\ NextStep(step) # <<>>
<1> DEFINE top == [Last(stack) EXCEPT !.step = step]
<1>1. top = Frame(stack[Len(stack)].run, step) /\ top \in FrameType
  <2>1. Last(stack) = stack[Len(stack)] /\ Last(stack) \in FrameType
    BY StackFacts
  <2>2. \A r \in FrameType :
          /\ [r EXCEPT !.step = step] = [run |-> r.run, step |-> step]
          /\ [r EXCEPT !.step = step] \in FrameType
    BY DEF FrameType
  <2> QED
    BY <2>1, <2>2 DEF Frame
<1> HIDE DEF top
<1>2. /\ NextStep(step) = Append(Front(stack), top)
      /\ Front(stack) \in Seq(FrameType)
      /\ Len(Front(stack)) = Len(stack) - 1
      /\ Len(stack) \in Nat \ {0}
      /\ DOMAIN stack = 1..Len(stack)
      /\ \A i \in 1..(Len(stack) - 1) : Front(stack)[i] = stack[i]
  BY StackFacts DEF NextStep, top
<1>3. /\ NextStep(step) \in Seq(FrameType)
      /\ NextStep(step) # <<>>
      /\ Len(NextStep(step)) = Len(stack)
      /\ \A i \in 1..(Len(stack) - 1) : NextStep(step)[i] = stack[i]
      /\ NextStep(step)[Len(stack)] = top
  BY <1>1, <1>2, AppendProperties
<1> QED
  BY <1>1, <1>2, <1>3, StackFacts

(* A call is made from the innermost frame.                                *)
LEMMA CallFacts ==
  ASSUME stack \in Seq(FrameType), stack # <<>>, NEW g \in FrameType,
         stack' = Append(NextStep("called"), g)
  PROVE  /\ stack' \in Seq(FrameType)
         /\ Len(stack') = Len(stack) + 1
         /\ DOMAIN stack' = 1..(Len(stack) + 1)
         /\ \A i \in 1..(Len(stack) - 1) : stack'[i] = stack[i]
         /\ stack'[Len(stack)] = Frame(stack[Len(stack)].run, "called")
         /\ stack'[Len(stack) + 1] = g
         /\ Last(stack') = g
<1>1. /\ NextStep("called") \in Seq(FrameType)
      /\ Len(NextStep("called")) = Len(stack)
      /\ \A i \in 1..(Len(stack) - 1) : NextStep("called")[i] = stack[i]
      /\ NextStep("called")[Len(stack)] = Frame(stack[Len(stack)].run, "called")
      /\ Len(stack) \in Nat \ {0}
  BY NextStepFacts, StackFacts DEF Step
<1>2. /\ stack' \in Seq(FrameType)
      /\ stack' # <<>>
      /\ Len(stack') = Len(stack) + 1
      /\ \A i \in 1..Len(stack) : stack'[i] = NextStep("called")[i]
      /\ stack'[Len(stack) + 1] = g
  BY <1>1, AppendProperties
<1>3. DOMAIN stack' = 1..(Len(stack) + 1) /\ Last(stack') = stack'[Len(stack) + 1]
  BY <1>1, <1>2, StackFacts
<1>4. /\ \A i \in 1..(Len(stack) - 1) : stack'[i] = stack[i]
      /\ stack'[Len(stack)] = Frame(stack[Len(stack)].run, "called")
  BY <1>1, <1>2
<1> QED
  BY <1>2, <1>3, <1>4

-----------------------------------------------------------------------------
(* Steps that take frames away.                                            *)

(* Everything in the invariant but the types.                              *)
Facts ==
  /\ StackShape
  /\ HostBegins
  /\ Placed
  /\ Closed
  /\ ReachesUndone
  /\ UndoKeeps
  /\ ModHooksStay
  /\ OneCall
  /\ AfterUndo
  /\ UnityAfterLoad

(* A step that changes nothing of this keeps it.                            *)
LEMMA FactsKept ==
  ASSUME Facts, UNCHANGED <<start, saved, target, stack, stage, worked, nested, disturbed>>
  PROVE  Facts'
<1>1. StackShape' /\ HostBegins' /\ UnityAfterLoad'
  BY DEF Facts, StackShape, HostBegins, UnityAfterLoad
<1>2. Placed' /\ Closed' /\ ModHooksStay'
  BY DEF Facts, Placed, Closed, ModHooksStay
<1>3. \A l \in LoaderHooks : ToBeUndone(l)' <=> ToBeUndone(l)
  BY DEF ToBeUndone
<1>4. ReachesUndone' /\ UndoKeeps'
  BY <1>3 DEF Facts, ReachesUndone, UndoKeeps
<1>5. OneCall'
  BY DEF Facts, OneCall, Single
<1>6. AfterUndo'
  BY <1>3 DEF Facts, AfterUndo, Single
<1> QED
  BY <1>1, <1>2, <1>4, <1>5, <1>6 DEF Facts

(* The names of functions, hooks and the host's entry point are different. *)
LEMMA Names ==
  /\ Functions \intersect Hooks = {}
  /\ Host \notin Functions \union Hooks
  /\ ModHooks \intersect LoaderHooks = {}
  /\ LoadHook # UnityHook
  /\ LoaderHooks = {LoadHook, UnityHook}
  /\ TargetOf(LoadHook) = "il2cpp_init"
  /\ TargetOf(UnityHook) = "DestroyObject"
  /\ \A l \in LoaderHooks : TargetOf(l) \in Functions /\ l \in Hooks
  /\ \A h \in ModHooks : h \in Hooks
  /\ "none" \notin Functions
BY HookAssumption DEF Functions, Hooks, Host, LoadHook, UnityHook, LoaderHooks, TargetOf

(* The innermost call has returned, and what is left has called it.        *)
Popped ==
  /\ stack # <<>>
  /\ stack' = Front(stack)

(* What a return leaves of the stack.                                      *)
LEMMA PoppedFacts ==
  ASSUME stack \in Seq(FrameType), StackShape, Popped
  PROVE  /\ stack' \in Seq(FrameType)
         /\ DOMAIN stack' \subseteq DOMAIN stack
         /\ \A i \in DOMAIN stack' :
              /\ stack'[i] = stack[i]
              /\ stack'[i].step = "called"
              /\ stack'[i].run # Host
         /\ \A h : stack' # <<>> => Last(stack') # Frame(h, "enter")
         /\ Len(stack') = Len(stack) - 1
         /\ Len(stack) \notin DOMAIN stack'
<1>1. /\ stack' \in Seq(FrameType)
      /\ Len(stack') = Len(stack) - 1
      /\ DOMAIN stack' = 1..(Len(stack) - 1)
      /\ DOMAIN stack = 1..Len(stack)
      /\ Len(stack) \in Nat \ {0}
      /\ \A i \in DOMAIN stack' : stack'[i] = stack[i]
  BY StackFacts DEF Popped
<1>2. \A i \in DOMAIN stack' : i \in DOMAIN stack /\ i < Len(stack) /\ Len(stack) # 1
  BY <1>1
<1>3. \A i \in DOMAIN stack' : stack'[i].step = "called" /\ stack'[i].run # Host
  BY <1>1, <1>2 DEF StackShape
<1>4. ASSUME NEW h, stack' # <<>> PROVE Last(stack') # Frame(h, "enter")
  <2>1. Last(stack') = stack'[Len(stack')] /\ Len(stack') \in DOMAIN stack'
    BY <1>1, <1>4, StackFacts
  <2>2. Frame(h, "enter").step = "enter"
    BY DEF Frame
  <2> QED
    BY <1>3, <2>1, <2>2
<1> QED
  BY <1>1, <1>2, <1>3, <1>4

(* A return keeps the invariant.                                           *)
LEMMA ReturnKeeps ==
  ASSUME TypeOK, Facts, stack \in Seq(FrameType), Popped,
         UNCHANGED <<start, saved, target, worked, nested, disturbed, stage>>
  PROVE  Facts'
<1> USE DEF Facts
<1>1. /\ stack' \in Seq(FrameType)
      /\ DOMAIN stack' \subseteq DOMAIN stack
      /\ \A i \in DOMAIN stack' :
           /\ stack'[i] = stack[i]
           /\ stack'[i].step = "called"
           /\ stack'[i].run # Host
      /\ \A h : stack' # <<>> => Last(stack') # Frame(h, "enter")
  BY PoppedFacts
<1>2. \A l \in LoaderHooks : ToBeUndone(l)' => ToBeUndone(l)
  BY <1>1 DEF ToBeUndone
<1>3. StackShape' /\ HostBegins'
  BY <1>1 DEF StackShape, HostBegins, Popped
<1>4. Placed' /\ Closed' /\ ModHooksStay'
  BY <1>1 DEF Placed, Closed, ModHooksStay
<1>5. ReachesUndone'
  BY <1>1 DEF ReachesUndone
<1>6. UndoKeeps'
  BY <1>2 DEF UndoKeeps
<1>7. OneCall'
  BY <1>1 DEF OneCall, Single
<1>8. AfterUndo'
  BY <1>1, <1>2 DEF AfterUndo, Single
<1>9. UnityAfterLoad'
  BY <1>1 DEF UnityAfterLoad
<1> QED
  BY <1>3, <1>4, <1>5, <1>6, <1>7, <1>8, <1>9

(* A hook of the loader is made where it was not before, and the call that  *)
(* makes it returns.                                                       *)
LEMMA InstallKeeps ==
  ASSUME TypeOK, Facts, stack \in Seq(FrameType), Popped, NEW l \in LoaderHooks, InstallHook(l),
         target[l] = "none",
         l = UnityHook => worked[LoadHook] > 0 /\ \A i \in DOMAIN stack' : stack'[i].run # LoadHook,
         UNCHANGED <<worked, nested, disturbed, stage>>
  PROVE  Facts'
<1> USE DEF Facts
<1> DEFINE f == TargetOf(l)
<1>1. /\ stack' \in Seq(FrameType)
      /\ DOMAIN stack' \subseteq DOMAIN stack
      /\ \A i \in DOMAIN stack' :
           /\ stack'[i] = stack[i]
           /\ stack'[i].step = "called"
           /\ stack'[i].run # Host
      /\ \A h : stack' # <<>> => Last(stack') # Frame(h, "enter")
  BY PoppedFacts
<1>2. /\ f \in Functions /\ l \in Hooks
      /\ start[f] \in Seq(Hooks)
      /\ saved'[l] = start[f] /\ \A h \in Hooks \ {l} : saved'[h] = saved[h]
      /\ Range(start'[f]) = {l} \union Range(start[f])
      /\ \A g \in Functions \ {f} : start'[g] = start[g]
      /\ target'[l] = f /\ \A h \in Hooks \ {l} : target'[h] = target[h]
  BY Names, RangeOfPrepend DEF InstallHook, TypeOK
<1>3. \A m \in LoaderHooks \ {l} : TargetOf(m) \in Functions \ {f} /\ m \in Hooks \ {l}
  BY Names
<1>4. \A m \in LoaderHooks \ {l} : ToBeUndone(m)' => ToBeUndone(m)
  BY <1>1, <1>2, <1>3 DEF ToBeUndone
<1>5. StackShape' /\ HostBegins'
  BY <1>1 DEF StackShape, HostBegins, Popped
<1>6. /\ \A g \in Functions : l \notin Range(start[g])
      /\ \A h \in Hooks : l \notin Range(saved[h])
      /\ \A i \in DOMAIN stack : stack[i].run # l
  BY <1>2, Names DEF Placed
<1>7. Placed'
  <2>1. ASSUME NEW g \in Functions, NEW x \in Hooks, x \in Range(start'[g])
        PROVE  target'[x] = g
    BY <1>2, <1>6, <2>1 DEF Placed
  <2>2. ASSUME NEW h \in Hooks, NEW x \in Hooks, x \in Range(saved'[h])
        PROVE  target'[h] # "none" /\ target'[x] = target'[h]
    BY <1>2, <1>6, <2>2, Names DEF Placed
  <2>3. \A m \in LoaderHooks : target'[m] \in {"none", TargetOf(m)}
    BY <1>2, <1>3 DEF Placed
  <2>4. \A i \in DOMAIN stack' : stack'[i].run \in Hooks => target'[stack'[i].run] # "none"
    BY <1>1, <1>2, <1>6 DEF Placed
  <2> QED
    BY <2>1, <2>2, <2>3, <2>4 DEF Placed
<1>8. Closed'
  <2>1. ASSUME NEW g \in Functions, NEW x \in Hooks, x \in Range(start'[g])
        PROVE  Range(saved'[x]) \subseteq Range(start'[g])
    <3>1. CASE x = l
      BY <1>2, <1>6, <2>1, <3>1
    <3>2. CASE x # l
      BY <1>2, <2>1, <3>2 DEF Closed
    <3> QED
      BY <3>1, <3>2
  <2>2. ASSUME NEW h \in Hooks, NEW x \in Hooks, x \in Range(saved'[h])
        PROVE  Range(saved'[x]) \subseteq Range(saved'[h])
    <3>1. CASE h = l
      <4>1. x \in Range(start[f]) /\ x # l /\ saved'[x] = saved[x] /\ saved'[h] = start[f]
        BY <1>2, <1>6, <2>2, <3>1
      <4> QED
        BY <1>2, <4>1 DEF Closed
    <3>2. CASE h # l
      <4>1. x \in Range(saved[h]) /\ x # l /\ saved'[x] = saved[x] /\ saved'[h] = saved[h]
        BY <1>2, <1>6, <2>2, <3>2
      <4> QED
        BY <4>1 DEF Closed
    <3> QED
      BY <3>1, <3>2
  <2>3. \A h \in Hooks : h \notin Range(saved'[h])
    BY <1>2, <1>6 DEF Closed
  <2> QED
    BY <2>1, <2>2, <2>3 DEF Closed
<1>9. ReachesUndone'
  BY <1>1 DEF ReachesUndone
<1>10. UndoKeeps'
  <2> SUFFICES ASSUME NEW h \in ModHooks, NEW m \in LoaderHooks,
                      target'[h] = TargetOf(m), h \notin disturbed, ToBeUndone(m)'
               PROVE  h \in Range(saved'[m])
    BY DEF UndoKeeps
  <2>1. target'[h] = target[h] /\ target[h] # "none"
    BY <1>2, Names
  <2>2. CASE m = l
    BY <1>2, <2>1, <2>2 DEF ModHooksStay
  <2>3. CASE m # l
    BY <1>2, <1>3, <1>4, <2>1, <2>3 DEF UndoKeeps
  <2> QED
    BY <2>2, <2>3
<1>11. ModHooksStay'
  <2> SUFFICES ASSUME NEW h \in ModHooks, target'[h] # "none", h \notin disturbed
               PROVE  h \in Range(start'[target'[h]])
    BY DEF ModHooksStay
  <2>1. target'[h] = target[h] /\ target[h] \in Functions
    BY <1>2, Names DEF TypeOK
  <2> QED
    BY <1>2, <2>1 DEF ModHooksStay
<1>12. OneCall'
  BY <1>1 DEF OneCall, Single
<1>13. AfterUndo'
  <2>1. \A i \in DOMAIN stack', m \in LoaderHooks :
          stack'[i] # Frame(m, "load_mods") /\ stack'[i] # Frame(m, "setup_unity_hook")
    BY <1>1 DEF Frame
  <2>2. ASSUME Single(l) PROVE worked[l] = 0
    BY <2>2 DEF AfterUndo
  <2>3. \A m \in LoaderHooks \ {l} : target'[m] = target[m]
    BY <1>2, <1>3
  <2> QED
    BY <1>4, <2>1, <2>2, <2>3 DEF AfterUndo, Single
<1>14. UnityAfterLoad'
  <2>1. CASE l = UnityHook
    BY <2>1 DEF UnityAfterLoad
  <2>2. CASE l = LoadHook
    <3>1. worked[LoadHook] = 0
      BY <2>2 DEF AfterUndo, Single
    <3>2. target[UnityHook] = "none"
      BY <3>1 DEF UnityAfterLoad
    <3> QED
      BY <1>2, <2>2, <3>2, Names DEF UnityAfterLoad
  <2> QED
    BY <2>1, <2>2, Names
<1> QED
  BY <1>5, <1>7, <1>8, <1>9, <1>10, <1>11, <1>12, <1>13, <1>14

-----------------------------------------------------------------------------
(* Calls.                                                                  *)

(* The last of the first n numbers, and those before it.                   *)
LEMMA UpTo == \A n \in Nat \ {0} : \A i \in 1..n : i \in 1..(n - 1) \/ i = n
OBVIOUS

(* A call, by the innermost frame or by the game, of f through hooks.      *)
Calls(f, hooks) ==
  /\ DOMAIN stack = 1..Len(stack)
  /\ Len(stack) \in Nat
  /\ stack' \in Seq(FrameType)
  /\ Len(stack') = Len(stack) + 1
  /\ stack'[Len(stack) + 1] = Called(f, hooks)
  /\ \A i \in 1..Len(stack) :
       /\ stack[i].step \in {"enter", "called"}
       /\ stack'[i] = Frame(stack[i].run, "called")
  /\ stage' # "modloader_load"
  /\ UNCHANGED <<start, saved, target, worked, disturbed>>

(* The hooks are a part of what stands at f.  Those of the loader among     *)
(* them are still to be undone, and the single ones are not running.       *)
MayCall(f, hooks) ==
  /\ \A x \in Range(hooks) : x \in Hooks /\ target[x] = f /\ Range(saved[x]) \subseteq Range(hooks)
  /\ \A l \in LoaderHooks : l \in Range(hooks) => ToBeUndone(l)
  /\ \A l \in LoaderHooks :
       Single(l)' => /\ Single(l)
                     /\ l \in Range(hooks) => \A i \in DOMAIN stack : stack[i].run # l

(* Such a call keeps the invariant.                                        *)
LEMMA CallKeeps ==
  ASSUME TypeOK, Facts, NEW f \in Functions, NEW hooks \in Seq(Hooks),
         Calls(f, hooks), MayCall(f, hooks)
  PROVE  Facts'
<1> USE DEF Facts, Calls, MayCall
<1> DEFINE n == Len(stack)
           g == Called(f, hooks)
<1>1. /\ n \in Nat
      /\ DOMAIN stack = 1..n
      /\ DOMAIN stack' = 1..(n + 1)
      /\ stack'[n + 1] = g
      /\ Last(stack') = g
      /\ \A i \in 1..n : stack'[i].run = stack[i].run /\ stack'[i].step = "called"
      /\ \A i \in 1..n : stack[i].run # Host
  <2>1. stack' # <<>>
    BY LenProperties, EmptySeq
  <2>2. DOMAIN stack' = 1..(n + 1) /\ Last(stack') = stack'[n + 1]
    BY <2>1, StackFacts
  <2>3. ASSUME NEW i \in 1..n PROVE stack'[i].run = stack[i].run /\ stack'[i].step = "called"
    <3>1. stack'[i] = Frame(stack[i].run, "called")
      BY DEF n
    <3> QED
      BY <3>1 DEF Frame
  <2>4. \A i \in 1..n : stack[i].run # Host
    BY DEF StackShape
  <2> QED
    BY <2>2, <2>3, <2>4
<1>2. /\ g.step = "enter"
      /\ g.run \in Functions \union Hooks
      /\ g.run \in Hooks => g.run \in Range(hooks)
  <2>1. CASE hooks = <<>>
    BY <2>1, Names DEF Called, Frame
  <2>2. CASE hooks # <<>>
    BY <2>2, HeadInRange DEF Called, Frame
  <2> QED
    BY <2>1, <2>2
<1> HIDE DEF g, n
<1>3. ASSUME NEW l \in LoaderHooks, ToBeUndone(l)' PROVE ToBeUndone(l)
  <2>1. CASE l \in Range(start'[TargetOf(l)])
    BY <2>1 DEF ToBeUndone
  <2>2. ASSUME NEW i \in DOMAIN stack', stack'[i] \in {Frame(l, "enter"), Frame(l, "called")}
        PROVE  ToBeUndone(l)
    <3>1. stack'[i].run = l
      BY <2>2 DEF Frame
    <3>2. CASE i \in 1..n
      <4>1. stack[i].run = l /\ stack[i].step \in {"enter", "called"} /\ i \in DOMAIN stack
        BY <1>1, <3>1, <3>2
      <4>2. stack[i] \in FrameType
        BY <4>1, ElementOfSeq DEF TypeOK, FrameType, Step, n
      <4>3. stack[i] \in {Frame(l, "enter"), Frame(l, "called")}
        BY <4>1, <4>2 DEF FrameType, Frame
      <4> QED
        BY <4>1, <4>3 DEF ToBeUndone
    <3>3. CASE i = n + 1
      BY <1>1, <1>2, <3>1, <3>3, Names
    <3> QED
      BY <1>1, <3>2, <3>3
  <2> QED
    BY <1>3, <2>1, <2>2 DEF ToBeUndone
<1>4. StackShape'
  <2>1. ASSUME NEW i \in DOMAIN stack'
        PROVE  /\ i < Len(stack') => stack'[i].step = "called"
               /\ stack'[i].step \in {"enter", "called"}
               /\ stack'[i].run # Host
    BY <1>1, <1>2, Names DEF n
  <2> QED
    BY <2>1 DEF StackShape
<1>5. HostBegins' /\ ModHooksStay' /\ Closed'
  BY DEF HostBegins, ModHooksStay, Closed
<1>6. Placed'
  <2>1. ASSUME NEW i \in DOMAIN stack', stack'[i].run \in Hooks PROVE target[stack'[i].run] # "none"
    BY <1>1, <1>2, <2>1, Names DEF Placed
  <2> QED
    BY <2>1 DEF Placed
<1>7. \A h \in Hooks : Last(stack') = Frame(h, "enter") =>
        h \in Range(hooks) /\ Range(saved[h]) \subseteq Range(hooks)
  BY <1>1, <1>2 DEF Frame
<1>8. \A l \in LoaderHooks : ToBeUndone(l) => ToBeUndone(l)'
  <2> SUFFICES ASSUME NEW l \in LoaderHooks, NEW i \in DOMAIN stack,
                      stack[i] \in {Frame(l, "enter"), Frame(l, "called")}
               PROVE  stack'[i] = Frame(l, "called") /\ i \in DOMAIN stack'
    BY DEF ToBeUndone
  <2>1. stack[i].run = l
    BY DEF Frame
  <2> QED
    BY <1>1, <2>1 DEF n
<1>9. ReachesUndone'
  BY <1>7, <1>8 DEF ReachesUndone
<1>10. UndoKeeps'
  BY <1>3 DEF UndoKeeps
<1>11. OneCall'
  <2> SUFFICES ASSUME NEW l \in LoaderHooks, Single(l)'
               PROVE  /\ \A i, j \in DOMAIN stack' : stack'[i].run = l /\ stack'[j].run = l => i = j
                      /\ \A h \in Hooks : Last(stack') = Frame(h, "enter") /\ l \in Range(saved[h]) =>
                           \A i \in DOMAIN stack' : stack'[i].run # l
    BY DEF OneCall
  <2>1. /\ Single(l)
        /\ l \in Range(hooks) => \A i \in DOMAIN stack : stack[i].run # l
        /\ \A i, j \in DOMAIN stack : stack[i].run = l /\ stack[j].run = l => i = j
    BY DEF OneCall
  <2>2. g.run = l => l \in Range(hooks)
    BY <1>2, Names
  <2>3. \A i, j \in DOMAIN stack' : stack'[i].run = l /\ stack'[j].run = l => i = j
    BY <1>1, <2>1, <2>2
  <2>4. ASSUME NEW h \in Hooks, Last(stack') = Frame(h, "enter"), l \in Range(saved[h])
        PROVE  \A i \in DOMAIN stack' : stack'[i].run # l
    <3>1. l \in Range(hooks)
      BY <1>7, <2>4
    <3>2. g.run = h /\ h # l
      BY <1>1, <2>4, Names DEF Frame, Closed
    <3> QED
      BY <1>1, <2>1, <3>1, <3>2
  <2> QED
    BY <2>3, <2>4
<1>12. AfterUndo'
  <2>1. \A i \in DOMAIN stack', l \in LoaderHooks :
          stack'[i] # Frame(l, "load_mods") /\ stack'[i] # Frame(l, "setup_unity_hook")
    BY <1>1, <1>2 DEF Frame
  <2> QED
    BY <1>3, <2>1 DEF AfterUndo
<1>13. UnityAfterLoad'
  <2> SUFFICES ASSUME target[UnityHook] # "none"
               PROVE  \A i \in DOMAIN stack' : stack'[i].run # LoadHook
    BY DEF UnityAfterLoad
  <2>1. worked[LoadHook] > 0 /\ \A i \in DOMAIN stack : stack[i].run # LoadHook
    BY DEF UnityAfterLoad
  <2>2. ~ToBeUndone(LoadHook)
    BY <2>1, Names DEF AfterUndo, Single
  <2>3. g.run # LoadHook
    BY <1>2, <2>2, Names
  <2> QED
    BY <1>1, <2>1, <2>3
<1> QED
  BY <1>4, <1>5, <1>6, <1>9, <1>10, <1>11, <1>12, <1>13

(* The game calls a function.                                              *)
LEMMA GameCallsKeeps ==
  ASSUME TypeOK, Facts, stack \in Seq(FrameType), NEW f \in Functions, GameCalls(f)
  PROVE  Facts' /\ stack' \in Seq(FrameType)
<1>1. /\ stack = <<>> /\ stage' # "modloader_load"
      /\ stack' = <<Called(f, start[f])>>
      /\ UNCHANGED <<start, saved, target, worked, disturbed, nested>>
      /\ start[f] \in Seq(Hooks)
  BY DEF GameCalls, memory, history, TypeOK
<1>2. Called(f, start[f]) \in FrameType
  <2>1. start[f] # <<>> => Head(start[f]) \in Hooks
    BY <1>1, HeadInRange
  <2> QED
    BY <1>1, <2>1 DEF Called, Frame, FrameType, Step
<1>3. /\ stack' \in Seq(FrameType)
      /\ Len(stack') = 1 /\ Len(stack) = 0
      /\ stack'[1] = Called(f, start[f])
      /\ DOMAIN stack = 1..0
  BY <1>1, <1>2
<1>4. \A x \in Range(start[f]) : x \in Hooks /\ target[x] = f /\ Range(saved[x]) \subseteq Range(start[f])
  <2>1. \A x \in Range(start[f]) : x \in Hooks
    BY <1>1, LenProperties, ElementOfSeq DEF Range
  <2> QED
    BY <2>1 DEF Facts, Placed, Closed
<1>5. \A l \in LoaderHooks : l \in Range(start[f]) => ToBeUndone(l)
  BY <1>4, Names DEF ToBeUndone, Facts, Placed
<1>6. \A l \in LoaderHooks : Single(l)' => Single(l)
  BY <1>1 DEF Single
<1>7. Calls(f, start[f]) /\ MayCall(f, start[f])
  BY <1>1, <1>3, <1>4, <1>5, <1>6 DEF Calls, MayCall
<1> QED
  BY <1>1, <1>3, <1>7, CallKeeps

(* A call inside DestroyObject.                                            *)
LEMMA NestedCallKeeps ==
  ASSUME TypeOK, Facts, stack \in Seq(FrameType), NestedCall
  PROVE  Facts' /\ stack' \in Seq(FrameType)
<1> DEFINE f == "DestroyObject"
<1>1. /\ stack # <<>> /\ Last(stack) = Frame(f, "enter")
      /\ stack' = Append(NextStep("called"), Called(f, start[f]))
      /\ nested' = (nested \/ \E i \in DOMAIN stack : stack[i].run = UnityHook)
      /\ UNCHANGED <<start, saved, target, worked, disturbed, stage>>
      /\ f \in Functions
      /\ start[f] \in Seq(Hooks)
  BY DEF NestedCall, TopIs, memory, TypeOK, Functions
<1>2. Called(f, start[f]) \in FrameType
  <2>1. start[f] # <<>> => Head(start[f]) \in Hooks
    BY <1>1, HeadInRange
  <2> QED
    BY <1>1, <2>1 DEF Called, Frame, FrameType, Step
<1>3. /\ stack' \in Seq(FrameType)
      /\ Len(stack') = Len(stack) + 1
      /\ stack'[Len(stack) + 1] = Called(f, start[f])
      /\ \A i \in 1..(Len(stack) - 1) : stack'[i] = stack[i]
      /\ stack'[Len(stack)] = Frame(stack[Len(stack)].run, "called")
  BY <1>1, <1>2, CallFacts
<1>4. /\ DOMAIN stack = 1..Len(stack) /\ Len(stack) \in Nat \ {0}
      /\ stack[Len(stack)] = Frame(f, "enter")
      /\ \A i \in 1..(Len(stack) - 1) : stack[i].step = "called" /\ stack[i] \in FrameType
  BY <1>1, StackFacts, ElementOfSeq DEF Facts, StackShape
<1>5. /\ \A i \in DOMAIN stack : stack[i].step \in {"enter", "called"}
      /\ \A i \in 1..Len(stack) : stack'[i] = Frame(stack[i].run, "called")
  <2>1. \A i \in 1..(Len(stack) - 1) : stack[i] = Frame(stack[i].run, "called")
    BY <1>4 DEF FrameType, Frame
  <2>2. \A i \in 1..Len(stack) : i \in 1..(Len(stack) - 1) \/ i = Len(stack)
    BY <1>4, UpTo
  <2>3. Frame(f, "enter").step = "enter"
    BY DEF Frame
  <2> QED
    BY <1>3, <1>4, <2>1, <2>2, <2>3
<1>6. \A x \in Range(start[f]) : x \in Hooks /\ target[x] = f /\ Range(saved[x]) \subseteq Range(start[f])
  <2>1. \A x \in Range(start[f]) : x \in Hooks
    BY <1>1, LenProperties, ElementOfSeq DEF Range
  <2> QED
    BY <1>1, <2>1 DEF Facts, Placed, Closed
<1>7. \A l \in LoaderHooks : l \in Range(start[f]) => ToBeUndone(l) /\ l = UnityHook
  <2>1. \A l \in LoaderHooks : l \in Range(start[f]) => TargetOf(l) = f
    BY <1>6, Names DEF Facts, Placed
  <2> QED
    BY <2>1, Names DEF ToBeUndone, TargetOf
<1>8. \A l \in LoaderHooks :
        Single(l)' => /\ Single(l)
                      /\ l \in Range(start[f]) => \A i \in DOMAIN stack : stack[i].run # l
  BY <1>1, <1>7, Names DEF Single
<1>9. stage' # "modloader_load"
  BY <1>1 DEF Facts, HostBegins
<1>10. Calls(f, start[f])
  BY <1>1, <1>3, <1>4, <1>5, <1>9 DEF Calls
<1>11. MayCall(f, start[f])
  BY <1>6, <1>7, <1>8 DEF MayCall
<1> QED
  BY <1>1, <1>3, <1>10, <1>11, CallKeeps

(* A hook calls what was there before it.                                  *)
LEMMA CallOriginalKeeps ==
  ASSUME TypeOK, Facts, stack \in Seq(FrameType), CallOriginal
  PROVE  Facts' /\ stack' \in Seq(FrameType)
<1>1. PICK h \in Hooks :
        /\ stack # <<>> /\ Last(stack) = Frame(h, "enter")
        /\ stack' = Append(NextStep("called"), Called(target[h], saved[h]))
        /\ UNCHANGED <<start, saved, target, worked, disturbed, nested, stage>>
  BY DEF CallOriginal, TopIs, memory, history
<1> DEFINE f == target[h]
<1>2. /\ DOMAIN stack = 1..Len(stack) /\ Len(stack) \in Nat \ {0}
      /\ stack[Len(stack)] = Frame(h, "enter")
      /\ \A i \in 1..(Len(stack) - 1) : stack[i].step = "called" /\ stack[i] \in FrameType
  BY <1>1, StackFacts, ElementOfSeq DEF Facts, StackShape
<1>3. f \in Functions /\ saved[h] \in Seq(Hooks)
  <2>1. Len(stack) \in DOMAIN stack /\ stack[Len(stack)].run = h
    BY <1>2 DEF Frame
  <2> QED
    BY <2>1 DEF TypeOK, Facts, Placed
<1>4. Called(f, saved[h]) \in FrameType
  <2>1. saved[h] # <<>> => Head(saved[h]) \in Hooks
    BY <1>3, HeadInRange
  <2> QED
    BY <1>3, <2>1 DEF Called, Frame, FrameType, Step
<1>5. /\ stack' \in Seq(FrameType)
      /\ Len(stack') = Len(stack) + 1
      /\ stack'[Len(stack) + 1] = Called(f, saved[h])
      /\ \A i \in 1..(Len(stack) - 1) : stack'[i] = stack[i]
      /\ stack'[Len(stack)] = Frame(stack[Len(stack)].run, "called")
  BY <1>1, <1>4, CallFacts
<1>6. /\ \A i \in DOMAIN stack : stack[i].step \in {"enter", "called"}
      /\ \A i \in 1..Len(stack) : stack'[i] = Frame(stack[i].run, "called")
  <2>1. \A i \in 1..(Len(stack) - 1) : stack[i] = Frame(stack[i].run, "called")
    BY <1>2 DEF FrameType, Frame
  <2>2. \A i \in 1..Len(stack) : i \in 1..(Len(stack) - 1) \/ i = Len(stack)
    BY <1>2, UpTo
  <2>3. Frame(h, "enter").step = "enter"
    BY DEF Frame
  <2> QED
    BY <1>2, <1>5, <2>1, <2>2, <2>3
<1>7. \A x \in Range(saved[h]) : x \in Hooks /\ target[x] = f /\ Range(saved[x]) \subseteq Range(saved[h])
  <2>1. \A x \in Range(saved[h]) : x \in Hooks
    BY <1>3, LenProperties, ElementOfSeq DEF Range
  <2> QED
    BY <2>1 DEF Facts, Placed, Closed
<1>8. \A l \in LoaderHooks : l \in Range(saved[h]) => ToBeUndone(l)
  BY <1>1 DEF Facts, ReachesUndone
<1>9. \A l \in LoaderHooks :
        Single(l)' => /\ Single(l)
                      /\ l \in Range(saved[h]) => \A i \in DOMAIN stack : stack[i].run # l
  BY <1>1 DEF Single, Facts, OneCall
<1>10. stage' # "modloader_load"
  BY <1>1 DEF Facts, HostBegins
<1>11. Calls(f, saved[h])
  BY <1>1, <1>2, <1>5, <1>6, <1>10 DEF Calls
<1>12. MayCall(f, saved[h])
  BY <1>7, <1>8, <1>9 DEF MayCall
<1> QED
  BY <1>3, <1>5, <1>11, <1>12, CallKeeps

-----------------------------------------------------------------------------
(* Steps inside a call.                                                    *)

(* The innermost frame is at the end of the stack, and may go on.          *)
LEMMA TopFacts ==
  ASSUME stack \in Seq(FrameType), NEW run, NEW step, TopIs(run, step), NEW next \in Step,
         stack' = NextStep(next)
  PROVE  /\ stack # <<>>
         /\ Len(stack) \in Nat \ {0}
         /\ DOMAIN stack = 1..Len(stack)
         /\ stack[Len(stack)] = Frame(run, step)
         /\ stack[Len(stack)].run = run /\ stack[Len(stack)].step = step
         /\ stack' \in Seq(FrameType)
         /\ stack' # <<>>
         /\ Len(stack') = Len(stack)
         /\ DOMAIN stack' = DOMAIN stack
         /\ \A i \in 1..(Len(stack) - 1) : stack'[i] = stack[i]
         /\ stack'[Len(stack)] = Frame(run, next)
         /\ stack'[Len(stack)].run = run /\ stack'[Len(stack)].step = next
         /\ Last(stack') = Frame(run, next)
         /\ \A i \in DOMAIN stack : stack'[i].run = stack[i].run
<1>1. stack # <<>> /\ Last(stack) = Frame(run, step)
  BY DEF TopIs
<1>2. /\ Len(stack) \in Nat \ {0}
      /\ DOMAIN stack = 1..Len(stack)
      /\ stack[Len(stack)] = Frame(run, step)
  BY <1>1, StackFacts
<1>3. stack[Len(stack)].run = run /\ stack[Len(stack)].step = step
  BY <1>2 DEF Frame
<1>4. /\ stack' \in Seq(FrameType)
      /\ stack' # <<>>
      /\ Len(stack') = Len(stack)
      /\ DOMAIN stack' = DOMAIN stack
      /\ \A i \in 1..(Len(stack) - 1) : stack'[i] = stack[i]
      /\ stack'[Len(stack)] = Frame(run, next)
      /\ Last(stack') = Frame(run, next)
  BY <1>1, <1>3, NextStepFacts
<1>5. stack'[Len(stack)].run = run /\ stack'[Len(stack)].step = next
  BY <1>4 DEF Frame
<1>6. \A i \in DOMAIN stack : stack'[i].run = stack[i].run
  BY <1>2, <1>3, <1>4, <1>5, UpTo
<1> QED
  BY <1>1, <1>2, <1>3, <1>4, <1>5, <1>6

(* A hook of the loader is undone.                                         *)
LEMMA UndoHookKeeps ==
  ASSUME TypeOK, Facts, stack \in Seq(FrameType), NEW l \in LoaderHooks, TopIs(l, "called"),
         undo_hook(l), stack' = NextStep("load_mods"),
         UNCHANGED <<saved, target, stage, worked, nested, disturbed>>
  PROVE  Facts' /\ stack' \in Seq(FrameType)
<1> USE DEF Facts
<1> DEFINE f == TargetOf(l)
           n == Len(stack)
<1>1. /\ stack # <<>>
      /\ n \in Nat \ {0}
      /\ DOMAIN stack = 1..n
      /\ stack[n] = Frame(l, "called")
      /\ stack[n].run = l
      /\ stack' \in Seq(FrameType)
      /\ stack' # <<>>
      /\ Len(stack') = n
      /\ DOMAIN stack' = DOMAIN stack
      /\ \A i \in 1..(n - 1) : stack'[i] = stack[i]
      /\ stack'[n] = Frame(l, "load_mods")
      /\ stack'[n].run = l /\ stack'[n].step = "load_mods"
      /\ Last(stack') = Frame(l, "load_mods")
      /\ \A i \in DOMAIN stack : stack'[i].run = stack[i].run
  BY TopFacts DEF Step
<1> HIDE DEF n
<1>2. \A i \in DOMAIN stack : i \in 1..(n - 1) \/ i = n
  BY <1>1, UpTo
<1>3. /\ f \in Functions /\ l \in Hooks /\ target[l] = f
      /\ start'[f] = saved[l]
      /\ \A g \in Functions \ {f} : start'[g] = start[g]
  <2>1. f \in Functions /\ l \in Hooks
    BY Names
  <2>2. n \in DOMAIN stack
    BY <1>1
  <2>3. target[l] # "none"
    BY <1>1, <2>1, <2>2 DEF Placed
  <2>4. target[l] = f
    BY <2>3 DEF Placed
  <2> QED
    BY <2>1, <2>4 DEF undo_hook, TypeOK
<1>4. ToBeUndone(l)
  BY <1>1 DEF ToBeUndone
<1>5. ASSUME NEW m \in LoaderHooks \ {l}, ToBeUndone(m)' PROVE ToBeUndone(m)
  <2>1. TargetOf(m) \in Functions \ {f}
    BY Names
  <2>2. Frame(l, "load_mods") \notin {Frame(m, "enter"), Frame(m, "called")}
    BY DEF Frame
  <2> QED
    BY <1>1, <1>2, <1>3, <1>5, <2>1, <2>2 DEF ToBeUndone
<1>6. \A i \in 1..(n - 1) : stack[i].step = "called" /\ stack'[i].step = "called"
  BY <1>1 DEF StackShape, n
<1>7. StackShape'
  <2>1. ASSUME NEW i \in DOMAIN stack'
        PROVE  /\ i < Len(stack') => stack'[i].step = "called"
               /\ stack'[i].run \notin LoaderHooks \union {Host} => stack'[i].step \in {"enter", "called"}
               /\ stack'[i].run # Host
    <3>1. CASE i \in 1..(n - 1)
      <4>1. stack[i].run # Host
        BY <1>1, <1>6, <3>1 DEF StackShape
      <4> QED
        BY <1>1, <1>6, <3>1, <4>1
    <3>2. CASE i = n
      BY <1>1, <1>3, <3>2, Names
    <3> QED
      BY <1>1, <1>2, <3>1, <3>2
  <2> QED
    BY <2>1 DEF StackShape
<1>8. HostBegins'
  BY <1>1 DEF HostBegins
<1>9. Placed'
  BY <1>1, <1>3 DEF Placed
<1>10. Closed'
  BY <1>3 DEF Closed
<1>11. ReachesUndone' /\ \A h : Last(stack') # Frame(h, "enter")
  BY <1>1 DEF ReachesUndone, Frame
<1>12. UndoKeeps'
  BY <1>4, <1>5 DEF UndoKeeps
<1>13. ModHooksStay'
  <2> SUFFICES ASSUME NEW h \in ModHooks, target[h] # "none", h \notin disturbed
               PROVE  h \in Range(start'[target[h]])
    BY DEF ModHooksStay
  <2>1. target[h] \in Functions /\ h \in Hooks
    BY Names DEF TypeOK
  <2>2. CASE target[h] = f
    BY <1>3, <1>4, <2>2 DEF UndoKeeps
  <2>3. CASE target[h] # f
    BY <1>3, <2>1, <2>3 DEF ModHooksStay
  <2> QED
    BY <2>2, <2>3
<1>14. OneCall'
  BY <1>1, <1>11 DEF OneCall, Single
<1>15. AfterUndo'
  <2> SUFFICES ASSUME NEW m \in LoaderHooks, Single(m)
               PROVE  /\ worked[m] <= 1
                      /\ worked[m] > 0 => ~ToBeUndone(m)'
                      /\ target[m] = "none" => worked[m] = 0
                      /\ \A i \in DOMAIN stack' :
                           /\ stack'[i] = Frame(m, "load_mods") => ~ToBeUndone(m)' /\ worked[m] = 0
                           /\ stack'[i] = Frame(m, "setup_unity_hook") => worked[m] > 0
    BY DEF AfterUndo, Single
  <2>1. /\ worked[m] <= 1
        /\ worked[m] > 0 => ~ToBeUndone(m)
        /\ target[m] = "none" => worked[m] = 0
    BY DEF AfterUndo
  <2>2. \A i \in 1..(n - 1) : stack'[i] # Frame(m, "load_mods") /\ stack'[i] # Frame(m, "setup_unity_hook")
    BY <1>6 DEF Frame
  <2>3. stack'[n] # Frame(m, "setup_unity_hook") /\ (stack'[n] = Frame(m, "load_mods") => m = l)
    BY <1>1 DEF Frame
  <2>4. CASE m # l
    BY <1>1, <1>2, <1>5, <2>1, <2>2, <2>3, <2>4
  <2>5. CASE m = l
    <3>1. worked[m] = 0
      <4>1. worked[m] \in Nat /\ ~(worked[m] > 0)
        BY <1>4, <2>1, <2>5 DEF TypeOK
      <4> QED
        BY <4>1
    <3>2. l \notin Range(start'[f])
      BY <1>3 DEF Closed
    <3>3. \A i \in DOMAIN stack : stack[i].run = l => i = n
      BY <1>1, <2>5 DEF OneCall
    <3>4. ASSUME NEW i \in DOMAIN stack', stack'[i] \in {Frame(l, "enter"), Frame(l, "called")}
          PROVE  FALSE
      <4>1. stack'[i].run = l /\ stack'[i].step \in {"enter", "called"}
        BY <3>4 DEF Frame
      <4> QED
        BY <1>1, <3>3, <4>1
    <3>5. ~ToBeUndone(l)'
      BY <3>2, <3>4 DEF ToBeUndone
    <3> QED
      BY <1>1, <1>2, <2>1, <2>2, <2>3, <2>5, <3>1, <3>5
  <2> QED
    BY <2>4, <2>5
<1>16. UnityAfterLoad'
  BY <1>1 DEF UnityAfterLoad
<1> QED
  BY <1>1, <1>7, <1>8, <1>9, <1>10, <1>11, <1>12, <1>13, <1>14, <1>15, <1>16

(* A mod makes a hook.                                                     *)
LEMMA ModInstallsKeeps ==
  ASSUME TypeOK, Facts, stack \in Seq(FrameType), ModInstallsHook
  PROVE  Facts'
<1> USE DEF Facts
<1>1. PICK h \in ModHooks, f \in Functions :
        /\ target[h] = "none"
        /\ saved' = [saved EXCEPT ![h] = start[f]]
        /\ start' = [start EXCEPT ![f] = <<h>> \o start[f]]
        /\ target' = [target EXCEPT ![h] = f]
        /\ disturbed' = IF \E l \in LoaderHooks : TargetOf(l) = f /\ ToBeUndone(l)
                        THEN disturbed \union {h} ELSE disturbed
        /\ UNCHANGED <<stack, stage, worked, nested>>
  BY DEF ModInstallsHook
<1>2. /\ h \in Hooks /\ h \notin LoaderHooks
      /\ start[f] \in Seq(Hooks)
      /\ saved'[h] = start[f] /\ \A x \in Hooks \ {h} : saved'[x] = saved[x]
      /\ Range(start'[f]) = {h} \union Range(start[f])
      /\ \A g \in Functions \ {f} : start'[g] = start[g]
      /\ target'[h] = f /\ \A x \in Hooks \ {h} : target'[x] = target[x]
  BY <1>1, Names, RangeOfPrepend DEF TypeOK
<1>3. /\ \A g \in Functions : h \notin Range(start[g])
      /\ \A x \in Hooks : h \notin Range(saved[x])
      /\ \A i \in DOMAIN stack : stack[i].run # h
  <2>1. \A g \in Functions : h \notin Range(start[g])
    BY <1>1, <1>2, Names DEF Placed
  <2>2. \A x \in Hooks : h \notin Range(saved[x])
    BY <1>1, <1>2 DEF Placed
  <2>3. \A i \in DOMAIN stack : stack[i].run # h
    BY <1>1, <1>2 DEF Placed
  <2> QED
    BY <2>1, <2>2, <2>3
<1>4. \A l \in LoaderHooks : l \in Hooks \ {h} /\ TargetOf(l) \in Functions
  BY <1>2, Names
<1>5. \A l \in LoaderHooks : ToBeUndone(l)' <=> ToBeUndone(l)
  BY <1>1, <1>2, <1>4 DEF ToBeUndone
<1>6. StackShape' /\ HostBegins'
  BY <1>1, <1>2, <1>4, Names DEF StackShape, HostBegins
<1>7. Placed'
  <2>1. ASSUME NEW g \in Functions, NEW x \in Hooks, x \in Range(start'[g])
        PROVE  target'[x] = g
    BY <1>2, <1>3, <2>1 DEF Placed
  <2>2. ASSUME NEW y \in Hooks, NEW x \in Hooks, x \in Range(saved'[y])
        PROVE  target'[y] # "none" /\ target'[x] = target'[y]
    BY <1>2, <1>3, <2>2, Names DEF Placed
  <2>3. \A m \in LoaderHooks : target'[m] \in {"none", TargetOf(m)}
    BY <1>2, <1>4 DEF Placed
  <2>4. \A i \in DOMAIN stack' : stack'[i].run \in Hooks => target'[stack'[i].run] # "none"
    BY <1>1, <1>2, <1>3 DEF Placed
  <2> QED
    BY <2>1, <2>2, <2>3, <2>4 DEF Placed
<1>8. Closed'
  <2>1. ASSUME NEW g \in Functions, NEW x \in Hooks, x \in Range(start'[g])
        PROVE  Range(saved'[x]) \subseteq Range(start'[g])
    <3>1. CASE x = h
      BY <1>2, <1>3, <2>1, <3>1
    <3>2. CASE x # h
      BY <1>2, <2>1, <3>2 DEF Closed
    <3> QED
      BY <3>1, <3>2
  <2>2. ASSUME NEW y \in Hooks, NEW x \in Hooks, x \in Range(saved'[y])
        PROVE  Range(saved'[x]) \subseteq Range(saved'[y])
    <3>1. CASE y = h
      <4>1. x \in Range(start[f]) /\ x # h /\ saved'[x] = saved[x] /\ saved'[y] = start[f]
        BY <1>2, <1>3, <2>2, <3>1
      <4> QED
        BY <4>1 DEF Closed
    <3>2. CASE y # h
      <4>1. x \in Range(saved[y]) /\ x # h /\ saved'[x] = saved[x] /\ saved'[y] = saved[y]
        BY <1>2, <1>3, <2>2, <3>2
      <4> QED
        BY <4>1 DEF Closed
    <3> QED
      BY <3>1, <3>2
  <2>3. \A x \in Hooks : x \notin Range(saved'[x])
    BY <1>2, <1>3 DEF Closed
  <2> QED
    BY <2>1, <2>2, <2>3 DEF Closed
<1>9. \A x \in Hooks : stack # <<>> /\ Last(stack) = Frame(x, "enter") => saved'[x] = saved[x]
  <2> SUFFICES ASSUME stack # <<>>, Last(stack) = Frame(h, "enter") PROVE FALSE
    BY <1>2
  <2>1. Len(stack) \in DOMAIN stack /\ stack[Len(stack)] = Frame(h, "enter")
    BY StackFacts
  <2> QED
    BY <1>3, <2>1 DEF Frame
<1>10. ReachesUndone'
  BY <1>1, <1>5, <1>9 DEF ReachesUndone
<1>11. UndoKeeps'
  <2> SUFFICES ASSUME NEW x \in ModHooks, NEW l \in LoaderHooks,
                      target'[x] = TargetOf(l), x \notin disturbed', ToBeUndone(l)
               PROVE  x \in Range(saved[l])
    BY <1>2, <1>4, <1>5 DEF UndoKeeps
  <2>1. x # h /\ x \in Hooks /\ x \notin disturbed
    BY <1>1, <1>2, Names
  <2> QED
    BY <1>2, <2>1 DEF UndoKeeps
<1>12. ModHooksStay'
  <2> SUFFICES ASSUME NEW x \in ModHooks, target'[x] # "none", x \notin disturbed'
               PROVE  x \in Range(start'[target'[x]])
    BY DEF ModHooksStay
  <2>1. CASE x = h
    BY <1>2, <2>1
  <2>2. CASE x # h
    <3>1. x \in Hooks /\ target'[x] = target[x] /\ target[x] \in Functions /\ x \notin disturbed
      BY <1>1, <1>2, <2>2, Names DEF TypeOK
    <3> QED
      BY <1>2, <3>1 DEF ModHooksStay
  <2> QED
    BY <2>1, <2>2
<1>13. OneCall'
  BY <1>1, <1>9 DEF OneCall, Single
<1>14. AfterUndo'
  BY <1>1, <1>2, <1>4, <1>5 DEF AfterUndo, Single
<1>15. UnityAfterLoad'
  BY <1>1, <1>2, <1>4, Names DEF UnityAfterLoad
<1> QED
  BY <1>6, <1>7, <1>8, <1>10, <1>11, <1>12, <1>13, <1>14, <1>15

(* The mods of a hook of the loader are loaded.                            *)
LEMMA ModsLoadedKeeps ==
  ASSUME TypeOK, Facts, stack \in Seq(FrameType), ModsLoaded
  PROVE  Facts' /\ stack' \in Seq(FrameType)
<1> USE DEF Facts
<1>1. PICK l \in LoaderHooks :
        /\ TopIs(l, "load_mods")
        /\ worked' = [worked EXCEPT ![l] = @ + 1]
        /\ stack' = IF l = LoadHook THEN NextStep("setup_unity_hook") ELSE Front(stack)
        /\ UNCHANGED <<start, saved, target, stage, nested, disturbed>>
  BY DEF ModsLoaded, memory
<1>2. /\ stack # <<>>
      /\ Len(stack) \in Nat \ {0}
      /\ DOMAIN stack = 1..Len(stack)
      /\ stack[Len(stack)] = Frame(l, "load_mods")
      /\ stack[Len(stack)].run = l
  BY <1>1, StackFacts DEF TopIs, Frame
<1>3. /\ \A m \in LoaderHooks \ {l} : worked'[m] = worked[m]
      /\ worked'[l] = worked[l] + 1
      /\ worked[l] \in Nat
      /\ target[l] # "none"
  <2>1. Len(stack) \in DOMAIN stack
    BY <1>2
  <2>2. target[l] # "none"
    BY <1>2, <2>1, Names DEF Placed
  <2> QED
    BY <1>1, <2>2 DEF TypeOK
<1>4. /\ stack' \in Seq(FrameType)
      /\ DOMAIN stack' \subseteq DOMAIN stack
      /\ \A i \in DOMAIN stack' :
           /\ stack'[i].run = stack[i].run
           /\ stack'[i].run # Host
           /\ i < Len(stack) => stack'[i] = stack[i] /\ stack'[i].step = "called"
           /\ i = Len(stack) => stack'[i] = Frame(l, "setup_unity_hook") /\ l = LoadHook
      /\ \A h : stack' # <<>> => Last(stack') # Frame(h, "enter")
      /\ Len(stack') <= Len(stack)
  <2>1. CASE l = LoadHook
    <3>1. /\ stack' \in Seq(FrameType)
          /\ Len(stack') = Len(stack)
          /\ DOMAIN stack' = DOMAIN stack
          /\ \A i \in 1..(Len(stack) - 1) : stack'[i] = stack[i]
          /\ stack'[Len(stack)] = Frame(l, "setup_unity_hook")
          /\ Last(stack') = Frame(l, "setup_unity_hook")
          /\ \A i \in DOMAIN stack : stack'[i].run = stack[i].run
      BY <1>1, <2>1, TopFacts DEF Step
    <3>2. \A i \in DOMAIN stack : i < Len(stack) => i \in 1..(Len(stack) - 1)
      BY <1>2
    <3>3. \A i \in DOMAIN stack : i < Len(stack) => stack[i].step = "called"
      BY DEF StackShape
    <3>4. \A i \in DOMAIN stack : stack[i].run # Host
      <4>1. ASSUME NEW i \in DOMAIN stack, stack[i].run = Host PROVE FALSE
        <5>1. Len(stack) = 1 /\ i = 1
          BY <1>2, <4>1 DEF StackShape
        <5> QED
          BY <1>2, <4>1, <5>1, Names
      <4> QED
        BY <4>1
    <3>5. \A h : Last(stack') # Frame(h, "enter")
      BY <3>1 DEF Frame
    <3> QED
      BY <1>2, <2>1, <3>1, <3>2, <3>3, <3>4, <3>5
  <2>2. CASE l # LoadHook
    <3>1. Popped
      BY <1>1, <1>2, <2>2 DEF Popped
    <3>2. \A i \in DOMAIN stack' : i # Len(stack)
      BY <3>1, PoppedFacts
    <3> QED
      BY <1>2, <3>1, <3>2, PoppedFacts
  <2> QED
    BY <2>1, <2>2
<1>5. ASSUME NEW m \in LoaderHooks, ToBeUndone(m)' PROVE ToBeUndone(m)
  <2>1. Frame(l, "setup_unity_hook") \notin {Frame(m, "enter"), Frame(m, "called")}
    BY DEF Frame
  <2>2. \A i \in DOMAIN stack' : i < Len(stack) \/ i = Len(stack)
    BY <1>2, <1>4
  <2> QED
    BY <1>1, <1>4, <1>5, <2>1, <2>2 DEF ToBeUndone
<1>6. StackShape'
  <2>1. ASSUME NEW i \in DOMAIN stack'
        PROVE  /\ i < Len(stack') => stack'[i].step = "called"
               /\ stack'[i].run \notin LoaderHooks \union {Host} => stack'[i].step \in {"enter", "called"}
               /\ stack'[i].run # Host
    <3>1. Len(stack') \in Nat /\ (i < Len(stack) \/ i = Len(stack)) /\ i \in Nat
      BY <1>2, <1>4, LenProperties
    <3>2. CASE i < Len(stack)
      BY <1>4, <3>2
    <3>3. CASE i = Len(stack)
      <4>1. stack'[i].run = l
        BY <1>2, <1>4, <3>3
      <4> QED
        BY <1>2, <1>4, <3>1, <3>3, <4>1
    <3> QED
      BY <3>1, <3>2, <3>3
  <2> QED
    BY <2>1 DEF StackShape
<1>7. HostBegins'
  BY <1>1, <1>2 DEF HostBegins
<1>8. Placed' /\ Closed' /\ ModHooksStay'
  <2>1. \A i \in DOMAIN stack' : stack'[i].run \in Hooks => target[stack'[i].run] # "none"
    BY <1>4 DEF Placed
  <2> QED
    BY <1>1, <2>1 DEF Placed, Closed, ModHooksStay
<1>9. ReachesUndone'
  BY <1>4 DEF ReachesUndone
<1>10. UndoKeeps'
  BY <1>1, <1>5 DEF UndoKeeps
<1>11. OneCall'
  BY <1>1, <1>4 DEF OneCall, Single
<1>12. AfterUndo'
  <2> SUFFICES ASSUME NEW m \in LoaderHooks, Single(m)
               PROVE  /\ worked'[m] <= 1
                      /\ worked'[m] > 0 => ~ToBeUndone(m)'
                      /\ target[m] = "none" => worked'[m] = 0
                      /\ \A i \in DOMAIN stack' :
                           /\ stack'[i] = Frame(m, "load_mods") => ~ToBeUndone(m)' /\ worked'[m] = 0
                           /\ stack'[i] = Frame(m, "setup_unity_hook") => worked'[m] > 0
    BY <1>1 DEF AfterUndo, Single
  <2>1. /\ worked[m] <= 1
        /\ worked[m] > 0 => ~ToBeUndone(m)
        /\ target[m] = "none" => worked[m] = 0
        /\ stack[Len(stack)] = Frame(m, "load_mods") => ~ToBeUndone(m) /\ worked[m] = 0
    BY <1>2 DEF AfterUndo
  <2>2. ASSUME NEW i \in DOMAIN stack'
        PROVE  /\ stack'[i] # Frame(m, "load_mods")
               /\ stack'[i] = Frame(m, "setup_unity_hook") => m = l
    <3>1. i < Len(stack) \/ i = Len(stack)
      BY <1>2, <1>4
    <3> QED
      BY <1>4, <3>1 DEF Frame
  <2>3. CASE m = l
    BY <1>2, <1>3, <1>5, <2>1, <2>2, <2>3
  <2>4. CASE m # l
    BY <1>3, <1>5, <2>1, <2>2, <2>4
  <2> QED
    BY <2>3, <2>4
<1>13. UnityAfterLoad'
  <2>1. worked[LoadHook] > 0 => worked'[LoadHook] > 0
    BY <1>3, Names DEF TypeOK
  <2> QED
    BY <1>1, <1>4, <2>1 DEF UnityAfterLoad
<1> QED
  BY <1>4, <1>6, <1>7, <1>8, <1>9, <1>10, <1>11, <1>12, <1>13

(* The hook at il2cpp_init hooks DestroyObject, or does not.               *)
LEMMA SetupKeeps ==
  ASSUME TypeOK, Facts, stack \in Seq(FrameType), setup_unity_hook
  PROVE  Facts' /\ stack' \in Seq(FrameType)
<1>1. /\ stack # <<>>
      /\ DOMAIN stack = 1..Len(stack) /\ Len(stack) \in Nat \ {0}
      /\ stack[Len(stack)] = Frame(LoadHook, "setup_unity_hook")
      /\ stack[Len(stack)].run = LoadHook
  BY StackFacts DEF setup_unity_hook, TopIs, Frame
<1>2. /\ worked[LoadHook] > 0
      /\ target[UnityHook] = "none"
      /\ \A i \in DOMAIN stack : stack[i].run = LoadHook => i = Len(stack)
  BY <1>1, Names DEF Facts, AfterUndo, UnityAfterLoad, OneCall, Single
<1>3. CASE UNCHANGED <<memory, stack, stage, history>>
  <2>1. UNCHANGED <<start, saved, target, stage, stack, worked, nested, disturbed>>
    BY <1>3 DEF memory, history
  <2> QED
    BY <2>1, FactsKept
<1>4. CASE Popped /\ InstallHook(UnityHook) /\ UNCHANGED <<straddling, stage, status, history>>
  <2>1. \A i \in DOMAIN stack' : stack'[i].run # LoadHook
    BY <1>2, <1>4, PoppedFacts DEF Facts
  <2>2. stack' \in Seq(FrameType)
    BY <1>4, PoppedFacts DEF Facts
  <2>3. UNCHANGED <<worked, nested, disturbed, stage>>
    BY <1>4 DEF history
  <2>4. UnityHook \in LoaderHooks
    BY Names
  <2> QED
    BY <1>2, <1>4, <2>1, <2>2, <2>3, <2>4, InstallKeeps
<1>5. CASE Popped /\ UNCHANGED <<memory, stage, status, history>>
  <2>1. UNCHANGED <<start, saved, target, stage, worked, nested, disturbed>>
    BY <1>5 DEF memory, history
  <2>2. stack' \in Seq(FrameType)
    BY <1>5, PoppedFacts DEF Facts
  <2> QED
    BY <1>5, <2>1, <2>2, ReturnKeeps
<1>6. setup_unity_hook =>
        \/ UNCHANGED <<memory, stack, stage, history>>
        \/ Popped /\ InstallHook(UnityHook) /\ UNCHANGED <<straddling, stage, status, history>>
        \/ Popped /\ UNCHANGED <<memory, stage, status, history>>
  BY <1>1 DEF setup_unity_hook, InstallFails, Die, Popped
<1> QED
  BY <1>3, <1>4, <1>5, <1>6

-----------------------------------------------------------------------------
(* The invariant.                                                          *)

(* HooksInv is the types and the facts.                                    *)
LEMMA Parts == (HooksInv <=> TypeOK /\ Facts) /\ (TypeOK' /\ Facts' => HooksInv')
BY DEF HooksInv, Facts

(* HooksInv holds initially.                                               *)
LEMMA InitHooksInv == Init => HooksInv
<1> SUFFICES ASSUME Init PROVE HooksInv
  OBVIOUS
<1>1. TypeOK
  <2>1. rights \in [Pages -> {{}, {"x"}, {"r", "x"}, {"r", "w", "x"}}]
    BY DEF Init
  <2>2. DOMAIN start = Functions /\ \A f \in Functions : start[f] \in Seq(Hooks)
    BY DEF Init
  <2>3. DOMAIN saved = Hooks /\ \A h \in Hooks : saved[h] \in Seq(Hooks)
    BY DEF Init
  <2>4. stack \in Seq(FrameType)
    BY DEF Init
  <2> QED
    BY <2>1, <2>2, <2>3, <2>4 DEF Init, TypeOK, FrameType, Step
<1>2. /\ \A f \in Functions : Range(start[f]) = {}
      /\ \A h \in Hooks : Range(saved[h]) = {}
      /\ DOMAIN stack = {}
  BY RangeOfEmpty DEF Init
<1>3. \A l \in LoaderHooks : l \in Hooks /\ target[l] = "none" /\ worked[l] = 0
  BY Names DEF Init
<1>4. StackShape /\ HostBegins /\ Placed /\ Closed
  BY <1>2, <1>3, Names DEF Init, StackShape, HostBegins, Placed, Closed
<1>5. \A h \in ModHooks : target[h] = "none" /\ h \in Hooks
  BY Names DEF Init
<1>6. ReachesUndone /\ UndoKeeps /\ ModHooksStay
  BY <1>2, <1>5, Names DEF Init, ReachesUndone, UndoKeeps, ModHooksStay
<1>7. OneCall /\ AfterUndo /\ UnityAfterLoad
  <2>1. \A l \in LoaderHooks : worked[l] <= 1 /\ ~(worked[l] > 0)
    BY <1>3
  <2> QED
    BY <1>2, <1>3, <2>1, Names DEF Init, OneCall, AfterUndo, UnityAfterLoad
<1> QED
  BY <1>1, <1>4, <1>6, <1>7 DEF HooksInv

(* The rights that a page may have.                                        *)
Rights == {{}, {"x"}, {"r", "x"}, {"r", "w", "x"}}

(* What TypeOK says when one step is taken.                                *)
LEMMA TypesOf ==
  TypeOK <=>
    /\ stack \in Seq(FrameType)
    /\ rights \in [Pages -> Rights]
    /\ DOMAIN start = Functions /\ \A f \in Functions : start[f] \in Seq(Hooks)
    /\ DOMAIN saved = Hooks /\ \A h \in Hooks : saved[h] \in Seq(Hooks)
    /\ target \in [Hooks -> Functions \union {"none"}]
    /\ worked \in [LoaderHooks -> Nat]
    /\ straddling \subseteq Functions /\ refused \subseteq Functions
    /\ stage \in {"modloader_load", Host, "il2cpp_init"}
    /\ status \in {"running", "fault", "astray", "aborted", "null"}
    /\ nested \in BOOLEAN /\ disturbed \subseteq ModHooks
BY DEF TypeOK, FrameType, Step, Rights

(* And what it says after the step.                                        *)
LEMMA TypesAfter ==
  ASSUME /\ stack' \in Seq(FrameType)
         /\ rights' \in [Pages -> Rights]
         /\ DOMAIN start' = Functions /\ \A f \in Functions : start'[f] \in Seq(Hooks)
         /\ DOMAIN saved' = Hooks /\ \A h \in Hooks : saved'[h] \in Seq(Hooks)
         /\ target' \in [Hooks -> Functions \union {"none"}]
         /\ worked' \in [LoaderHooks -> Nat]
         /\ straddling' \subseteq Functions /\ refused' \subseteq Functions
         /\ stage' \in {"modloader_load", Host, "il2cpp_init"}
         /\ status' \in {"running", "fault", "astray", "aborted", "null"}
         /\ nested' \in BOOLEAN /\ disturbed' \subseteq ModHooks
  PROVE  TypeOK'
BY DEF TypeOK, FrameType, Step, Rights

(* Making a hook of the loader keeps the types.                            *)
LEMMA InstallTypes ==
  ASSUME TypeOK, NEW l \in LoaderHooks, InstallHook(l)
  PROVE  /\ rights' \in [Pages -> Rights]
         /\ DOMAIN start' = Functions /\ \A f \in Functions : start'[f] \in Seq(Hooks)
         /\ DOMAIN saved' = Hooks /\ \A h \in Hooks : saved'[h] \in Seq(Hooks)
         /\ target' \in [Hooks -> Functions \union {"none"}]
<1> DEFINE f == TargetOf(l)
<1>1. f \in Functions /\ l \in Hooks /\ start[f] \in Seq(Hooks) /\ <<l>> \o start[f] \in Seq(Hooks)
  BY Names, RangeOfPrepend DEF TypeOK
<1> HIDE DEF f
<1>2. /\ rights' = [rights EXCEPT ![<<f, 1>>] = {"r", "w", "x"}]
      /\ saved' = [saved EXCEPT ![l] = start[f]]
      /\ start' = [start EXCEPT ![f] = <<l>> \o start[f]]
      /\ target' = [target EXCEPT ![l] = f]
  BY DEF InstallHook, MarkWritable, f
<1>3. rights' \in [Pages -> Rights]
  BY <1>2, TypesOf DEF Rights
<1>4. target' \in [Hooks -> Functions \union {"none"}]
  BY <1>1, <1>2, TypesOf
<1>5. DOMAIN saved' = Hooks /\ \A h \in Hooks : saved'[h] \in Seq(Hooks)
  BY <1>1, <1>2, TypesOf
<1>6. DOMAIN start' = Functions /\ \A g \in Functions : start'[g] \in Seq(Hooks)
  BY <1>1, <1>2, TypesOf
<1> QED
  BY <1>3, <1>4, <1>5, <1>6

(* The entry point of the host goes on.                                    *)
LEMMA HostStepKeeps ==
  ASSUME TypeOK, Facts, stack \in Seq(FrameType), NEW step, TopIs(Host, step),
         NEW next \in {"il2cpp_init", "DestroyObject", "install_load_hook"}, stack' = NextStep(next),
         UNCHANGED <<start, saved, target, stage, worked, nested, disturbed>>
  PROVE  /\ Facts'
         /\ stack' \in Seq(FrameType)
         /\ stack = <<Frame(Host, step)>>
         /\ stack' = <<Frame(Host, next)>>
<1> USE DEF Facts
<1>1. next \in Step
  BY DEF Step, Functions
<1>2. /\ stack # <<>>
      /\ Len(stack) \in Nat \ {0}
      /\ DOMAIN stack = 1..Len(stack)
      /\ stack[Len(stack)] = Frame(Host, step)
      /\ stack[Len(stack)].run = Host
      /\ stack' \in Seq(FrameType)
      /\ Len(stack') = Len(stack)
      /\ DOMAIN stack' = DOMAIN stack
      /\ stack'[Len(stack)] = Frame(Host, next)
      /\ Last(stack') = Frame(Host, next)
  BY <1>1, TopFacts
<1>3. /\ Len(stack) = 1 /\ stage = Host /\ target[LoadHook] = "none"
      /\ \A i \in DOMAIN stack : i = 1
  <2>1. Len(stack) = 1 /\ stage = Host /\ target[LoadHook] = "none"
    BY <1>2 DEF StackShape
  <2> QED
    BY <1>2, <2>1
<1>4. stack = <<Frame(Host, step)>> /\ stack' = <<Frame(Host, next)>>
  BY <1>2, <1>3
<1>5. \A i \in DOMAIN stack' : stack'[i] = Frame(Host, next) /\ stack'[i].run = Host /\ stack'[i].step = next
  BY <1>2, <1>3 DEF Frame
<1>6. StackShape' /\ HostBegins'
  <2>1. next \notin {"enter", "called"} /\ "modloader_load" # Host
    BY DEF Host
  <2> QED
    BY <1>2, <1>3, <1>5, <2>1 DEF StackShape, HostBegins
<1>7. Placed' /\ Closed' /\ ModHooksStay'
  BY <1>5, Names DEF Placed, Closed, ModHooksStay
<1>8. \A l \in LoaderHooks : ToBeUndone(l)' => ToBeUndone(l)
  <2>1. \A l \in LoaderHooks : Frame(Host, next) \notin {Frame(l, "enter"), Frame(l, "called")}
    BY Names DEF Frame
  <2> QED
    BY <1>5, <2>1 DEF ToBeUndone
<1>9. ReachesUndone' /\ UndoKeeps'
  BY <1>2, <1>8 DEF ReachesUndone, UndoKeeps, Frame
<1>10. OneCall'
  <2>1. \A h \in Hooks : Last(stack') # Frame(h, "enter")
    BY <1>2, Names DEF Frame
  <2>2. \A l \in LoaderHooks, i \in DOMAIN stack' : stack'[i].run # l
    BY <1>5, Names
  <2> QED
    BY <2>1, <2>2 DEF OneCall, Single
<1>11. AfterUndo' /\ UnityAfterLoad'
  <2>1. \A l \in LoaderHooks : /\ Frame(Host, next) # Frame(l, "load_mods")
                               /\ Frame(Host, next) # Frame(l, "setup_unity_hook")
    BY Names DEF Frame
  <2> QED
    BY <1>5, <1>8, <2>1, Names DEF AfterUndo, UnityAfterLoad, Single
<1> QED
  BY <1>2, <1>4, <1>6, <1>7, <1>9, <1>10, <1>11

(* The host begins.                                                        *)
LEMMA AcceptKeeps ==
  ASSUME TypeOK, Facts, modloader_accept_unity_handle
  PROVE  Facts' /\ stack' \in Seq(FrameType)
<1> USE DEF Facts
<1>1. /\ stage = "modloader_load" /\ stage' = Host
      /\ stack = <<>> /\ stack' = <<Frame(Host, "dlopen")>>
      /\ UNCHANGED <<start, saved, target, worked, nested, disturbed>>
      /\ target[LoadHook] = "none"
  BY DEF modloader_accept_unity_handle, memory, history, HostBegins
<1>2. Frame(Host, "dlopen") \in FrameType
  BY DEF Frame, FrameType, Step
<1>3. stack' \in Seq(FrameType)
  BY <1>1, <1>2
<1>4. /\ DOMAIN stack' = {1} /\ Len(stack') = 1 /\ stack'[1] = Frame(Host, "dlopen")
      /\ Last(stack') = Frame(Host, "dlopen")
      /\ stack'[1].run = Host /\ stack'[1].step = "dlopen"
  BY <1>1 DEF Frame, Last
<1>5. StackShape' /\ HostBegins'
  BY <1>1, <1>4 DEF StackShape, HostBegins, Host
<1>6. Placed' /\ Closed' /\ ModHooksStay'
  BY <1>1, <1>4, Names DEF Placed, Closed, ModHooksStay
<1>7. \A h : /\ h \in Hooks => Frame(Host, "dlopen") # Frame(h, "enter")
             /\ Frame(Host, "dlopen") \notin {Frame(h, "enter"), Frame(h, "called"), Frame(h, "load_mods"),
                                              Frame(h, "setup_unity_hook")}
  BY DEF Frame
<1>8. \A l \in LoaderHooks : ToBeUndone(l)' => ToBeUndone(l)
  BY <1>1, <1>4, <1>7 DEF ToBeUndone
<1>9. ReachesUndone' /\ UndoKeeps'
  BY <1>1, <1>4, <1>7, <1>8 DEF ReachesUndone, UndoKeeps
<1>10. OneCall'
  BY <1>1, <1>4, <1>7, Names DEF OneCall, Single
<1>11. AfterUndo' /\ UnityAfterLoad'
  BY <1>1, <1>4, <1>7, <1>8, Names DEF AfterUndo, UnityAfterLoad, Single
<1> QED
  BY <1>3, <1>5, <1>6, <1>9, <1>10, <1>11

(* The process ends, or nothing happens.                                   *)
LEMMA DiesKeeps ==
  ASSUME HooksInv,
         \/ \E how \in {"aborted", "fault", "astray", "null"} : Die(how)
         \/ UNCHANGED vars
  PROVE  HooksInv'
<1>1. /\ UNCHANGED <<straddling, rights, start, saved, target, stack, stage, worked, refused, nested,
                      disturbed>>
      /\ status' \in {"aborted", "fault", "astray", "null", status}
  BY DEF Die, vars, memory, history
<1>2. TypeOK'
  BY <1>1 DEF HooksInv, TypeOK
<1>3. Facts
  BY Parts
<1>4. Facts'
  BY <1>1, <1>3, FactsKept
<1> QED
  BY <1>2, <1>4, Parts

(* The jump to the first hook of the loader is made, or it is not.         *)
LEMMA LoadHookKeeps ==
  ASSUME HooksInv, install_load_hook
  PROVE  HooksInv'
<1>1. TypeOK /\ Facts /\ stack \in Seq(FrameType)
  BY Parts, TypesOf
<1>2. /\ stack # <<>>
      /\ stack[Len(stack)] = Frame(Host, "install_load_hook")
      /\ DOMAIN stack = 1..Len(stack) /\ Len(stack) \in Nat \ {0}
  BY <1>1, StackFacts DEF install_load_hook, TopIs
<1>3. Len(stack) = 1 /\ target[LoadHook] = "none"
  BY <1>1, <1>2 DEF Facts, StackShape, Frame
<1>4. Front(stack) = <<>>
  BY <1>1, <1>2, <1>3, StackFacts, EmptySeq
<1>5. LoadHook \in LoaderHooks /\ LoadHook # UnityHook
  BY Names
<1>6. CASE InstallHook(LoadHook) /\ stack' = <<>> /\ UNCHANGED <<straddling, stage, status, history>>
  <2>1. UNCHANGED <<worked, nested, disturbed, stage>> /\ Popped
    BY <1>2, <1>4, <1>6 DEF history, Popped
  <2>2. Facts'
    BY <1>1, <1>3, <1>5, <1>6, <2>1, InstallKeeps
  <2>3. TypeOK'
    BY <1>1, <1>5, <1>6, InstallTypes, TypesOf, TypesAfter DEF history
  <2> QED
    BY <2>2, <2>3, Parts
<1>7. CASE stack' = <<>> /\ UNCHANGED <<memory, stage, status, history>>
  <2>1. UNCHANGED <<start, saved, target, worked, nested, disturbed, stage>> /\ Popped
    BY <1>2, <1>4, <1>7 DEF memory, history, Popped
  <2>2. Facts'
    BY <1>1, <2>1, ReturnKeeps
  <2>3. TypeOK'
    BY <1>1, <1>7 DEF TypeOK, memory, history
  <2> QED
    BY <2>2, <2>3, Parts
<1>8. CASE \E how \in {"aborted", "fault", "astray", "null"} : Die(how)
  BY <1>8, DiesKeeps
<1> QED
  BY <1>6, <1>7, <1>8 DEF install_load_hook, InstallFails

(* HooksInv is inductive: one step for each action.                        *)
LEMMA NextHooksInv == HooksInv /\ [Next]_vars => HooksInv'
<1> SUFFICES ASSUME HooksInv, [Next]_vars PROVE HooksInv'
  OBVIOUS
<1> USE Parts
<1>1. TypeOK /\ Facts /\ stack \in Seq(FrameType)
  BY TypesOf
<1>2. CASE modloader_accept_unity_handle
  <2>1. Facts' /\ stack' \in Seq(FrameType)
    BY <1>1, <1>2, AcceptKeeps
  <2>2. TypeOK'
    BY <1>1, <1>2, <2>1, TypesOf, TypesAfter DEF modloader_accept_unity_handle, memory, history
  <2> QED
    BY <2>1, <2>2
<1>3. CASE dlopen
  <2>1. Facts' /\ stack' \in Seq(FrameType)
    BY <1>1, <1>3, HostStepKeeps DEF dlopen, history
  <2>2. rights' \in [Pages -> Rights]
    <3>1. ASSUME NEW code \in {{"x"}, {"r", "x"}},
                 rights' = [p \in Pages |-> IF p[1] = "il2cpp_init" THEN code ELSE rights[p]]
          PROVE  rights' \in [Pages -> Rights]
      BY <1>1, <3>1, TypesOf DEF Rights
    <3> QED
      BY <1>1, <1>3, <3>1, TypesOf DEF dlopen
  <2>3. TypeOK'
    BY <1>1, <1>3, <2>1, <2>2, TypesOf, TypesAfter DEF dlopen, history
  <2> QED
    BY <2>1, <2>3
<1>4. CASE protect_all
  <2>1. PICK f \in Functions :
          /\ TopIs(Host, f)
          /\ \/ /\ rights' = [p \in Pages |-> IF p \in protect(f) THEN {"r", "x"} ELSE rights[p]]
                /\ UNCHANGED refused
             \/ refused' = refused \union {f} /\ UNCHANGED rights
          /\ stack' = NextStep(IF f = "il2cpp_init" THEN "DestroyObject" ELSE "install_load_hook")
          /\ UNCHANGED <<straddling, start, saved, target, stage, status, worked, nested, disturbed>>
    BY <1>4 DEF protect_all
  <2>2. Facts' /\ stack' \in Seq(FrameType)
    BY <1>1, <2>1, HostStepKeeps
  <2>3. rights' \in [Pages -> Rights]
    <3>1. CASE UNCHANGED rights
      BY <1>1, <3>1, TypesOf
    <3>2. CASE rights' = [p \in Pages |-> IF p \in protect(f) THEN {"r", "x"} ELSE rights[p]]
      BY <1>1, <3>2, TypesOf DEF Rights
    <3> QED
      BY <2>1, <3>1, <3>2
  <2>4. TypeOK'
    BY <1>1, <2>1, <2>2, <2>3, TypesOf, TypesAfter
  <2> QED
    BY <2>2, <2>4
<1>5. CASE install_load_hook
  BY <1>5, LoadHookKeeps
<1>6. ASSUME NEW run, NEW step, Return(run, step) PROVE HooksInv'
  <2>1. Popped /\ UNCHANGED <<start, saved, target, worked, nested, disturbed, stage>>
    BY <1>6 DEF Return, TopIs, memory, history, Popped
  <2>2. Facts'
    BY <1>1, <2>1, ReturnKeeps
  <2>3. stack' \in Seq(FrameType)
    BY <1>1, <2>1, PoppedFacts DEF Facts
  <2>4. TypeOK'
    BY <1>1, <1>6, <2>3, TypesOf, TypesAfter DEF Return, memory, history
  <2> QED
    BY <2>2, <2>4
<1>7. CASE CallOriginal
  <2>1. Facts' /\ stack' \in Seq(FrameType)
    BY <1>1, <1>7, CallOriginalKeeps
  <2>2. TypeOK'
    BY <1>1, <1>7, <2>1, TypesOf, TypesAfter DEF CallOriginal, memory, history
  <2> QED
    BY <2>1, <2>2
<1>8. CASE UndoHook
  <2>1. PICK l \in LoaderHooks :
          /\ TopIs(l, "called")
          /\ \/ /\ undo_hook(l)
                /\ stack' = NextStep("load_mods")
                /\ UNCHANGED <<straddling, saved, target, stage, status, history>>
             \/ \E how \in {"aborted", "fault", "astray", "null"} : Die(how)
    BY <1>8 DEF UndoHook
  <2>2. CASE \E how \in {"aborted", "fault", "astray", "null"} : Die(how)
    BY <2>2, DiesKeeps
  <2>3. CASE /\ undo_hook(l)
             /\ stack' = NextStep("load_mods")
             /\ UNCHANGED <<straddling, saved, target, stage, status, history>>
    <3>1. UNCHANGED <<straddling, saved, target, stage, status, worked, refused, nested, disturbed>>
      BY <2>3 DEF history
    <3>2. Facts' /\ stack' \in Seq(FrameType)
      BY <1>1, <2>1, <2>3, <3>1, UndoHookKeeps
    <3>3. TargetOf(l) \in Functions /\ saved[l] \in Seq(Hooks)
      BY <1>1, Names, TypesOf
    <3>4. rights' \in [Pages -> Rights]
      BY <1>1, <2>3, TypesOf DEF undo_hook, MarkWritable, Rights
    <3>5. DOMAIN start' = Functions /\ \A f \in Functions : start'[f] \in Seq(Hooks)
      BY <1>1, <2>3, <3>3, TypesOf DEF undo_hook
    <3>6. TypeOK'
      BY <1>1, <3>1, <3>2, <3>4, <3>5, TypesOf, TypesAfter
    <3> QED
      BY <3>2, <3>6
  <2> QED
    BY <2>1, <2>2, <2>3
<1>9. CASE ModsLoaded
  <2>1. Facts' /\ stack' \in Seq(FrameType)
    BY <1>1, <1>9, ModsLoadedKeeps
  <2>2. worked' \in [LoaderHooks -> Nat]
    BY <1>1, <1>9, TypesOf DEF ModsLoaded
  <2>3. TypeOK'
    BY <1>1, <1>9, <2>1, <2>2, TypesOf, TypesAfter DEF ModsLoaded, memory
  <2> QED
    BY <2>1, <2>3
<1>10. CASE setup_unity_hook
  <2>1. Facts' /\ stack' \in Seq(FrameType)
    BY <1>1, <1>10, SetupKeeps
  <2>2. CASE \E how \in {"aborted", "fault", "astray", "null"} : Die(how)
    BY <2>2, DiesKeeps
  <2>3. CASE InstallHook(UnityHook) /\ UNCHANGED <<straddling, stage, status, history>>
    <3>1. UnityHook \in LoaderHooks
      BY Names
    <3>2. TypeOK'
      BY <1>1, <2>1, <2>3, <3>1, InstallTypes, TypesOf, TypesAfter DEF history
    <3> QED
      BY <2>1, <3>2
  <2>4. CASE UNCHANGED <<memory, stage, status, history>>
    <3>1. TypeOK'
      BY <1>1, <2>1, <2>4, TypesOf, TypesAfter DEF memory, history
    <3> QED
      BY <2>1, <3>1
  <2> QED
    BY <1>10, <2>2, <2>3, <2>4 DEF setup_unity_hook, InstallFails
<1>11. ASSUME NEW f \in Functions, GameCalls(f) PROVE HooksInv'
  <2>1. Facts' /\ stack' \in Seq(FrameType)
    BY <1>1, <1>11, GameCallsKeeps
  <2>2. TypeOK'
    BY <1>1, <1>11, <2>1, TypesOf, TypesAfter DEF GameCalls, memory, history
  <2> QED
    BY <2>1, <2>2
<1>12. CASE NestedCall
  <2>1. Facts' /\ stack' \in Seq(FrameType)
    BY <1>1, <1>12, NestedCallKeeps
  <2>2. nested' \in BOOLEAN
    BY <1>1, <1>12, TypesOf DEF NestedCall
  <2>3. TypeOK'
    BY <1>1, <1>12, <2>1, <2>2, TypesOf, TypesAfter DEF NestedCall, memory
  <2> QED
    BY <2>1, <2>3
<1>13. CASE ModInstallsHook
  <2>1. Facts'
    BY <1>1, <1>13, ModInstallsKeeps
  <2>2. PICK h \in ModHooks, f \in Functions :
          /\ rights' = [p \in Pages |-> IF p \in PagesOf(f) THEN {"r", "w", "x"} ELSE rights[p]]
          /\ saved' = [saved EXCEPT ![h] = start[f]]
          /\ start' = [start EXCEPT ![f] = <<h>> \o start[f]]
          /\ target' = [target EXCEPT ![h] = f]
          /\ disturbed' = IF \E l \in LoaderHooks : TargetOf(l) = f /\ ToBeUndone(l)
                          THEN disturbed \union {h} ELSE disturbed
          /\ UNCHANGED <<straddling, stack, stage, status, worked, refused, nested>>
    BY <1>13 DEF ModInstallsHook
  <2>3. h \in Hooks /\ start[f] \in Seq(Hooks) /\ <<h>> \o start[f] \in Seq(Hooks)
    BY <1>1, Names, RangeOfPrepend, TypesOf
  <2>4. rights' \in [Pages -> Rights]
    BY <1>1, <2>2, TypesOf DEF Rights
  <2>5. DOMAIN saved' = Hooks /\ \A x \in Hooks : saved'[x] \in Seq(Hooks)
    BY <1>1, <2>2, <2>3, TypesOf
  <2>6. DOMAIN start' = Functions /\ \A g \in Functions : start'[g] \in Seq(Hooks)
    BY <1>1, <2>2, <2>3, TypesOf
  <2>7. target' \in [Hooks -> Functions \union {"none"}] /\ disturbed' \subseteq ModHooks
    BY <1>1, <2>2, <2>3, TypesOf
  <2>8. TypeOK'
    BY <1>1, <2>2, <2>4, <2>5, <2>6, <2>7, TypesOf, TypesAfter
  <2> QED
    BY <2>1, <2>8
<1>14. CASE UNCHANGED vars
  BY <1>14, DiesKeeps
<1> QED
  BY <1>2, <1>3, <1>4, <1>5, <1>6, <1>7, <1>8, <1>9, <1>10, <1>11, <1>12, <1>13, <1>14
  DEF Next, Steps, OriginalReturns, ModHookReturns

-----------------------------------------------------------------------------
(* The rights of memory.                                                   *)

(* The page that f begins on is not mapped, or readable.                   *)
Readable(f) == rights[<<f, 1>>] = {} \/ "r" \in rights[<<f, 1>>]

(* Whether the modloader has got past some steps of its entry point.       *)
Past(steps) == stage # "modloader_load" /\ \A s \in steps : stack # <<Frame(Host, s)>>
Il2cppDone == Past({"dlopen", "il2cpp_init"})
UnityDone == Past({"dlopen", "il2cpp_init", "DestroyObject"})

(* Once protected, code that is there is readable.                         *)
Protected ==
  /\ rights[<<"DestroyObject", 1>>] # {}
  /\ refused = {} /\ Il2cppDone => Readable("il2cpp_init")
  /\ refused = {} /\ UnityDone => Readable("DestroyObject")

(* The two functions, and the pages that they begin on.                    *)
LEMMA FirstPages ==
  /\ "il2cpp_init" \in Functions /\ "DestroyObject" \in Functions
  /\ \A f \in Functions : <<f, 1>> \in Pages /\ <<f, 1>>[1] = f
  /\ \A f \in Functions : f \notin straddling => PagesOf(f) = {<<f, 1>>}
BY DEF Functions, Pages, PagesOf

(* One entry point differs from the other frames.                          *)
LEMMA HostFrames ==
  /\ \A s, t : <<Frame(Host, s)>> = <<Frame(Host, t)>> => s = t
  /\ \A s : <<Frame(Host, s)>> # <<>>
<1>1. \A s : <<Frame(Host, s)>>[1].step = s /\ Len(<<Frame(Host, s)>>) = 1
  BY DEF Frame
<1> QED
  BY <1>1

(* A call that is not of the entry point comes after all of it.            *)
LEMMA CallsComeLater ==
  ASSUME TypeOK, HostBegins, NEW run, run # Host, NEW step, TopIs(run, step), NEW steps
  PROVE  Past(steps)
<1>1. stack # <<>> /\ Last(stack) = Frame(run, step)
  BY DEF TopIs
<1>2. \A s : Last(<<Frame(Host, s)>>) = Frame(Host, s) /\ Frame(Host, s).run = Host
  BY DEF Last, Frame
<1>3. Frame(run, step).run = run
  BY DEF Frame
<1> QED
  BY <1>1, <1>2, <1>3 DEF HostBegins, Past

(* A step that makes no code unreadable, after the entry point or beside it, *)
(* leaves code protected.                                                  *)
LEMMA RightsGrow ==
  ASSUME Protected, refused \subseteq refused',
         \A f \in Functions :
           rights'[<<f, 1>>] = rights[<<f, 1>>] \/ "r" \in rights'[<<f, 1>>],
         Il2cppDone' => Il2cppDone, UnityDone' => UnityDone
  PROVE  Protected'
<1>1. /\ "il2cpp_init" \in Functions /\ "DestroyObject" \in Functions
      /\ refused' = {} => refused = {}
  BY FirstPages
<1>2. rights'[<<"DestroyObject", 1>>] # {}
  BY <1>1 DEF Protected
<1>3. ASSUME refused' = {}, Il2cppDone' PROVE Readable("il2cpp_init")'
  BY <1>1, <1>3 DEF Protected, Readable
<1>4. ASSUME refused' = {}, UnityDone' PROVE Readable("DestroyObject")'
  BY <1>1, <1>4 DEF Protected, Readable
<1> QED
  BY <1>2, <1>3, <1>4 DEF Protected

(* What a hook needs, when no function lies on two pages.                  *)
LEMMA Allowed ==
  ASSUME TypeOK, straddling = {}, NEW f \in Functions
  PROVE  /\ "r" \in rights[<<f, 1>>] => CanRead(f)
         /\ CanWrite(f)
<1>1. PagesOf(f) = {<<f, 1>>} /\ <<f, 1>> \in Pages /\ rights \in [Pages -> Rights]
  BY FirstPages, TypesOf
<1>2. MarkWritable(f)[<<f, 1>>] = {"r", "w", "x"}
  BY <1>1 DEF MarkWritable
<1> QED
  BY <1>1, <1>2 DEF CanRead, CanWrite

(* mprotect of one page makes it readable, and leaves the others.          *)
LEMMA MarkGrows ==
  ASSUME TypeOK, NEW f \in Functions, rights' = MarkWritable(f)
  PROVE  \A g \in Functions :
           rights'[<<g, 1>>] = rights[<<g, 1>>] \/ "r" \in rights'[<<g, 1>>]
<1>1. <<f, 1>> \in Pages /\ rights \in [Pages -> Rights]
      /\ \A g \in Functions : <<g, 1>> \in Pages
  BY FirstPages, TypesOf
<1> QED
  BY <1>1 DEF MarkWritable

(* A hook that cannot be made for want of a right.                         *)
LEMMA FaultAllowed ==
  ASSUME TypeOK, Protected, NEW l \in LoaderHooks, rights[<<TargetOf(l), 1>>] # {},
         IF l = LoadHook THEN Il2cppDone ELSE UnityDone,
         ~(CanRead(TargetOf(l)) /\ CanWrite(TargetOf(l)))
  PROVE  refused # {} \/ straddling # {}
<1> SUFFICES ASSUME refused = {}, straddling = {} PROVE FALSE
  OBVIOUS
<1>1. TargetOf(l) \in Functions
  BY Names
<1>2. Readable(TargetOf(l))
  BY Names DEF Protected
<1> QED
  BY <1>1, <1>2, Allowed DEF Readable

(* The rights and the process.                                             *)
MemoryInv == Protected /\ AccessAllowed

(* The code of libunity is there from the beginning, and no fault.         *)
LEMMA InitMemoryInv == Init => MemoryInv
<1> SUFFICES ASSUME Init PROVE MemoryInv
  OBVIOUS
<1>1. rights[<<"DestroyObject", 1>>] # {}
  BY FirstPages DEF Init
<1>2. ~Il2cppDone /\ ~UnityDone /\ status # "fault"
  BY DEF Init, Il2cppDone, UnityDone, Past
<1> QED
  BY <1>1, <1>2 DEF MemoryInv, Protected, AccessAllowed

(* A step that does not fault leaves AccessAllowed.                        *)
LEMMA NoFault ==
  ASSUME AccessAllowed, status' = "fault" => status = "fault", UNCHANGED straddling,
         refused \subseteq refused'
  PROVE  AccessAllowed'
BY DEF AccessAllowed

(* The end of the process changes nothing else.                            *)
LEMMA DeathKeeps ==
  ASSUME MemoryInv, NEW how, Die(how),
         how = "fault" => refused # {} \/ straddling # {}
  PROVE  MemoryInv'
BY DEF MemoryInv, Protected, AccessAllowed, Readable, Il2cppDone, UnityDone, Past, Die, memory, history

(* A hook of the loader that is made keeps the rights.                     *)
LEMMA HookMadeKeeps ==
  ASSUME TypeOK, MemoryInv, NEW l \in LoaderHooks, InstallHook(l), Il2cppDone, UnityDone,
         UNCHANGED <<straddling, status, refused>>
  PROVE  MemoryInv'
<1>1. TargetOf(l) \in Functions /\ rights' = MarkWritable(TargetOf(l))
  BY Names DEF InstallHook
<1> QED
  BY <1>1, MarkGrows, RightsGrow, NoFault DEF MemoryInv

(* MemoryInv is inductive where HooksInv holds: one step for each action.  *)
LEMMA NextMemoryInv == HooksInv /\ MemoryInv /\ [Next]_vars => MemoryInv'
<1> SUFFICES ASSUME HooksInv, MemoryInv, [Next]_vars PROVE MemoryInv'
  OBVIOUS
<1>1. /\ TypeOK /\ Facts /\ HostBegins /\ Protected /\ AccessAllowed
      /\ stack \in Seq(FrameType) /\ rights \in [Pages -> Rights]
  BY Parts, TypesOf DEF Facts, MemoryInv
<1>2. ASSUME NEW run, run # Host, NEW step, TopIs(run, step)
      PROVE  Il2cppDone /\ UnityDone
  BY <1>1, <1>2, CallsComeLater DEF Il2cppDone, UnityDone
<1>3. \A h \in Hooks : h # Host
  BY Names
<1>4. ASSUME UNCHANGED <<straddling, rights, status, refused>>,
             Il2cppDone' => Il2cppDone, UnityDone' => UnityDone
      PROVE  MemoryInv'
  BY <1>1, <1>4, RightsGrow, NoFault DEF MemoryInv
<1>5. CASE modloader_accept_unity_handle
  <2>1. UNCHANGED <<straddling, rights, status, refused>> /\ stack' = <<Frame(Host, "dlopen")>>
    BY <1>5 DEF modloader_accept_unity_handle, memory, history
  <2> QED
    BY <1>4, <2>1 DEF Il2cppDone, UnityDone, Past
<1>6. CASE dlopen
  <2>1. /\ stack' = <<Frame(Host, "il2cpp_init")>>
        /\ UNCHANGED <<straddling, status, refused>>
    BY <1>1, <1>6, HostStepKeeps DEF dlopen, history
  <2>2. rights'[<<"DestroyObject", 1>>] = rights[<<"DestroyObject", 1>>]
    BY <1>6, FirstPages DEF dlopen
  <2>3. ~Il2cppDone' /\ ~UnityDone'
    BY <2>1 DEF Il2cppDone, UnityDone, Past
  <2>4. Protected'
    BY <1>1, <2>2, <2>3 DEF Protected
  <2> QED
    BY <1>1, <2>1, <2>4, NoFault DEF MemoryInv
<1>7. CASE protect_all
  <2>1. PICK f \in Functions :
          /\ TopIs(Host, f)
          /\ \/ /\ rights' = [p \in Pages |-> IF p \in protect(f) THEN {"r", "x"} ELSE rights[p]]
                /\ UNCHANGED refused
             \/ refused' = refused \union {f} /\ UNCHANGED rights
          /\ stack' = NextStep(IF f = "il2cpp_init" THEN "DestroyObject" ELSE "install_load_hook")
          /\ UNCHANGED <<straddling, start, saved, target, stage, status, worked, nested, disturbed>>
    BY <1>7 DEF protect_all
  <2> DEFINE next == IF f = "il2cpp_init" THEN "DestroyObject" ELSE "install_load_hook"
  <2>2. stack = <<Frame(Host, f)>> /\ stack' = <<Frame(Host, next)>>
    BY <1>1, <2>1, HostStepKeeps
  <2>3. refused \subseteq refused' /\ AccessAllowed'
    BY <1>1, <2>1, NoFault
  <2>4. CASE refused' # {}
    <3>1. rights'[<<"DestroyObject", 1>>] # {}
      BY <1>1, <2>1, FirstPages DEF Protected
    <3> QED
      BY <2>3, <2>4, <3>1 DEF MemoryInv, Protected
  <2>5. CASE refused' = {}
    <3>1. rights' = [p \in Pages |-> IF p \in protect(f) THEN {"r", "x"} ELSE rights[p]] /\ refused = {}
      BY <2>1, <2>5
    <3>2. \A g \in Functions :
            rights'[<<g, 1>>] = rights[<<g, 1>>] \/ "r" \in rights'[<<g, 1>>]
      BY <3>1, FirstPages
    <3>3. Readable(f)'
      <4>1. <<f, 1>> \in Pages /\ <<f, 1>>[1] = f /\ rights[<<f, 1>>] \in Rights
        BY <1>1, FirstPages
      <4> QED
        BY <3>1, <4>1 DEF Readable, protect, Rights
    <3>4. CASE f = "il2cpp_init"
      <4>1. ~UnityDone'
        BY <2>2, <3>4 DEF UnityDone, Past
      <4>2. rights'[<<"DestroyObject", 1>>] # {}
        BY <1>1, <3>2, FirstPages DEF Protected
      <4> QED
        BY <2>3, <3>3, <3>4, <4>1, <4>2 DEF MemoryInv, Protected
    <3>5. CASE f = "DestroyObject"
      <4>1. Il2cppDone' => Il2cppDone
        BY <2>1, <2>2, <3>5, HostFrames DEF Il2cppDone, Past
      <4>2. Readable("il2cpp_init")' \/ ~Il2cppDone'
        BY <1>1, <3>1, <3>2, <4>1, FirstPages DEF Protected, Readable
      <4>3. rights'[<<"DestroyObject", 1>>] # {}
        BY <1>1, <3>2, FirstPages DEF Protected
      <4> QED
        BY <2>3, <3>3, <3>5, <4>2, <4>3 DEF MemoryInv, Protected
    <3> QED
      BY <3>4, <3>5 DEF Functions
  <2> QED
    BY <2>4, <2>5
<1>8. CASE install_load_hook
  <2>1. stack # <<>> /\ Last(stack) = Frame(Host, "install_load_hook") /\ stage = Host
    <3>1. stack # <<>> /\ Last(stack) = Frame(Host, "install_load_hook")
      BY <1>8 DEF install_load_hook, TopIs
    <3>2. stack[Len(stack)].run = Host /\ Len(stack) \in DOMAIN stack
      BY <1>1, <3>1, StackFacts DEF Frame
    <3> QED
      BY <1>1, <3>1, <3>2 DEF Facts, StackShape
  <2>2. Il2cppDone /\ UnityDone
    <3>1. \A s : Last(<<Frame(Host, s)>>).step = s
      BY DEF Last, Frame
    <3>2. Frame(Host, "install_load_hook").step = "install_load_hook"
      BY DEF Frame
    <3> QED
      BY <2>1, <3>1, <3>2 DEF Il2cppDone, UnityDone, Past, Host
  <2>3. LoadHook \in LoaderHooks /\ TargetOf(LoadHook) = "il2cpp_init"
    BY Names
  <2>4. CASE InstallHook(LoadHook) /\ UNCHANGED <<straddling, stage, status, history>>
    BY <1>1, <2>2, <2>3, <2>4, HookMadeKeeps DEF MemoryInv, history
  <2>5. CASE rights[<<"il2cpp_init", 1>>] # {} /\ InstallFails(LoadHook)
    BY <1>1, <2>2, <2>3, <2>5, FaultAllowed, DeathKeeps DEF MemoryInv, InstallFails
  <2>6. CASE Die("null")
    BY <2>6, DeathKeeps
  <2>7. CASE UNCHANGED <<memory, stage, status, history>>
    BY <1>4, <2>2, <2>7 DEF memory, history
  <2> QED
    BY <1>8, <2>4, <2>5, <2>6, <2>7 DEF install_load_hook
<1>9. ASSUME NEW run, run # Host, NEW step, Return(run, step) PROVE MemoryInv'
  <2>1. Il2cppDone /\ UnityDone
    BY <1>2, <1>9 DEF Return
  <2> QED
    BY <1>4, <1>9, <2>1 DEF Return, memory, history
<1>10. CASE CallOriginal
  <2>1. PICK h \in Hooks : TopIs(h, "enter")
    BY <1>10 DEF CallOriginal
  <2>2. Il2cppDone /\ UnityDone
    BY <1>2, <1>3, <2>1
  <2> QED
    BY <1>4, <1>10, <2>2 DEF CallOriginal, memory, history
<1>11. CASE UndoHook
  <2>1. PICK l \in LoaderHooks :
          /\ TopIs(l, "called")
          /\ \/ undo_hook(l) /\ UNCHANGED <<straddling, status, history>>
             \/ Die("aborted")
             \/ ~CanWrite(TargetOf(l)) /\ Die("fault")
    BY <1>11 DEF UndoHook
  <2>2. Il2cppDone /\ UnityDone /\ TargetOf(l) \in Functions
    BY <1>2, <1>3, <2>1, Names
  <2>3. CASE undo_hook(l) /\ UNCHANGED <<straddling, status, history>>
    <3>1. rights' = MarkWritable(TargetOf(l)) /\ UNCHANGED refused
      BY <2>3 DEF undo_hook, history
    <3> QED
      BY <1>1, <2>2, <2>3, <3>1, MarkGrows, RightsGrow, NoFault DEF MemoryInv
  <2>4. CASE Die("aborted")
    BY <2>4, DeathKeeps
  <2>5. CASE ~CanWrite(TargetOf(l)) /\ Die("fault")
    <3>1. straddling # {}
      BY <1>1, <2>2, <2>5, Allowed
    <3> QED
      BY <2>5, <3>1, DeathKeeps
  <2> QED
    BY <2>1, <2>3, <2>4, <2>5
<1>12. CASE ModsLoaded
  <2>1. PICK l \in LoaderHooks : TopIs(l, "load_mods")
    BY <1>12 DEF ModsLoaded
  <2>2. Il2cppDone /\ UnityDone
    BY <1>2, <1>3, <2>1, Names
  <2> QED
    BY <1>4, <1>12, <2>2 DEF ModsLoaded, memory
<1>13. CASE setup_unity_hook
  <2>1. /\ LoadHook \in Hooks /\ UnityHook \in LoaderHooks /\ UnityHook # LoadHook
        /\ TargetOf(UnityHook) = "DestroyObject"
    BY Names
  <2>2. Il2cppDone /\ UnityDone
    BY <1>2, <1>3, <1>13, <2>1 DEF setup_unity_hook
  <2>3. CASE InstallHook(UnityHook) /\ UNCHANGED <<straddling, stage, status, history>>
    BY <1>1, <2>1, <2>2, <2>3, HookMadeKeeps DEF MemoryInv, history
  <2>4. CASE InstallFails(UnityHook)
    <3>1. rights[<<"DestroyObject", 1>>] # {}
      BY <1>1 DEF Protected
    <3> QED
      BY <1>1, <2>1, <2>2, <2>4, <3>1, FaultAllowed, DeathKeeps DEF MemoryInv, InstallFails
  <2>5. CASE UNCHANGED <<memory, stage, status, history>>
    BY <1>4, <2>2, <2>5 DEF memory, history
  <2>6. CASE "DestroyObject" \in refused /\ Die("fault")
    BY <2>6, DeathKeeps
  <2>7. CASE Die("astray")
    BY <2>7, DeathKeeps
  <2> QED
    BY <1>13, <2>3, <2>4, <2>5, <2>6, <2>7 DEF setup_unity_hook
<1>14. ASSUME NEW f \in Functions, GameCalls(f) PROVE MemoryInv'
  <2>1. stack = <<>> /\ stage # "modloader_load"
    BY <1>14 DEF GameCalls, Host
  <2>2. Il2cppDone /\ UnityDone
    BY <2>1, HostFrames DEF Il2cppDone, UnityDone, Past
  <2> QED
    BY <1>4, <1>14, <2>2 DEF GameCalls, memory, history
<1>15. CASE NestedCall
  <2>1. TopIs("DestroyObject", "enter") /\ "DestroyObject" # Host
    BY <1>15 DEF NestedCall, Host
  <2>2. Il2cppDone /\ UnityDone
    BY <1>2, <2>1
  <2> QED
    BY <1>4, <1>15, <2>2 DEF NestedCall, memory
<1>16. CASE ModInstallsHook
  <2>1. PICK f \in Functions :
          /\ rights' = [p \in Pages |-> IF p \in PagesOf(f) THEN {"r", "w", "x"} ELSE rights[p]]
          /\ UNCHANGED <<straddling, stack, stage, status, refused>>
    BY <1>16 DEF ModInstallsHook
  <2>2. \A g \in Functions :
          rights'[<<g, 1>>] = rights[<<g, 1>>] \/ "r" \in rights'[<<g, 1>>]
    BY <2>1, FirstPages
  <2>3. (Il2cppDone' => Il2cppDone) /\ (UnityDone' => UnityDone)
    BY <2>1 DEF Il2cppDone, UnityDone, Past
  <2> QED
    BY <1>1, <2>1, <2>2, <2>3, RightsGrow, NoFault DEF MemoryInv
<1>17. CASE UNCHANGED vars
  <2>1. UNCHANGED <<straddling, rights, status, refused, stack, stage>>
    BY <1>17 DEF vars, memory, history
  <2> QED
    BY <1>4, <2>1 DEF Il2cppDone, UnityDone, Past
<1>18. \A f \in Functions : f # Host
  BY Names
<1>19. ModHooks \subseteq Hooks
  BY Names
<1> QED
  BY <1>3, <1>5, <1>6, <1>7, <1>8, <1>9, <1>10, <1>11, <1>12, <1>13, <1>14, <1>15, <1>16, <1>17,
     <1>18, <1>19
  DEF Next, Steps, OriginalReturns, ModHookReturns

-----------------------------------------------------------------------------
(* Theorems.                                                               *)

(* HooksInv holds in every reachable state.                                *)
THEOREM HooksInductive == Spec => []HooksInv
BY InitHooksInv, NextHooksInv, PTL DEF Spec

(* Memory, the stack and the history always have their types.              *)
THEOREM HookTyping == Spec => []TypeOK
BY HooksInductive, PTL DEF HooksInv

(* A hook of a mod stays where it was made, unless it was made over a hook   *)
(* of the loader that was still to be undone, whoever hooks what and how    *)
(* deep calls nest.                                                        *)
THEOREM HooksOfModsStay == Spec => []ModHooksStay
BY HooksInductive, PTL DEF HooksInv

(* A hook of the loader loads its mods at most once and is gone then, as    *)
(* long as calls of DestroyObject do not nest.                             *)
THEOREM HooksWorkOnce == Spec => []WorksOnce
<1>1. HooksInv => WorksOnce
  <2> SUFFICES ASSUME HooksInv, ~nested, NEW l \in LoaderHooks
               PROVE  worked[l] <= 1 /\ (worked[l] = 1 => l \notin Range(start[TargetOf(l)]))
    BY DEF WorksOnce
  <2> QED
    BY DEF HooksInv, AfterUndo, Single, ToBeUndone
<1> QED
  BY <1>1, HooksInductive, PTL

(* The loader reads and writes code only where that is allowed, unless      *)
(* protect_all failed or a hook reaches over the end of its page.          *)
THEOREM MemoryAllowed == Spec => []AccessAllowed
<1>1. Spec => []MemoryInv
  BY InitMemoryInv, NextMemoryInv, HooksInductive, PTL DEF Spec
<1> QED
  BY <1>1, PTL DEF MemoryInv
=============================================================================
