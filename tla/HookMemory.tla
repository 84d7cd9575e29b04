----------------------------- MODULE HookMemory ----------------------------
(***************************************************************************)
(* The two hooks of the modloader as instructions in memory                *)
(* (src/main.cpp), the rights that pages need for them (protect.hpp), and  *)
(* the hooks that mods make at the same functions.                         *)
(*                                                                         *)
(* A hook overwrites the first four instructions of a function by a jump,  *)
(* and keeps what was there in a trampoline, from which the function can   *)
(* be called as it was before.  So what stands at a function is a sequence *)
(* of hooks, the latest first, with the original function behind them all; *)
(* and a trampoline keeps such a sequence as it was.                       *)
(*                                                                         *)
(* Everything runs on one thread.  A call that has not returned is a frame *)
(* of the stack, the innermost one last.                                   *)
(***************************************************************************)
EXTENDS Integers, Sequences, SequencesExt

CONSTANTS
  ModHooks,  \* hooks that mods may make
  MaxDepth   \* bound: frames in which functions are called from within others

Functions == {"il2cpp_init", "DestroyObject"}
LoadHook == "load_hook"
UnityHook == "unity_hook"
LoaderHooks == {LoadHook, UnityHook}
Hooks == ModHooks \union LoaderHooks
Host == "modloader_accept_unity_handle"

ASSUME HookAssumption ==
  /\ ModHooks \intersect (LoaderHooks \union Functions \union {Host}) = {}
  /\ MaxDepth \in Nat

VARIABLES
  straddling,  \* fixed: functions whose first four instructions lie on two pages
  rights,      \* of the page that a function begins on, and of the page behind that
  start,       \* what stands at a function: the hooks that a call goes through
  saved,       \* the trampoline of a hook: what stood there before
  target,      \* where a hook has been made, or "none"
  stack,       \* of frames [run, step]
  stage,       \* how far the host has come
  status,      \* "running", or how the process ended: "fault" against rights,
               \* "astray" outside of what is mapped, "null", or "aborted"
  worked,      \* history: how often a hook of the loader has loaded its mods
  refused,     \* history: segments that protect_all failed to protect
  nested,      \* history: DestroyObject was called inside a hooked DestroyObject
  disturbed    \* history: mod hooks made where an undo_hook was still to come

memory == <<straddling, rights, start, saved, target>>
history == <<worked, refused, nested, disturbed>>
vars == <<memory, stack, stage, status, history>>

Pages == Functions \X {1, 2}
PagesOf(f) == {f} \X (IF f \in straddling THEN {1, 2} ELSE {1})
TargetOf(l) == IF l = LoadHook THEN "il2cpp_init" ELSE "DestroyObject"

(* Code is execute-only or readable too; libil2cpp may not be mapped yet.  *)
Init ==
  /\ straddling \in SUBSET Functions
  /\ \E il2cpp \in {{}, {"x"}, {"r", "x"}}, unity \in {{"x"}, {"r", "x"}} :
       rights = [p \in Pages |-> IF p[1] = "il2cpp_init" THEN il2cpp ELSE unity]
  /\ start = [f \in Functions |-> <<>>]
  /\ saved = [h \in Hooks |-> <<>>]
  /\ target = [h \in Hooks |-> "none"]
  /\ stack = <<>>
  /\ stage = "modloader_load"
  /\ status = "running"
  /\ worked = [l \in LoaderHooks |-> 0]
  /\ refused = {}
  /\ nested = FALSE
  /\ disturbed = {}

-----------------------------------------------------------------------------
(* The stack.                                                              *)

Frame(run, step) == [run |-> run, step |-> step]
TopIs(run, step) == status = "running" /\ stack # <<>> /\ Last(stack) = Frame(run, step)
NextStep(step) == Append(Front(stack), [Last(stack) EXCEPT !.step = step])

(* A call goes to the first hook, or to the original function.             *)
Called(f, hooks) == Frame(IF hooks = <<>> THEN f ELSE Head(hooks), "enter")

Die(how) == status' = how /\ UNCHANGED <<memory, stack, stage, history>>

-----------------------------------------------------------------------------
(* modloader_accept_unity_handle.                                          *)

modloader_accept_unity_handle ==
  /\ stage = "modloader_load" /\ status = "running" /\ stack = <<>>
  /\ stage' = Host
  /\ stack' = <<Frame(Host, "dlopen")>>
  /\ UNCHANGED <<memory, status, history>>

(* The answer is looked at only after protect_all.                         *)
dlopen ==
  /\ TopIs(Host, "dlopen")
  /\ \/ /\ rights[<<"il2cpp_init", 1>>] = {}
        /\ \E code \in {{"x"}, {"r", "x"}} :
             rights' = [p \in Pages |-> IF p[1] = "il2cpp_init" THEN code ELSE rights[p]]
     \/ UNCHANGED rights
  /\ stack' = NextStep("il2cpp_init")
  /\ UNCHANGED <<straddling, start, saved, target, stage, status, history>>

(* Mutant: only what is writable is made readable.                         *)
protect_Writable(f) ==
  {p \in Pages : p[1] = f /\ "x" \in rights[p] /\ "r" \notin rights[p] /\ "w" \in rights[p]}

(* The pages of a segment that protect_all picks out.                      *)
protect(f) ==
  {p \in Pages : p[1] = f /\ "x" \in rights[p] /\ "r" \notin rights[p] /\ "w" \notin rights[p]}

(* One segment after the other; a failure is logged and no more.           *)
protect_all ==
  \E f \in Functions :
    /\ TopIs(Host, f)
    /\ \/ /\ rights' = [p \in Pages |-> IF p \in protect(f) THEN {"r", "x"} ELSE rights[p]]
          /\ UNCHANGED refused
       \/ /\ protect(f) # {}
          /\ refused' = refused \union {f}
          /\ UNCHANGED rights
    /\ stack' = NextStep(IF f = "il2cpp_init" THEN "DestroyObject" ELSE "install_load_hook")
    /\ UNCHANGED <<straddling, start, saved, target, stage, status, worked, nested, disturbed>>

-----------------------------------------------------------------------------
(* Making and undoing a hook.                                              *)

(* Mutant: without PROT_EXEC.                                              *)
MarkWritable_NoExec(f) == [rights EXCEPT ![<<f, 1>>] = {"r", "w"}]

(* mprotect of the one page that the function begins on.                   *)
MarkWritable(f) == [rights EXCEPT ![<<f, 1>>] = {"r", "w", "x"}]

CanRead(f) == \A p \in PagesOf(f) : "r" \in rights[p]
CanWrite(f) == \A p \in PagesOf(f) : "w" \in MarkWritable(f)[p]

(* Mutant: a function that has a hook already is left alone.               *)
InstallHook_IfFree(l) ==
  LET f == TargetOf(l) IN
    /\ CanRead(f) /\ CanWrite(f)
    /\ rights' = MarkWritable(f)
    /\ saved' = [saved EXCEPT ![l] = start[f]]
    /\ start' = IF start[f] = <<>> THEN [start EXCEPT ![f] = <<l>>] ELSE start
    /\ target' = [target EXCEPT ![l] = f]

(* install_load_hook and install_unity_hook, when all goes well: the        *)
(* trampoline is made first, then the jump to the hook.                    *)
InstallHook(l) ==
  LET f == TargetOf(l) IN
    /\ CanRead(f) /\ CanWrite(f)
    /\ rights' = MarkWritable(f)
    /\ saved' = [saved EXCEPT ![l] = start[f]]
    /\ start' = [start EXCEPT ![f] = <<l>> \o start[f]]
    /\ target' = [target EXCEPT ![l] = f]

(* The instructions cannot be read or written, or mprotect fails.          *)
InstallFails(l) ==
  LET f == TargetOf(l) IN
    \/ CanRead(f) /\ Die("aborted")
    \/ ~(CanRead(f) /\ CanWrite(f)) /\ Die("fault")

(* dlsym may not know il2cpp_init, which is not tested for.                *)
install_load_hook ==
  /\ TopIs(Host, "install_load_hook")
  /\ \/ /\ rights[<<"il2cpp_init", 1>>] # {}
        /\ InstallHook(LoadHook)
        /\ stack' = <<>>
        /\ UNCHANGED <<straddling, stage, status, history>>
     \/ rights[<<"il2cpp_init", 1>>] # {} /\ InstallFails(LoadHook)
     \/ rights[<<"il2cpp_init", 1>>] # {} /\ Die("null")
     \/ rights[<<"il2cpp_init", 1>>] = {} /\ stack' = <<>>
        /\ UNCHANGED <<memory, stage, status, history>>

(* Mutant: the original function is restored, not what stood there.        *)
undo_hook_Original(l) ==
  /\ rights' = MarkWritable(TargetOf(l))
  /\ start' = [start EXCEPT ![TargetOf(l)] = <<>>]

(* Mutant: the instructions are not copied.                                *)
undo_hook_NoCopy(l) ==
  /\ rights' = MarkWritable(TargetOf(l))
  /\ UNCHANGED start

(* The instructions of the trampoline are copied back over whatever stands  *)
(* there by now.                                                           *)
undo_hook(l) ==
  /\ rights' = MarkWritable(TargetOf(l))
  /\ start' = [start EXCEPT ![TargetOf(l)] = saved[l]]

-----------------------------------------------------------------------------
(* Calls of the functions.                                                 *)

(* By the host, once, and by Unity.                                        *)
GameCalls(f) ==
  /\ status = "running" /\ stack = <<>>
  /\ stage = (IF f = "il2cpp_init" THEN Host ELSE "il2cpp_init")
  /\ stage' = "il2cpp_init"
  /\ stack' = <<Called(f, start[f])>>
  /\ UNCHANGED <<memory, status, history>>

(* By Unity, once inside each DestroyObject.                               *)
NestedCall ==
  /\ TopIs("DestroyObject", "enter") /\ Len(stack) < MaxDepth
  /\ stack' = Append(NextStep("called"), Called("DestroyObject", start["DestroyObject"]))
  /\ nested' = (nested \/ \E i \in DOMAIN stack : stack[i].run = UnityHook)
  /\ UNCHANGED <<memory, stage, status, worked, refused, disturbed>>

Return(run, step) ==
  /\ TopIs(run, step)
  /\ stack' = Front(stack)
  /\ UNCHANGED <<memory, stage, status, history>>

OriginalReturns == \E f \in Functions : Return(f, "enter") \/ Return(f, "called")

(* A hook calls what its trampoline leads to.                              *)
CallOriginal ==
  \E h \in Hooks :
    /\ TopIs(h, "enter")
    /\ stack' = Append(NextStep("called"), Called(target[h], saved[h]))
    /\ UNCHANGED <<memory, stage, status, history>>

(* A hook of a mod may do without the original.                            *)
ModHookReturns == \E h \in ModHooks : Return(h, "enter") \/ Return(h, "called")

(* The hooks of the loader undo themselves and go on to load mods.         *)
UndoHook ==
  \E l \in LoaderHooks :
    /\ TopIs(l, "called")
    /\ \/ /\ CanWrite(TargetOf(l))
          /\ undo_hook(l)
          /\ stack' = NextStep("load_mods")
          /\ UNCHANGED <<straddling, saved, target, stage, status, history>>
       \/ Die("aborted")
       \/ ~CanWrite(TargetOf(l)) /\ Die("fault")

(* load_early_mods, or open_mods and load_mods, come to their end.         *)
ModsLoaded ==
  \E l \in LoaderHooks :
    /\ TopIs(l, "load_mods")
    /\ worked' = [worked EXCEPT ![l] = @ + 1]
    /\ stack' = IF l = LoadHook THEN NextStep("setup_unity_hook") ELSE Front(stack)
    /\ UNCHANGED <<memory, stage, status, refused, nested, disturbed>>

(* The search for DestroyObject, which HookSearch is about, may find        *)
(* nothing without reading any memory, or read a page of libunity that     *)
(* protect_all left as it was.  It reads up to 100 and then 1024           *)
(* instructions whatever is mapped there, and so may go astray.            *)
setup_unity_hook ==
  /\ TopIs(LoadHook, "setup_unity_hook")
  /\ \/ /\ InstallHook(UnityHook)
        /\ stack' = Front(stack)
        /\ UNCHANGED <<straddling, stage, status, history>>
     \/ InstallFails(UnityHook)
     \/ "DestroyObject" \in refused /\ Die("fault")
     \/ Die("astray")
     \/ /\ stack' = Front(stack)
        /\ UNCHANGED <<memory, stage, status, history>>

(* The hook l is yet to be undone, now or when a call returns.             *)
ToBeUndone(l) ==
  \/ l \in Range(start[TargetOf(l)])
  \/ \E i \in DOMAIN stack : stack[i] \in {Frame(l, "enter"), Frame(l, "called")}

(* Mods make hooks in the callbacks that the modloader runs, in the hooks   *)
(* they have, and in between.  They see to the rights themselves.          *)
ModInstallsHook ==
  /\ status = "running"
  /\ stack # <<>> =>
       Last(stack).run \in ModHooks \union Functions \/ Last(stack).step = "load_mods"
  /\ \E h \in ModHooks, f \in Functions :
       /\ target[h] = "none"
       /\ rights[<<f, 1>>] # {}
       /\ rights' = [p \in Pages |-> IF p \in PagesOf(f) THEN {"r", "w", "x"} ELSE rights[p]]
       /\ saved' = [saved EXCEPT ![h] = start[f]]
       /\ start' = [start EXCEPT ![f] = <<h>> \o start[f]]
       /\ target' = [target EXCEPT ![h] = f]
       /\ disturbed' = IF \E l \in LoaderHooks : TargetOf(l) = f /\ ToBeUndone(l)
                       THEN disturbed \union {h} ELSE disturbed
  /\ UNCHANGED <<straddling, stack, stage, status, worked, refused, nested>>

Steps ==
  \/ dlopen
  \/ protect_all
  \/ install_load_hook
  \/ OriginalReturns
  \/ CallOriginal
  \/ ModHookReturns
  \/ UndoHook
  \/ ModsLoaded
  \/ setup_unity_hook

Next ==
  \/ modloader_accept_unity_handle
  \/ Steps
  \/ \E f \in Functions : GameCalls(f)
  \/ NestedCall
  \/ ModInstallsHook

Spec == Init /\ [][Next]_vars

(* Functions return, and the game goes on to initialize il2cpp and to       *)
(* destroy objects, which it does when it loads its first scene.           *)
Fairness == WF_vars(Steps) /\ \A f \in Functions : WF_vars(GameCalls(f))
FairSpec == Spec /\ Fairness

-----------------------------------------------------------------------------
TypeOK ==
  /\ straddling \subseteq Functions
  /\ rights \in [Pages -> {{}, {"x"}, {"r", "x"}, {"r", "w", "x"}}]
  /\ DOMAIN start = Functions /\ \A f \in Functions : start[f] \in Seq(Hooks)
  /\ DOMAIN saved = Hooks /\ \A h \in Hooks : saved[h] \in Seq(Hooks)
  /\ target \in [Hooks -> Functions \union {"none"}]
  /\ stack \in Seq([run : Functions \union Hooks \union {Host},
                    step : {"enter", "called", "load_mods", "setup_unity_hook", "dlopen",
                            "install_load_hook"} \union Functions])
  /\ stage \in {"modloader_load", Host, "il2cpp_init"}
  /\ status \in {"running", "fault", "astray", "aborted", "null"}
  /\ worked \in [LoaderHooks -> Nat]
  /\ refused \subseteq Functions
  /\ nested \in BOOLEAN
  /\ disturbed \subseteq ModHooks

(* If protect_all was let do what it does, code is only read and written    *)
(* where its rights allow it, except where a hook reaches over the end of  *)
(* its page: libil2cpp is opened before, and no right is taken away later. *)
(* Nothing is said of a search that goes astray: nothing in the code bounds *)
(* it by what is mapped.                                                   *)
AccessAllowed ==
  status = "fault" => refused # {} \/ straddling # {}

(* A hook of a mod stays where it was made, under or over the hooks of the  *)
(* loader, unless it was made at a time when the loader had still to undo  *)
(* its own there: that copies back what was before both.                   *)
ModHooksStay ==
  \A h \in ModHooks :
    target[h] # "none" /\ h \notin disturbed => h \in Range(start[target[h]])

(* A hook of the loader loads its mods once and is gone then, however the    *)
(* hooks are stacked, unless calls of DestroyObject nest.                  *)
WorksOnce ==
  ~nested =>
    \A l \in LoaderHooks :
      /\ worked[l] <= 1
      /\ worked[l] = 1 => l \notin Range(start[TargetOf(l)])

(* Once a hook of the loader is there, it loads its mods, whether mods had   *)
(* hooked the function before or not, unless one hooked it after that and  *)
(* need not call what it hooked.                                           *)
HookWorks ==
  \A l \in LoaderHooks :
    target[l] # "none" ~>
      \/ worked[l] > 0
      \/ status # "running"
      \/ \E h \in disturbed : target[h] = TargetOf(l)
=============================================================================
