----------------------------- MODULE Modloader -----------------------------
(***************************************************************************)
(* The life of the modloader in its host: the entry points and hooks of    *)
(* src/main.cpp, the lists of opened objects and the loops over them in    *)
(* src/modloader.cpp, and the setup, load, late_load and unload callbacks  *)
(* of the mods, which may call the modloader's C API while they run.       *)
(*                                                                         *)
(* Everything runs on one thread, so what is interleaved is a stack: each  *)
(* function that is in progress is a frame, the innermost one first, and a *)
(* frame refers to a LoadResult the way the code does, by its place in a   *)
(* vector.  An erase moves the later elements one place down under all the *)
(* frames that refer to them.                                              *)
(*                                                                         *)
(* The candidates of a phase and what each of them needs, Loader's and     *)
(* Resolution's subjects, are the constants Candidates and Sorted.  Mods   *)
(* that need each other are opened twice: skip_load is not looked at again *)
(* for the candidate itself.                                               *)
(***************************************************************************)
EXTENDS LoadPhases, FiniteSets

CONSTANTS
  Mod,         \* shared objects: libraries, early mods and mods
  Id,          \* the ids that mods give themselves
  Version,     \* the versions that mods give themselves
  Candidates,  \* the objects in the directory of each phase, in their order
  Sorted,      \* the dependencies of each object, in the order of topologicalSort
  Exports,     \* the callbacks that each object exports
  DeclaredInfo,  \* what each object's ModInfo is after its setup
  Requests,    \* what the API is asked for: pairs of a CModInfo and a CMatchType
  Reentrant,   \* pairs <<callback, API function>>: who calls what
  DestroyNests,  \* whether Unity destroys objects while it destroys one
  MaxApi,      \* bound: API calls made, in callbacks and between them
  MaxDepth     \* bound: frames on the stack when an API call is made

Callback == {"ctor", "setup", "load", "late_load", "unload"}
Api == {"require_mod", "force_unload"}

(* What loadMod opens an object as: a dependency, or the candidate itself.  *)
Role == {"dependency", "candidate"}

(* A ModInfo's id is the path of the object until setup has filled it.     *)
ModInfo == [id : Id \union Mod, version : Version, versionLong : Nat]
DefaultInfo(m) == [id |-> m, version |-> "0.0.0", versionLong |-> 0]

CMatchType == {"Strict", "IdOnly", "IdVersion", "IdVersionLong", "ObjectName"}

ASSUME ModAssumption ==
  /\ Candidates \in [OpenedPhases -> Seq(Mod)]
  /\ Sorted \in [Mod -> Seq(Mod)]
  /\ Exports \in [Mod -> SUBSET (Callback \ {"ctor"})]
  /\ "0.0.0" \in Version
  /\ DeclaredInfo \in [Mod -> ModInfo]

ASSUME HostAssumption ==
  /\ Requests \subseteq ModInfo \X CMatchType
  /\ Reentrant \subseteq Callback \X Api
  /\ DestroyNests \in BOOLEAN
  /\ MaxApi \in Nat
  /\ MaxDepth \in Nat

VARIABLES
  host,                \* how far the host's start-up is
  failed,              \* copy_all failed
  hooks,               \* the hooks that are installed
  current_load_phase,
  opened,              \* libs_opened, early_mods_opened, late_mods_opened
  skip_load,
  loaded,              \* loaded_libs, loaded_early_mods, loaded_mods
  stack,               \* the functions in progress, innermost first
  undefined,           \* an element past the end of a vector was used
  apiCalls,            \* counts the API calls, up to MaxApi
  returned,            \* history: the callbacks of each object that returned
  handles,             \* history: what dlopen has given and dlclose not taken back
  unloaded             \* history: modloader_unload was called

hostVars == <<host, failed, hooks>>
listVars == <<current_load_phase, opened, skip_load, loaded>>
historyVars == <<returned, handles, unloaded>>
vars == <<hostVars, listVars, stack, undefined, apiCalls, historyVars>>

(* Mutant: the id is empty until setup has filled it.                      *)
LoadedMod_NoId(m, as) ==
  [mod |-> m, as |-> as, ok |-> TRUE, info |-> [DefaultInfo(m) EXCEPT !.id = ""], called |-> {}]

(* The LoadResults of one list; called stands for inited, load_called and   *)
(* late_load_called.  A FailedMod has no ModInfo that anything looks at.    *)
LoadedMod(m, as) ==
  [mod |-> m, as |-> as, ok |-> TRUE, info |-> DefaultInfo(m), called |-> {}]
FailedMod(m, as) ==
  [mod |-> m, as |-> as, ok |-> FALSE, info |-> DefaultInfo(m), called |-> {}]
LoadResult ==
  [mod : Mod, as : Role, ok : BOOLEAN, info : ModInfo, called : SUBSET Callback]

(* dlopen counts: each successful call gives a handle that has a dlclose of *)
(* its own coming.  The role tells the handles of one object apart.        *)
Handle(result) == <<result.mod, result.as>>

-----------------------------------------------------------------------------
(* The frames, one kind for each function that can be in progress.         *)

(* loadMods for a phase: the candidates left, the dependencies that loadMod *)
(* has left while it is at the first of them, and the results so far.       *)
OpenFrame(list) ==
  [at |-> "open", list |-> list, begun |-> FALSE, mods |-> Candidates[list],
   loading |-> FALSE, deps |-> <<>>, results |-> <<>>]

(* A loop over a list that calls fn ("close" is try_close).  Like any       *)
(* range-for it takes the end of the vector once, when it begins.           *)
ForFrame(list, fn) == [at |-> "for", list |-> list, fn |-> fn, pos |-> 0, end |-> 0]

(* Mutant: the flag always goes into the first element.                    *)
CallFrame_First(fn, m, list, pos) ==
  [at |-> "call", fn |-> fn, mod |-> m, list |-> list, pos |-> 1]

(* A callback of m; its flag goes into loaded[list][pos] when it returns.   *)
CallFrame(fn, m, list, pos) == [at |-> "call", fn |-> fn, mod |-> m, list |-> list, pos |-> pos]

(* Mutants: load before setup; no load.                                     *)
RequireFrame_LoadFirst(list, pos, m) ==
  [at |-> "require", list |-> list, pos |-> pos, mod |-> m,
   todo |-> IF list = "EarlyMods" THEN <<"load", "setup", "late_load">>
                                  ELSE <<"setup", "late_load">>]
RequireFrame_NoLoad(list, pos, m) ==
  [at |-> "require", list |-> list, pos |-> pos, mod |-> m, todo |-> <<"setup", "late_load">>]

(* modloader_require_mod with its LoadedMod& and the steps it has left; mod *)
(* is the object that was found, for the properties only.                   *)
RequireFrame(list, pos, m) ==
  [at |-> "require", list |-> list, pos |-> pos, mod |-> m,
   todo |-> IF list = "EarlyMods" THEN <<"setup", "load", "late_load">>
                                  ELSE <<"setup", "late_load">>]

(* LoadedMod::close, and then results.erase if force_unload called it, not  *)
(* close_all.                                                              *)
CloseFrame(list, pos, by) ==
  [at |-> "close", list |-> list, pos |-> pos, by |-> by, called |-> FALSE]

OrigFrame == [at |-> "orig"]                 \* the hooked DestroyObjectHighLevel
SetupUnityFrame == [at |-> "setup_unity_hook"]
ClearFrame == [at |-> "clear"]               \* the end of close_all

Top == Head(stack)
TopIs(kind) == ~undefined /\ stack # <<>> /\ Top.at = kind
Pop == stack' = Tail(stack)
Push(frames) == stack' = frames \o stack
Advance(top) == stack' = <<top>> \o Tail(stack)
CallFrom(top, frame) == stack' = <<frame, top>> \o Tail(stack)

(* The frame refers to an element that its vector does not have (any more). *)
Stale(list, pos) == pos > Len(loaded[list])
UseStale ==
  /\ undefined' = TRUE
  /\ UNCHANGED <<hostVars, listVars, stack, apiCalls, historyVars>>

-----------------------------------------------------------------------------
Init ==
  /\ host = "start"
  /\ failed = FALSE
  /\ hooks = {}
  /\ current_load_phase = "None"
  /\ opened = {}
  /\ skip_load = {}
  /\ loaded = [p \in OpenedPhases |-> <<>>]
  /\ stack = <<>>
  /\ undefined = FALSE
  /\ apiCalls = 0
  /\ returned = [m \in Mod |-> {}]
  /\ handles = {}
  /\ unloaded = FALSE

(* Nothing of the modloader is in progress.                                *)
Idle == stack = <<>> /\ ~undefined

(* The loader of libmain calls the three entry points in this order, and    *)
(* none of them after modloader_unload; the game may well go on.            *)
modloader_preload ==
  /\ Idle /\ host = "start"
  /\ host' = "preloaded"
  /\ failed' \in BOOLEAN
  /\ UNCHANGED <<hooks, listVars, stack, undefined, apiCalls, historyVars>>

modloader_load ==
  /\ Idle /\ host = "preloaded" /\ ~unloaded
  /\ host' = "loaded"
  /\ IF failed THEN UNCHANGED stack
     ELSE Push(<<OpenFrame("Libs"), OpenFrame("EarlyMods"), ForFrame("EarlyMods", "setup")>>)
  /\ UNCHANGED <<failed, hooks, listVars, undefined, apiCalls, historyVars>>

(* The hook on il2cpp_init is installed unless libil2cpp.so cannot be       *)
(* opened.                                                                  *)
modloader_accept_unity_handle ==
  /\ Idle /\ host = "loaded" /\ ~unloaded
  /\ host' = "unity"
  /\ \/ ~failed /\ hooks' = hooks \union {"il2cpp_init"}
     \/ UNCHANGED hooks
  /\ UNCHANGED <<failed, listVars, stack, undefined, apiCalls, historyVars>>

(* The game calls il2cpp_init once; init_hook calls the original first.     *)
Il2cppInit ==
  /\ Idle /\ host = "unity"
  /\ host' = "il2cpp"
  /\ IF "il2cpp_init" \in hooks
     THEN Push(<<ForFrame("EarlyMods", "load"), SetupUnityFrame>>)
     ELSE UNCHANGED stack
  /\ hooks' = hooks \ {"il2cpp_init"}
  /\ UNCHANGED <<failed, listVars, undefined, apiCalls, historyVars>>

(* The search for DestroyObjectHighLevel succeeds or does not.              *)
setup_unity_hook ==
  /\ TopIs("setup_unity_hook")
  /\ \/ hooks' = hooks \union {"DestroyObject"}
     \/ UNCHANGED hooks
  /\ Pop
  /\ UNCHANGED <<host, failed, listVars, undefined, apiCalls, historyVars>>

(* unity_hook is entered.  The original runs first, with the hook still in  *)
(* place; OrigReturns is the rest of the hook.                              *)
DestroyObject ==
  /\ "DestroyObject" \in hooks
  /\ Idle \/ (DestroyNests /\ TopIs("orig") /\ Len(stack) < MaxDepth)
  /\ Push(<<OrigFrame>>)
  /\ UNCHANGED <<hostVars, listVars, undefined, apiCalls, historyVars>>

OrigReturns ==
  /\ TopIs("orig")
  /\ hooks' = hooks \ {"DestroyObject"}
  /\ stack' = <<OpenFrame("Mods"), ForFrame("Mods", "setup"),           \* open_mods
                ForFrame("EarlyMods", "late_load"), ForFrame("Mods", "late_load")>>  \* load_mods
              \o Tail(stack)
  /\ UNCHANGED <<host, failed, listVars, undefined, apiCalls, historyVars>>

-----------------------------------------------------------------------------
(* open_libs, open_early_mods, open_mods: loadMods.                        *)

OpenBegin ==
  /\ TopIs("open") /\ ~Top.begun
  /\ current_load_phase' = Top.list
  /\ Advance([Top EXCEPT !.begun = TRUE])
  /\ UNCHANGED <<hostVars, opened, skip_load, loaded, undefined, apiCalls, historyVars>>

(* The next candidate was opened before, or loadMod begins with it.         *)
NextMod ==
  /\ TopIs("open") /\ Top.begun /\ ~Top.loading /\ Top.mods # <<>>
  /\ LET m == Head(Top.mods) IN
     \/ m \in skip_load /\ Advance([Top EXCEPT !.mods = Tail(@)])
     \/ m \notin skip_load /\ Advance([Top EXCEPT !.loading = TRUE, !.deps = Sorted[m]])
  /\ UNCHANGED <<hostVars, listVars, undefined, apiCalls, historyVars>>

SkipDependency ==
  /\ TopIs("open") /\ Top.loading /\ Top.deps # <<>>
  /\ Head(Top.deps) \in skip_load
  /\ Advance([Top EXCEPT !.deps = Tail(@)])
  /\ UNCHANGED <<hostVars, listVars, undefined, apiCalls, historyVars>>

(* What loadMod opens next: the candidate itself when no dependency is left. *)
Opening(f) == IF f.deps = <<>> THEN Head(f.mods) ELSE Head(f.deps)
RoleOf(f) == IF f.deps = <<>> THEN "candidate" ELSE "dependency"

(* The loops after that; the candidate is the last thing loadMod opens.     *)
Recorded(f, result) ==
  IF f.deps = <<>>
  THEN [f EXCEPT !.mods = Tail(@), !.loading = FALSE, !.results = Append(@, result)]
  ELSE [f EXCEPT !.deps = Tail(@), !.results = Append(@, result)]

(* openLibrary fails, or it runs the constructors (ReturnCtor records it).  *)
(* Only a dependency is looked up in skip_load.                            *)
OpenLibrary ==
  /\ TopIs("open") /\ Top.loading
  /\ Top.deps # <<>> => Head(Top.deps) \notin skip_load
  /\ LET m == Opening(Top) IN
     \/ /\ Advance(Recorded(Top, FailedMod(m, RoleOf(Top))))
        /\ skip_load' = skip_load \union {m}
     \/ /\ CallFrom(Top, CallFrame("ctor", m, Top.list, 0))
        /\ UNCHANGED skip_load
  /\ UNCHANGED <<hostVars, current_load_phase, opened, loaded, undefined, apiCalls, historyVars>>

(* One step of the loops of loadMods and loadMod.                           *)
OpenNext == NextMod \/ SkipDependency \/ OpenLibrary

OpenEnd ==
  /\ TopIs("open") /\ Top.begun /\ ~Top.loading /\ Top.mods = <<>>
  /\ loaded' = [loaded EXCEPT ![Top.list] = Top.results]
  /\ opened' = opened \union (IF Top.list = "Libs" THEN {"Libs"} ELSE {})
  /\ Pop
  /\ UNCHANGED <<hostVars, current_load_phase, skip_load, undefined, apiCalls, historyVars>>

-----------------------------------------------------------------------------
(* The loops of open_early_mods, open_mods, load_early_mods, load_mods and *)
(* close_all.                                                              *)

(* Mutant: the loops leave out the last element.                           *)
ForBegin_ButLast ==
  /\ TopIs("for") /\ Top.pos = 0
  /\ Advance([Top EXCEPT !.pos = 1, !.end = IF loaded[Top.list] = <<>> THEN 0
                                            ELSE Len(loaded[Top.list]) - 1])
  /\ UNCHANGED <<hostVars, listVars, undefined, apiCalls, historyVars>>

ForBegin ==
  /\ TopIs("for") /\ Top.pos = 0
  /\ Advance([Top EXCEPT !.pos = 1, !.end = Len(loaded[Top.list])])
  /\ UNCHANGED <<hostVars, listVars, undefined, apiCalls, historyVars>>

Due_Always(result, fn) == fn \in Exports[result.mod]  \* mutant: the flag is not tested

(* LoadedMod::init, load and late_load: not again once the flag is set.     *)
Due(result, fn) == fn \in Exports[result.mod] /\ fn \notin result.called

(* Mutant: a LoadResult that is skipped is looked at again.                 *)
ForNext_Stays ==
  /\ TopIs("for") /\ Top.pos \in 1..Top.end
  /\ LET result == loaded[Top.list][Top.pos]
         next   == [Top EXCEPT !.pos = @ + 1]
     IN CASE result.ok /\ Top.fn = "close" ->
               CallFrom(next, CloseFrame(Top.list, Top.pos, "close_all"))
          [] result.ok /\ Top.fn # "close" /\ Due(result, Top.fn) ->
               CallFrom(next, CallFrame(Top.fn, result.mod, Top.list, Top.pos))
          [] OTHER -> UNCHANGED stack
  /\ UNCHANGED <<hostVars, listVars, undefined, apiCalls, historyVars>>

ForNext ==
  /\ TopIs("for") /\ Top.pos \in 1..Top.end
  /\ IF Stale(Top.list, Top.pos) THEN UseStale
     ELSE LET result == loaded[Top.list][Top.pos]
              next   == [Top EXCEPT !.pos = @ + 1]
          IN /\ CASE result.ok /\ Top.fn = "close" ->
                       CallFrom(next, CloseFrame(Top.list, Top.pos, "close_all"))
                  [] result.ok /\ Top.fn # "close" /\ Due(result, Top.fn) ->
                       CallFrom(next, CallFrame(Top.fn, result.mod, Top.list, Top.pos))
                  [] OTHER -> Advance(next)
             /\ UNCHANGED <<hostVars, listVars, undefined, apiCalls, historyVars>>

(* early_mods_opened and late_mods_opened are set after the setup loops.    *)
ForEnd ==
  /\ TopIs("for") /\ Top.pos > Top.end
  /\ opened' = opened \union (IF Top.fn = "setup" THEN {Top.list} ELSE {})
  /\ Pop
  /\ UNCHANGED <<hostVars, current_load_phase, skip_load, loaded, undefined, apiCalls,
                 historyVars>>

-----------------------------------------------------------------------------
(* The LoadedMod after fn of m: the flag, and what setup made of the ModInfo. *)
Marked(result, fn, m) ==
  [result EXCEPT !.called = @ \union {fn},
                 !.info = IF fn = "setup" THEN DeclaredInfo[m] ELSE @]

(* A callback returns.  Only now does LoadedMod::init, load or late_load    *)
(* set its flag and ModInfo, through the this pointer it started with.      *)
ReturnFlagged ==
  /\ TopIs("call") /\ Top.fn \in {"setup", "load", "late_load"}
  /\ IF Stale(Top.list, Top.pos) THEN UseStale
     ELSE /\ loaded' = [loaded EXCEPT ![Top.list][Top.pos] = Marked(@, Top.fn, Top.mod)]
          /\ returned' = [returned EXCEPT ![Top.mod] = @ \union {Top.fn}]
          /\ Pop
          /\ UNCHANGED <<hostVars, current_load_phase, opened, skip_load, undefined, apiCalls,
                         handles, unloaded>>

ReturnUnload ==
  /\ TopIs("call") /\ Top.fn = "unload"
  /\ returned' = [returned EXCEPT ![Top.mod] = @ \union {"unload"}]
  /\ Pop
  /\ UNCHANGED <<hostVars, listVars, undefined, apiCalls, handles, unloaded>>

(* dlopen returns: the loadMods below records the object.                   *)
ReturnCtor ==
  /\ TopIs("call") /\ Top.fn = "ctor"
  /\ LET below == stack[2] IN
     /\ stack' = <<Recorded(below, LoadedMod(Top.mod, RoleOf(below)))>> \o Tail(Tail(stack))
     /\ handles' = handles \union {<<Top.mod, RoleOf(below)>>}
  /\ skip_load' = skip_load \union {Top.mod}
  /\ returned' = [returned EXCEPT ![Top.mod] = @ \union {"ctor"}]
  /\ UNCHANGED <<hostVars, current_load_phase, opened, loaded, undefined, apiCalls, unloaded>>

-----------------------------------------------------------------------------
(* The C API.                                                              *)

IsOpen(m) == \E as \in Role : <<m, as>> \in handles

(* The API functions are called between the host's calls, or by a callback; *)
(* a dlopen of what is open already runs no constructors.                   *)
MayCall(fn) ==
  /\ ~undefined
  /\ apiCalls < MaxApi
  /\ Len(stack) < MaxDepth
  /\ stack # <<>> => Top.at = "call" /\ <<Top.fn, fn>> \in Reentrant
                       /\ (Top.fn = "ctor" => ~IsOpen(Top.mod))

(* MatchType_ObjectName is not known to from_c_match_type.                  *)
from_c_match_type(type) ==
  CASE type = "Strict" -> "kStrict"
    [] type = "IdOnly" -> "kIdOnly"
    [] type = "IdVersion" -> "kIdVersion"
    [] type = "IdVersionLong" -> "kIdVersionLong"
    [] OTHER -> "kUnknown"

(* An unknown match type is a strict one.                                   *)
equals(info, other, type) ==
  /\ info.id = other.id
  /\ type \in {"kIdVersion", "kStrict", "kUnknown"} => info.version = other.version
  /\ type \in {"kIdVersionLong", "kStrict", "kUnknown"} => info.versionLong = other.versionLong

Matches(list, request) ==
  {i \in DOMAIN loaded[list] :
     /\ loaded[list][i].ok
     /\ equals(loaded[list][i].info, request[1], from_c_match_type(request[2]))}

(* get_mod: the first match among the mods, else among the early mods.      *)
Found(list, pos, request) ==
  /\ pos \in Matches(list, request)
  /\ \A j \in Matches(list, request) : pos <= j
  /\ list = "EarlyMods" => Matches("Mods", request) = {}

(* LoadResult_NotFound, when nothing matches, changes nothing; it is no     *)
(* step here, and neither is an unload of what does not exist.              *)
modloader_require_mod(request) ==
  /\ MayCall("require_mod")
  /\ \E list \in {"Mods", "EarlyMods"} : \E pos \in DOMAIN loaded[list] :
       /\ Found(list, pos, request)
       /\ Push(<<RequireFrame(list, pos, loaded[list][pos].mod)>>)
  /\ apiCalls' = apiCalls + 1
  /\ UNCHANGED <<hostVars, listVars, undefined, historyVars>>

(* load is for the early phase, late_load for the late one.                 *)
InPhase(fn) ==
  CASE fn = "setup" -> TRUE
    [] fn = "load" -> current_load_phase = "EarlyMods"
    [] fn = "late_load" -> current_load_phase = "Mods"

(* One step of a require that found its mod.  A callback that is due and    *)
(* not exported ends it with LoadResult_Failed.                             *)
RequireNext ==
  /\ TopIs("require") /\ Top.todo # <<>>
  /\ IF Stale(Top.list, Top.pos) THEN UseStale
     ELSE LET result == loaded[Top.list][Top.pos]
              fn     == Head(Top.todo)
              next   == [Top EXCEPT !.todo = Tail(@)]
          IN /\ CASE ~InPhase(fn) \/ fn \in result.called -> Advance(next)
                  [] InPhase(fn) /\ Due(result, fn) ->
                       CallFrom(next, CallFrame(fn, result.mod, Top.list, Top.pos))
                  [] OTHER -> Pop
             /\ UNCHANGED <<hostVars, listVars, undefined, apiCalls, historyVars>>

(* MatchType_Loaded.                                                        *)
RequireEnd ==
  /\ TopIs("require") /\ Top.todo = <<>>
  /\ Pop
  /\ UNCHANGED <<hostVars, listVars, undefined, apiCalls, historyVars>>

(* The objects with a callback in progress; unloading one is documented to  *)
(* be undefined.                                                            *)
Executing == {stack[i].mod : i \in {j \in DOMAIN stack : stack[j].at = "call"}}

modloader_force_unload(request) ==
  /\ MayCall("force_unload")
  /\ \E list \in {"Mods", "EarlyMods"} : \E pos \in DOMAIN loaded[list] :
       /\ Found(list, pos, request)
       /\ loaded[list][pos].mod \notin Executing
       /\ Push(<<CloseFrame(list, pos, "force_unload")>>)
  /\ apiCalls' = apiCalls + 1
  /\ UNCHANGED <<hostVars, listVars, undefined, historyVars>>

-----------------------------------------------------------------------------
(* LoadedMod::close calls unload, if there is one, and then dlclose with    *)
(* the handle that is in its place by then.                                 *)
CloseCall ==
  /\ TopIs("close") /\ ~Top.called
  /\ IF Stale(Top.list, Top.pos) THEN UseStale
     ELSE LET m    == loaded[Top.list][Top.pos].mod
              next == [Top EXCEPT !.called = TRUE]
          IN /\ IF "unload" \in Exports[m] THEN CallFrom(next, CallFrame("unload", m, Top.list, Top.pos))
                                           ELSE Advance(next)
             /\ UNCHANGED <<hostVars, listVars, undefined, apiCalls, historyVars>>

(* Mutants: nothing is erased; everything from the position on is erased;   *)
(* the first element is erased.                                             *)
WithoutAt_Kept(list, pos) == list
WithoutAt_ToEnd(list, pos) == SubSeq(list, 1, pos - 1)
WithoutAt_First(list, pos) == Tail(list)

WithoutAt(list, pos) == SubSeq(list, 1, pos - 1) \o SubSeq(list, pos + 1, Len(list))

(* A failed dlclose leaves the object in its list.                          *)
Dlclose ==
  /\ TopIs("close") /\ Top.called
  /\ IF Stale(Top.list, Top.pos) THEN UseStale
     ELSE /\ \/ UNCHANGED <<handles, loaded>>
             \/ /\ handles' = handles \ {Handle(loaded[Top.list][Top.pos])}
                /\ loaded' = IF Top.by = "force_unload"
                              THEN [loaded EXCEPT ![Top.list] = WithoutAt(@, Top.pos)]
                              ELSE loaded
          /\ Pop
          /\ UNCHANGED <<hostVars, current_load_phase, opened, skip_load, undefined, apiCalls,
                         returned, unloaded>>

modloader_unload ==
  /\ Idle /\ ~unloaded /\ host # "start"
  /\ unloaded' = TRUE
  /\ IF failed THEN UNCHANGED stack
     ELSE Push(<<ForFrame("Mods", "close"), ForFrame("EarlyMods", "close"),
                 ForFrame("Libs", "close"), ClearFrame>>)
  /\ UNCHANGED <<hostVars, listVars, undefined, apiCalls, returned, handles>>

ClearLists ==
  /\ TopIs("clear")
  /\ loaded' = [p \in OpenedPhases |-> <<>>]
  /\ Pop
  /\ UNCHANGED <<hostVars, current_load_phase, opened, skip_load, undefined, apiCalls, historyVars>>

-----------------------------------------------------------------------------
(* What the modloader and the callbacks it has called go on to do.          *)
Run ==
  \/ setup_unity_hook
  \/ OrigReturns
  \/ OpenBegin
  \/ OpenNext
  \/ OpenEnd
  \/ ForBegin
  \/ ForNext
  \/ ForEnd
  \/ ReturnFlagged
  \/ ReturnUnload
  \/ ReturnCtor
  \/ RequireNext
  \/ RequireEnd
  \/ CloseCall
  \/ Dlclose
  \/ ClearLists

(* What the host, the game and the mods may begin.                          *)
Start ==
  \/ modloader_preload
  \/ modloader_load
  \/ modloader_accept_unity_handle
  \/ Il2cppInit
  \/ DestroyObject
  \/ \E request \in Requests : modloader_require_mod(request)
  \/ \E request \in Requests : modloader_force_unload(request)
  \/ modloader_unload

Next == Run \/ Start

Spec == Init /\ [][Next]_vars

(* A function that is in progress goes on, and a callback returns; nothing  *)
(* makes the host, the game or a mod call the modloader.                    *)
FairSpec == Spec /\ WF_vars(Run)

-----------------------------------------------------------------------------
Flags == {"setup", "load", "late_load"}

(* The frames by their kinds; a position is 0 where there is none.         *)
OpenFrameType ==
  [at : {"open"}, list : OpenedPhases, begun : BOOLEAN, mods : Seq(Mod), loading : BOOLEAN,
   deps : Seq(Mod), results : Seq(LoadResult)]
ForFrameType ==
  [at : {"for"}, list : OpenedPhases, fn : Flags \union {"close"}, pos : Nat, end : Nat]
CallFrameType == [at : {"call"}, fn : Callback, mod : Mod, list : OpenedPhases, pos : Nat]
RequireFrameType ==
  [at : {"require"}, list : OpenedPhases, pos : Nat, mod : Mod, todo : Seq(Flags)]
CloseFrameType ==
  [at : {"close"}, list : OpenedPhases, pos : Nat, by : {"force_unload", "close_all"}, called : BOOLEAN]
PlainFrameType == [at : {"orig", "setup_unity_hook", "clear"}]

FrameType ==
  OpenFrameType \union ForFrameType \union CallFrameType \union RequireFrameType
    \union CloseFrameType \union PlainFrameType

TypeOK ==
  /\ host \in {"start", "preloaded", "loaded", "unity", "il2cpp"}
  /\ failed \in BOOLEAN
  /\ hooks \subseteq {"il2cpp_init", "DestroyObject"}
  /\ current_load_phase \in {"None"} \union OpenedPhases
  /\ opened \subseteq OpenedPhases
  /\ skip_load \subseteq Mod
  /\ loaded \in [OpenedPhases -> Seq(LoadResult)]
  /\ stack \in Seq(FrameType)
  /\ undefined \in BOOLEAN
  /\ apiCalls \in 0..MaxApi
  /\ returned \in [Mod -> SUBSET Callback]
  /\ handles \subseteq Mod \X Role
  /\ unloaded \in BOOLEAN

-----------------------------------------------------------------------------
(* Vocabulary of the properties.                                           *)

(* The step calls fn of m.                                                 *)
Enters(fn, m) ==
  /\ Len(stack') > Len(stack)
  /\ Head(stack').at = "call"
  /\ Head(stack').fn = fn
  /\ Head(stack').mod = m

(* The objects on a cycle of needs: loadMod opens them as their own         *)
(* dependencies first.                                                      *)
NeedsItself == {m \in Mod : m \in Range(Sorted[m])}

IsListed(list, m) == \E i \in DOMAIN loaded[list] : loaded[list][i].mod = m

(* Every object of the list that exports fn has returned from it.          *)
Delivered(list, fn) ==
  \A i \in DOMAIN loaded[list] :
    LET result == loaded[list][i]
    IN result.ok /\ fn \in Exports[result.mod] => fn \in returned[result.mod]

-----------------------------------------------------------------------------
(* A callback that has returned is never called again, by a loop or by      *)
(* another mod's require, in whichever order and depth they come, except    *)
(* for an object that needs itself, which has two LoadedMods with flags of  *)
(* their own.  (While it is still running it can be: its flag is not set    *)
(* yet.)                                                                    *)
CallbackOnce ==
  [][\A m \in Mod \ NeedsItself : \A fn \in Flags :
       Enters(fn, m) => fn \notin returned[m]]_vars

(* A mod sees its callbacks in the order of the README's table, although    *)
(* each of them may be called by a require of another mod: setup first,     *)
(* and an early mod's load before its late_load.                            *)
StagesInOrder ==
  [][\A m \in Mod :
       /\ Enters("load", m) \/ Enters("late_load", m) =>
            Exports[m] \intersect {"setup"} \subseteq returned[m]
       /\ Enters("late_load", m) /\ IsListed("EarlyMods", m) =>
            Exports[m] \intersect {"load"} \subseteq returned[m]]_vars

(* When modloader_require_mod answers MatchType_Loaded, the callbacks that  *)
(* the current phase asks for have returned, also when the required mod was *)
(* in the middle of one of them, waiting for the mod that requires it.      *)
LoadedMeansReturned ==
  [][RequireEnd =>
       \A fn \in Flags :
         InPhase(fn) /\ (fn = "load" => Top.list = "EarlyMods") => fn \in returned[Top.mod]]_vars

(* The loops miss nobody: once early_mods_opened or late_mods_opened is     *)
(* set every setup has returned, no object is destroyed under the hook      *)
(* before every load has, and after the hook every late_load has; whatever  *)
(* was required in between.                                                 *)
AllDelivered ==
  /\ \A list \in opened \ {"Libs"} : Delivered(list, "setup")
  /\ "DestroyObject" \in hooks => Delivered("EarlyMods", "load")
  /\ Idle /\ "Mods" \in opened =>
       /\ Delivered("EarlyMods", "load")
       /\ Delivered("EarlyMods", "late_load")
       /\ Delivered("Mods", "late_load")

(* What a LoadResult says of its object is what happened to that object:    *)
(* every flag stands for a callback that returned, the ModInfo is the       *)
(* object's own, and of an object that does not need itself no flag is      *)
(* missing.                                                                 *)
FlagsTruthful ==
  \A list \in OpenedPhases : \A i \in DOMAIN loaded[list] :
    LET result == loaded[list][i]
        m      == result.mod
    IN result.ok =>
         /\ result.called \subseteq returned[m] \intersect Flags
         /\ m \notin NeedsItself => returned[m] \intersect Flags \subseteq result.called
         /\ result.info = IF "setup" \in result.called THEN DeclaredInfo[m] ELSE DefaultInfo(m)

(* No function of an object is called after dlclose has taken back its last *)
(* handle, and none is opened again then; and no handle is given back       *)
(* twice.  That holds also for an object that was opened twice.             *)
ClosedIsFinal ==
  [][/\ \A m \in Mod : \A fn \in Callback :
          Enters(fn, m) /\ "ctor" \in returned[m] => IsOpen(m)
     /\ Dlclose /\ ~Stale(Top.list, Top.pos) =>
          Handle(loaded[Top.list][Top.pos]) \in handles]_vars

(* Between calls, every handle that is held is in a list: the API can find  *)
(* its object, and close_all will give it back.                             *)
NothingForgotten ==
  Idle /\ ~unloaded =>
    \A handle \in handles :
      \E list \in OpenedPhases : \E i \in DOMAIN loaded[list] :
        loaded[list][i].ok /\ Handle(loaded[list][i]) = handle

(* The converse: between calls, the lists give out only handles that are    *)
(* held, each from one place, whichever of several mods with the same id    *)
(* was closed; and only an object that needs itself is there twice.         *)
ListedAreOpen ==
  Idle /\ ~unloaded =>
    \A list1, list2 \in OpenedPhases :
      \A i \in DOMAIN loaded[list1] : \A j \in DOMAIN loaded[list2] :
        LET r1 == loaded[list1][i]
            r2 == loaded[list2][j]
        IN /\ r1.ok => Handle(r1) \in handles
           /\ r1.mod = r2.mod /\ <<list1, i>> # <<list2, j>> =>
                r1.mod \in NeedsItself /\ Handle(r1) # Handle(r2)

(* Once nobody calls the modloader any more, what it has begun comes to an  *)
(* end, if the callbacks do.  (Two mods that require each other from their  *)
(* setup go on calling it: nothing is said of them.)                        *)
Quiesces == <>[][Run]_vars => (stack # <<>> ~> stack = <<>>)

-----------------------------------------------------------------------------
(* What documentation and comments say and some runs refute.               *)

(* README.md: early mods "have their load function called on them after     *)
(* il2cpp_init".                                                            *)
LoadAfterIl2cppInit ==
  [][\A m \in Mod : Enters("load", m) => host = "il2cpp"]_vars

(* loader.hpp on force_unload: "It is UB if the mod to be unloaded is the   *)
(* currently executing mod", and such unloads are not made here.            *)
NeverUndefined == ~undefined

(* main.cpp in modloader_unload: "dlclose all opened mods, uninstall all    *)
(* hooks".                                                                  *)
UnloadRemovesHooks == Idle /\ unloaded /\ ~failed => hooks = {}
=============================================================================
