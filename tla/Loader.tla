------------------------------- MODULE Loader ------------------------------
(***************************************************************************)
(* loadMods and loadMod (src/loader.cpp) as open_libs, open_early_mods and *)
(* open_mods (src/modloader.cpp) call them: the sequence of dlopen calls,  *)
(* the skip_load set that is meant to keep an object from being opened     *)
(* twice, and the three lists of results.                                  *)
(*                                                                         *)
(* loadMod begins with the resolution of its object's dependencies: step   *)
(* by step that is Resolution, which this module extends with the loops    *)
(* around it.  Callbacks are the subject of Modloader.                     *)
(***************************************************************************)
EXTENDS Resolution

ASSUME FilesAreFinite == \A fsys \in FileSystems : IsFiniteSet(fsys.files)

(* Shared objects, by path.                                                *)
Object == UNION {fsys.files : fsys \in FileSystems}
NoObject == [dir |-> "None", name |-> 0]

VARIABLES
  current_load_phase,  \* the last phase that was begun
  opened,              \* the phases that were finished: libs_opened, ...
  loaded,              \* loaded_libs, loaded_early_mods and loaded_mods
  skip_load,           \* "to avoid dlopening redundantly"
  step,                \* "idle", in the loop of "loadMods", or in loadMod:
                       \* "resolve" its dependencies, then "open" what it needs
  mods,                \* the candidates loadMods has left, the current one first
  deps,                \* the sorted dependencies loadMod has left
  results,             \* the LoadResults of the phase so far
  dlopened             \* history: the objects of all dlopen calls

loaderVars == <<current_load_phase, opened, loaded, skip_load, step, mods, deps,
                results, dlopened>>

(* A LoadResult: a LoadedMod, or a FailedMod when ok is false; phase is the *)
(* phase loadMods was called with, also for the dependencies it opens.      *)
LoadResult == [object : Object, ok : BOOLEAN, phase : OpenedPhases]

(* No loadMod runs: root and the locals of the resolution are not there.   *)
Fresh ==
  /\ root = NoObject
  /\ cache = [p \in {} |-> <<>>]
  /\ calls = <<>>
  /\ sorting = <<>>
  /\ visited = {}
  /\ order = <<>>
  /\ pc = "loadMod"

LoaderInit ==
  /\ fs \in FileSystems
  /\ Fresh
  /\ current_load_phase = "None"
  /\ opened = {}
  /\ loaded = [p \in OpenedPhases |-> <<>>]
  /\ skip_load = {}
  /\ step = "idle"
  /\ mods = <<>>
  /\ deps = <<>>
  /\ results = <<>>
  /\ dlopened = <<>>

-----------------------------------------------------------------------------
(* Mutant: current_load_phase is not set before loadMods runs.              *)
Open_PhaseUnset(phase) ==
  /\ step = "idle"
  /\ phase = NextPhase[current_load_phase]
  /\ mods' \in listAllObjectsInPhase(fs, phase)
  /\ step' = "loadMods"
  /\ UNCHANGED vars
  /\ UNCHANGED <<current_load_phase, opened, loaded, skip_load, deps, results, dlopened>>

(* open_libs, open_early_mods and open_mods up to the call of loadMods.    *)
Open(phase) ==
  /\ step = "idle"
  /\ current_load_phase # "Mods"
  /\ phase = NextPhase[current_load_phase]
  /\ current_load_phase' = phase
  /\ mods' \in listAllObjectsInPhase(fs, phase)
  /\ step' = "loadMods"
  /\ UNCHANGED vars
  /\ UNCHANGED <<opened, loaded, skip_load, deps, results, dlopened>>

(* Mutants: a failure is not recorded; a failure is not remembered.         *)
Dlopen_FailureDropped(o) ==
  /\ \E ok \in BOOLEAN :
       results' = IF ok
                  THEN Append(results, [object |-> o, ok |-> ok, phase |-> current_load_phase])
                  ELSE results
  /\ skip_load' = skip_load \union {o}
  /\ dlopened' = Append(dlopened, o)
Dlopen_FailureForgotten(o) ==
  /\ \E ok \in BOOLEAN :
       /\ results' = Append(results, [object |-> o, ok |-> ok, phase |-> current_load_phase])
       /\ skip_load' = skip_load \union {x \in {o} : ok}
  /\ dlopened' = Append(dlopened, o)

(* openLibrary, with either answer of the linker, then skip_load.emplace    *)
(* and results.emplace_back: a failed object is not tried again either.     *)
Dlopen(o) ==
  /\ \E ok \in BOOLEAN :
       results' = Append(results, [object |-> o, ok |-> ok, phase |-> current_load_phase])
  /\ skip_load' = skip_load \union {o}
  /\ dlopened' = Append(dlopened, o)

(* Mutant: the loop does not go on to the next one.                         *)
SkipMod_Stays ==
  /\ step = "loadMods"
  /\ mods # <<>>
  /\ Head(mods) \in skip_load
  /\ UNCHANGED <<vars, loaderVars>>

(* A candidate that was opened before, as a dependency.                     *)
SkipMod ==
  /\ step = "loadMods"
  /\ mods # <<>>
  /\ Head(mods) \in skip_load
  /\ mods' = Tail(mods)
  /\ UNCHANGED vars
  /\ UNCHANGED <<current_load_phase, opened, loaded, skip_load, step, deps, results, dlopened>>

(* loadMod is called for the candidate.                                     *)
LoadMod ==
  /\ step = "loadMods"
  /\ mods # <<>>
  /\ Head(mods) \notin skip_load
  /\ root' = Head(mods)
  /\ step' = "resolve"
  /\ UNCHANGED <<fs, cache, calls, sorting, visited, order, pc>>
  /\ UNCHANGED <<current_load_phase, opened, loaded, skip_load, mods, deps, results, dlopened>>

(* getToLoad and topologicalSort run, one step at a time.                   *)
Resolve ==
  /\ step = "resolve"
  /\ Next
  /\ UNCHANGED loaderVars

(* loadMod goes on with the sorted dependencies; the tree is not kept.      *)
TakeOrder ==
  /\ step = "resolve"
  /\ pc = "sorted"
  /\ deps' = order
  /\ step' = "open"
  /\ root' = NoObject
  /\ cache' = [p \in {} |-> <<>>]
  /\ order' = <<>>
  /\ visited' = {}
  /\ pc' = "loadMod"
  /\ UNCHANGED <<fs, calls, sorting>>
  /\ UNCHANGED <<current_load_phase, opened, loaded, skip_load, mods, results, dlopened>>

SkipDependency ==
  /\ step = "open"
  /\ deps # <<>>
  /\ Head(deps) \in skip_load
  /\ deps' = Tail(deps)
  /\ UNCHANGED vars
  /\ UNCHANGED <<current_load_phase, opened, loaded, skip_load, step, mods, results, dlopened>>

(* Mutant: the dependencies are opened from the back of the list.           *)
OpenDependency_FromBack ==
  /\ step = "open"
  /\ deps # <<>>
  /\ deps[Len(deps)] \notin skip_load
  /\ Dlopen(deps[Len(deps)])
  /\ deps' = SubSeq(deps, 1, Len(deps) - 1)
  /\ UNCHANGED vars
  /\ UNCHANGED <<current_load_phase, opened, loaded, step, mods>>

OpenDependency ==
  /\ step = "open"
  /\ deps # <<>>
  /\ Head(deps) \notin skip_load
  /\ Dlopen(Head(deps))
  /\ deps' = Tail(deps)
  /\ UNCHANGED vars
  /\ UNCHANGED <<current_load_phase, opened, loaded, step, mods>>

(* Mutant: it does not wait for its dependencies.                           *)
OpenMod_Early ==
  /\ step = "open"
  /\ Dlopen(Head(mods))
  /\ mods' = Tail(mods)
  /\ step' = "loadMods"
  /\ UNCHANGED vars
  /\ UNCHANGED <<current_load_phase, opened, loaded, deps>>

(* The candidate itself; skip_load is not looked at again.                  *)
OpenMod ==
  /\ step = "open"
  /\ deps = <<>>
  /\ Dlopen(Head(mods))
  /\ mods' = Tail(mods)
  /\ step' = "loadMods"
  /\ UNCHANGED vars
  /\ UNCHANGED <<current_load_phase, opened, loaded, deps>>

(* Mutant: the next phase goes on with the same list of results.            *)
Finish_KeepsResults ==
  /\ step = "loadMods"
  /\ mods = <<>>
  /\ loaded' = [loaded EXCEPT ![current_load_phase] = results]
  /\ opened' = opened \union {current_load_phase}
  /\ step' = "idle"
  /\ UNCHANGED vars
  /\ UNCHANGED <<current_load_phase, skip_load, mods, deps, results, dlopened>>

(* loadMods returns and its results become the phase's list.                *)
Finish ==
  /\ step = "loadMods"
  /\ mods = <<>>
  /\ loaded' = [loaded EXCEPT ![current_load_phase] = results]
  /\ results' = <<>>
  /\ opened' = opened \union {current_load_phase}
  /\ step' = "idle"
  /\ UNCHANGED vars
  /\ UNCHANGED <<current_load_phase, skip_load, mods, deps, dlopened>>

LoaderNext ==
  \/ \E phase \in OpenedPhases : Open(phase)
  \/ SkipMod
  \/ LoadMod
  \/ Resolve
  \/ TakeOrder
  \/ SkipDependency
  \/ OpenDependency
  \/ OpenMod
  \/ Finish

LoaderSpec == LoaderInit /\ [][LoaderNext]_<<vars, loaderVars>>

(* loadMods runs to its end on the thread that called it; nothing makes the *)
(* host begin a phase.                                                      *)
Running == step # "idle" /\ LoaderNext
LoaderFairSpec == LoaderSpec /\ WF_<<vars, loaderVars>>(Running)

-----------------------------------------------------------------------------
(* Every variable stays within its type; only loadMod has a resolution.    *)
LoaderTypeOK ==
  /\ IsFileSystem(fs)
  /\ IF step = "resolve" THEN TypeOK ELSE Fresh
  /\ current_load_phase \in {"None"} \union OpenedPhases
  /\ opened \subseteq OpenedPhases
  /\ loaded \in [OpenedPhases -> Seq(LoadResult)]
  /\ skip_load \subseteq fs.files
  /\ step \in {"idle", "loadMods", "resolve", "open"}
  /\ mods \in Seq(fs.files)
  /\ deps \in Seq(fs.files)
  /\ results \in Seq(LoadResult)
  /\ dlopened \in Seq(fs.files)

(* The objects of a list of results.                                        *)
Objects(list) == [i \in DOMAIN list |-> list[i].object]

(* Nothing that was handed to dlopen is forgotten, failed or not, and       *)
(* nothing is in the lists that was not: read one after the other, the      *)
(* lists are the dlopen calls.                                              *)
EveryOpenRecorded ==
  Objects(loaded["Libs"]) \o Objects(loaded["EarlyMods"]) \o Objects(loaded["Mods"])
    \o Objects(results) = dlopened

(* The objects on a cycle of DT_NEEDED entries.                             *)
NeedsItself == [fsys \in FileSystems |-> {o \in fsys.files : o \in Reachable(fsys, o)}]

(* skip_load does what its comment says but for an object that needs        *)
(* itself: across all phases, and whoever asks for it, any other object is  *)
(* handed to dlopen at most once, also when that failed.                    *)
NoRedundantDlopen ==
  \A i, j \in DOMAIN dlopened :
    i # j /\ dlopened[i] = dlopened[j] => dlopened[i] \in NeedsItself[fs]

(* What each object needs, if there is no cycle of DT_NEEDED entries below  *)
(* it.                                                                     *)
Requires ==
  [fsys \in FileSystems |->
     [o \in Object |->
        IF o \in fsys.files /\ Acyclic(fsys, o) THEN DirectDependencies(fsys, o) ELSE {}]]

(* Topological order across the whole run and not only within one loadMod:  *)
(* skipped dependencies included, what an object needs was handed to dlopen *)
(* before the object was, unless there is a cycle below that very object.   *)
DependenciesFirst ==
  \A i \in DOMAIN dlopened : Requires[fs][dlopened[i]] \subseteq Before(dlopened, i)

(* The candidates that no candidate of an earlier phase needs (only through *)
(* a shim could it, see LaterPhaseOnlyThroughShim).                         *)
Unneeded(fsys, phase) ==
  {o \in Candidates(fsys, phase) :
     \A p \in OpenedPhases : \A e \in Candidates(fsys, p) :
       PhaseRank[p] < PhaseRank[phase] => o \notin Reachable(fsys, e)}
UnneededBefore == [fsys \in FileSystems |-> [p \in OpenedPhases |-> Unneeded(fsys, p)]]

(* The callbacks a mod gets depend on the list it is in.  Each candidate of *)
(* a finished phase is in the list of that phase and in no other, although  *)
(* it may have been opened on behalf of another candidate, unless one of an *)
(* earlier phase needs it.                                                  *)
InTheListOfItsPhase ==
  \A p \in opened : \A o \in UnneededBefore[fs][p] : \A q \in OpenedPhases :
    o \in Range(Objects(loaded[q])) <=> q = p

(* Once begun, a phase finishes, whatever was skipped or failed, and then   *)
(* every candidate has been tried.                                          *)
PhaseFinishes ==
  \A p \in OpenedPhases :
    current_load_phase = p ~> p \in opened /\ Candidates(fs, p) \subseteq skip_load

(* The dlopen calls implement LoadOrder, with cycles below other objects or *)
(* not: resolution, skips and repeated calls are stuttering.                *)
LoadingOrder == INSTANCE LoadOrder WITH requires <- Requires[fs], attempted <- skip_load
ImplementsLoadOrder == LoadingOrder!Spec

-----------------------------------------------------------------------------
(* The comment on skip_load, "Private set to avoid dlopening redundantly",  *)
(* without the proviso: no object is ever handed to dlopen again.           *)
NeverReopened == WithoutRepeats(dlopened)
=============================================================================
