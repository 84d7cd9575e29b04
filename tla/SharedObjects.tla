--------------------------- MODULE SharedObjects --------------------------
(***************************************************************************)
(* The files under the top level directory as the loader finds them: where *)
(* findSharedObject looks for a DT_NEEDED name, what listAllObjectsInPhase *)
(* lists, and the graph of dependencies that follows from both.            *)
(*                                                                         *)
(* A path is its phase directory and its file name; names are numbers so   *)
(* that paths have their lexicographic order.  The operators take the file *)
(* system fsys as a parameter, and read nothing else.                      *)
(***************************************************************************)
EXTENDS LoadPhases, SequencesExt

CONSTANT LibNames  \* the names of the form lib*.so

FilePath == [dir : Range(loadPhaseMap), name : Nat]

(* files    : what exists under the phase directories                      *)
(* readable : the files open64 succeeds on                                 *)
(* needed   : the DT_NEEDED names of a file in their order; empty when its *)
(*            dynamic section has none or has no DT_STRTAB                 *)
(* blocked  : the phase directories that cannot be searched or listed      *)
IsFileSystem(fsys) ==
  /\ fsys.files \subseteq FilePath
  /\ fsys.readable \subseteq fsys.files
  /\ fsys.needed \in [fsys.files -> Seq(Nat)]
  /\ fsys.blocked \subseteq Range(loadPhaseMap)

-----------------------------------------------------------------------------
(* std::filesystem::path compares element by element: the directory names  *)
(* "early_mods" < "libs" < "mods" < "shims" first.  A missing dependency   *)
(* is a bare name, above every absolute path.                              *)
DirRank == [EarlyMods |-> 1, Libs |-> 2, Mods |-> 3, Shim |-> 4, None |-> 5]

PathLess(a, b) ==
  \/ DirRank[a.dir] < DirRank[b.dir]
  \/ a.dir = b.dir /\ a.name < b.name

Searches_All(phase, dir) == TRUE  \* mutant: no comparison of phases

(* Whether a search that starts at phase looks into the directory dir.     *)
Searches(phase, dir) == PhaseRank[dir] <= PhaseRank[phase] \/ dir = "Shim"

(* The first searched directory that has the name, "None" when none has    *)
(* it, "Failed" when exists() reports an error before it is found.         *)
findSharedObject(fsys, phase, name) ==
  LET hits == {i \in DOMAIN loadPhaseMap :
                 /\ Searches(phase, loadPhaseMap[i])
                 /\ \/ loadPhaseMap[i] \in fsys.blocked
                    \/ [dir |-> loadPhaseMap[i], name |-> name] \in fsys.files}
  IN IF hits = {} THEN "None"
     ELSE LET first == loadPhaseMap[Min(hits)]
          IN IF first \in fsys.blocked THEN "Failed" ELSE first

(* The candidates of a phase: none when its directory cannot be opened.    *)
Candidates(fsys, phase) ==
  {p \in fsys.files : phase \notin fsys.blocked /\ p.dir = phase /\ p.name \in LibNames}

(* What the function may return: all candidates, ascending.                *)
listAllObjectsInPhase(fsys, phase) ==
  LET candidates == Candidates(fsys, phase)
  IN {list \in [1..Cardinality(candidates) -> candidates] :
        /\ Range(list) = candidates
        /\ \A i, j \in DOMAIN list : i < j => PathLess(list[i], list[j])}

-----------------------------------------------------------------------------
(* The dependency graph itself, without trees, caches or orders.           *)
DirectDependencies(fsys, obj) ==
  IF obj \notin fsys.readable THEN {}
  ELSE {p \in fsys.files : /\ p.name \in Range(fsys.needed[obj])
                           /\ p.dir = findSharedObject(fsys, obj.dir, p.name)}

(* S has the dependencies of each of its members.                          *)
IsClosed(fsys, S) == \A p \in S : DirectDependencies(fsys, p) \subseteq S

(* Everything below obj; obj itself only when it lies on a cycle.          *)
Reachable(fsys, obj) ==
  {p \in fsys.files : \A S \in SUBSET fsys.files :
     DirectDependencies(fsys, obj) \subseteq S /\ IsClosed(fsys, S) => p \in S}

(* No cycle of DT_NEEDED entries can be reached from obj: among any        *)
(* objects below it, and itself, one needs none of them.                   *)
Acyclic(fsys, obj) ==
  \A S \in SUBSET (Reachable(fsys, obj) \union {obj}) :
    S # {} => \E p \in S : DirectDependencies(fsys, p) \intersect S = {}
=============================================================================
