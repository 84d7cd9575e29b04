----------------------------- MODULE Resolver -----------------------------
(***************************************************************************)
(* The resolution of one object's dependencies, as loadMod runs it, in two *)
(* steps: what getToLoad and topologicalSort return.  Resolution has every *)
(* step in between, and implements this module.                            *)
(***************************************************************************)
EXTENDS Dependencies

CONSTANT FileSystems  \* the file systems considered

-----------------------------------------------------------------------------
(* The first half of loadMod as two steps over one file system.            *)
VARIABLES
  fs,      \* the file system, fixed
  root,    \* the object whose dependencies are resolved, fixed
  deps,    \* the DependencyResults of root
  sorted,  \* the order in which loadMod opens the dependencies
  pc

vars == <<fs, root, deps, sorted, pc>>

Init ==
  /\ fs \in FileSystems
  /\ root \in fs.files
  /\ deps = <<>>
  /\ sorted = <<>>
  /\ pc = "getToLoad"

GetToLoad ==
  /\ pc = "getToLoad"
  /\ deps' = DependenciesOf(fs, root)
  /\ pc' = "topologicalSort"
  /\ UNCHANGED <<fs, root, sorted>>

TopologicalSort ==
  /\ pc = "topologicalSort"
  /\ sorted' = topologicalSort(deps)
  /\ pc' = "sorted"
  /\ UNCHANGED <<fs, root, deps>>

Next == GetToLoad \/ TopologicalSort

Spec == Init /\ [][Next]_vars
=============================================================================
