--------------------------- MODULE Dependencies ---------------------------
(***************************************************************************)
(* Dependency resolution as functions: from the files under the top level  *)
(* directory to the order in which the dependencies of one object are      *)
(* opened.                                                                 *)
(*                                                                         *)
(*   getToLoad             the tree of dependencies, with its cache        *)
(*   topologicalSort       the tree to a list without repeats              *)
(***************************************************************************)
EXTENDS SharedObjects, TLC

(* The two cases of DependencyResult.                                      *)
Dependency(path, dependencies) ==
  [kind |-> "Dependency", path |-> path, dependencies |-> dependencies]
MissingDependency(name) ==
  [kind |-> "Missing", path |-> [dir |-> "None", name |-> name], dependencies |-> <<>>]

IsDependency(result) == result.kind = "Dependency"

(* The dependencies of obj, found in the cache or read from its file, and  *)
(* the cache afterwards.  The entry of obj is emplaced before its names    *)
(* are resolved: on a cycle the inner call returns the list built so far.  *)
RECURSIVE getToLoad(_, _, _, _)
getToLoad(fs, obj, phase, cache) ==
  IF obj \in DOMAIN cache THEN [list |-> cache[obj], cache |-> cache]
  ELSE IF obj \notin fs.readable THEN [list |-> <<>>, cache |-> cache]
  ELSE
    LET resolve(entries, name) ==
          LET found == findSharedObject(fs, phase, name)
              path  == [dir |-> found, name |-> name]
          IN CASE found = "Failed" -> entries
               [] found = "None" ->
                    [entries EXCEPT ![obj] = Append(@, MissingDependency(name))]
               [] OTHER ->
                    LET sub == getToLoad(fs, path, found, entries)
                    IN [sub.cache EXCEPT ![obj] = Append(@, Dependency(path, sub.list))]
        filled == FoldLeft(resolve, (obj :> <<>>) @@ cache, fs.needed[obj])
    IN [list |-> filled[obj], cache |-> filled]

(* The overload that the loader calls: a cache of its own for every root.  *)
DependenciesOf(fs, obj) == getToLoad(fs, obj, obj.dir, <<>>).list

(* Descending order of paths.                                              *)
sortDependencies(deps) == SortSeq(deps, LAMBDA a, b : PathLess(b.path, a.path))

(* s is the pair of the visited set and the stack (of paths).              *)
RECURSIVE topologicalSortRecurse(_, _)
topologicalSortRecurse(s, main) ==
  IF main.path \in s.visited THEN s
  ELSE LET children == SelectSeq(sortDependencies(main.dependencies), IsDependency)
           below    == FoldLeft(topologicalSortRecurse,
                                [s EXCEPT !.visited = @ \union {main.path}], children)
       IN [below EXCEPT !.stack = Append(@, main.path)]

topologicalSort(list) ==
  FoldLeft(topologicalSortRecurse, [visited |-> {}, stack |-> <<>>],
           sortDependencies(SelectSeq(list, IsDependency))).stack
=============================================================================
