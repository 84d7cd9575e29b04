----------------------------- MODULE Resolution ---------------------------
(***************************************************************************)
(* The first half of loadMod (src/loader.cpp), step by step: getToLoad and *)
(* topologicalSort with their recursive calls on explicit stacks.  Module  *)
(* Dependencies has the same two functions as recursive definitions; here  *)
(* they are a state machine, whose invariants can be proved for every file *)
(* system, cycles and missing files included.                              *)
(*                                                                         *)
(* A Dependency has a copy of the list that its own getToLoad returned.    *)
(* Lists only grow while they are in the cache and are not changed after   *)
(* the cache is gone, so a copy is the first count elements of the list in *)
(* the cache, and the nested copies need not be written down.              *)
(***************************************************************************)
EXTENDS SharedObjects

CONSTANT FileSystems  \* the file systems considered

ASSUME FileSystemsAssumption == \A fsys \in FileSystems : IsFileSystem(fsys)

VARIABLES
  fs,       \* the file system, fixed
  root,     \* the object whose dependencies are resolved, fixed
  cache,    \* loadedDependencies: the list of each object that was read
  calls,    \* the calls of getToLoad in progress, outermost first
  sorting,  \* topologicalSort and the calls of topologicalSortRecurse in it
  visited,  \* the paths topologicalSortRecurse has entered
  order,    \* the deque of topologicalSort, the order of loadMod's dlopens
  pc

vars == <<fs, root, cache, calls, sorting, visited, order, pc>>

-----------------------------------------------------------------------------
(* A DependencyResult.  A MissingDependency is a name without a directory, *)
(* and has no list.                                                        *)
MissingPath == [dir : {"None"}, name : Nat]
DependencyResult(fsys) == [path : fsys.files \union MissingPath, count : Nat]

IsFound_All(result) == TRUE  \* mutant: a missing dependency is taken for one
IsFound(result) == result.path.dir # "None"

(* A call of getToLoad: next is the place of the DT_NEEDED name it is at.  *)
Call(fsys) == [obj : fsys.readable, phase : Range(loadPhaseMap), next : Nat \ {0}]

(* A call of topologicalSortRecurse: left are the places in the object's   *)
(* list that the loop has not come to.  topologicalSort itself is the call *)
(* at the bottom, with root's list.                                        *)
SortFrame(path, count) ==
  [path |-> path, left |-> {i \in 1..count : IsFound(cache[path][i])}]

(* The call of getToLoad that runs, and what it has found for its name.    *)
Top == calls[Len(calls)]
HasName == calls # <<>> /\ Top.next <= Len(fs.needed[Top.obj])
Name == fs.needed[Top.obj][Top.next]
Found == findSharedObject(fs, Top.phase, Name)
Path == [dir |-> Found, name |-> Name]

(* The call of topologicalSortRecurse that runs, and its next child: the   *)
(* greatest path that is left, the first one of equal paths.               *)
SortTop == sorting[Len(sorting)]
Child(i) == cache[SortTop.path][i]

IsNext_Ascending(i) ==  \* mutant
  /\ i \in SortTop.left
  /\ \A j \in SortTop.left :
       PathLess(Child(i).path, Child(j).path) \/ (Child(j).path = Child(i).path /\ i <= j)

IsNext_AsDeclared(i) ==  \* mutant: not sorted
  /\ i \in SortTop.left
  /\ \A j \in SortTop.left : i <= j

IsNext(i) ==
  /\ i \in SortTop.left
  /\ \A j \in SortTop.left :
       PathLess(Child(j).path, Child(i).path) \/ (Child(j).path = Child(i).path /\ i <= j)

-----------------------------------------------------------------------------
Init ==
  /\ fs \in FileSystems
  /\ root \in fs.files
  /\ cache = [p \in {} |-> <<>>]
  /\ calls = <<>>
  /\ sorting = <<>>
  /\ visited = {}
  /\ order = <<>>
  /\ pc = "loadMod"

(* A call for an object that is not in the cache and can be opened: an     *)
(* empty list is emplaced before the names are looked at.                  *)
Enter(obj, phase) ==
  /\ obj \in fs.readable \ DOMAIN cache
  /\ cache' = [p \in DOMAIN cache \union {obj} |-> IF p = obj THEN <<>> ELSE cache[p]]
  /\ calls' = Append(calls, [obj |-> obj, phase |-> phase, next |-> 1])

(* The results are complete: topologicalSort begins.                       *)
BeginSort(count) ==
  /\ pc' = "topologicalSort"
  /\ sorting' = <<SortFrame(root, count)>>

(* loadMod calls getToLoad with a new cache and the phase of the mod, the  *)
(* one it was listed in.                                                   *)
GetToLoad ==
  /\ pc = "loadMod"
  /\ Enter(root, root.dir)
  /\ pc' = "getToLoad"
  /\ UNCHANGED <<fs, root, sorting, visited, order>>

GetNothing ==
  /\ pc = "loadMod"
  /\ root \notin fs.readable
  /\ BeginSort(0)
  /\ UNCHANGED <<fs, root, cache, calls, visited, order>>

(* The call at place k is done with its name.                              *)
Advanced(stack, k) == [stack EXCEPT ![k].next = @ + 1]

(* The running call appends to its list, and goes on.                      *)
EmplaceBack(path, count) ==
  /\ cache' = [cache EXCEPT ![Top.obj] = Append(@, [path |-> path, count |-> count])]
  /\ calls' = Advanced(calls, Len(calls))

(* exists() reports an error: the name is skipped.                         *)
SkipFailed ==
  /\ pc = "getToLoad"
  /\ HasName
  /\ Found = "Failed"
  /\ calls' = Advanced(calls, Len(calls))
  /\ UNCHANGED <<fs, root, cache, sorting, visited, order, pc>>

AddMissing ==
  /\ pc = "getToLoad"
  /\ HasName
  /\ Found = "None"
  /\ EmplaceBack(Path, 0)
  /\ UNCHANGED <<fs, root, sorting, visited, order, pc>>

IsResolved == Found \notin {"Failed", "None"}

(* Mutant: a hit in the cache is taken for "nothing more to do".           *)
AddCached_Empty ==
  /\ pc = "getToLoad"
  /\ HasName
  /\ IsResolved
  /\ Path \in DOMAIN cache
  /\ EmplaceBack(Path, 0)
  /\ UNCHANGED <<fs, root, sorting, visited, order, pc>>

(* The call for the name finds its object in the cache, possibly one that  *)
(* is still being filled further down the stack.                           *)
AddCached ==
  /\ pc = "getToLoad"
  /\ HasName
  /\ IsResolved
  /\ Path \in DOMAIN cache
  /\ EmplaceBack(Path, Len(cache[Path]))
  /\ UNCHANGED <<fs, root, sorting, visited, order, pc>>

(* The call for the name cannot open the file: no list, nothing cached.    *)
AddUnreadable ==
  /\ pc = "getToLoad"
  /\ HasName
  /\ IsResolved
  /\ Path \notin fs.readable
  /\ EmplaceBack(Path, 0)
  /\ UNCHANGED <<fs, root, sorting, visited, order, pc>>

(* Mutant: the search of the callee starts at the phase of its caller.     *)
Descend_SamePhase ==
  /\ pc = "getToLoad"
  /\ HasName
  /\ IsResolved
  /\ Enter(Path, Top.phase)
  /\ UNCHANGED <<fs, root, sorting, visited, order, pc>>

(* The call for the name reads the file, from the phase it was found in.   *)
Descend ==
  /\ pc = "getToLoad"
  /\ HasName
  /\ IsResolved
  /\ Enter(Path, Found)
  /\ UNCHANGED <<fs, root, sorting, visited, order, pc>>

(* A call returns a copy of its list, which its caller appends.            *)
Return ==
  /\ pc = "getToLoad"
  /\ Len(calls) > 1
  /\ ~HasName
  /\ LET below == Len(calls) - 1
     IN /\ cache' = [cache EXCEPT ![calls[below].obj] =
                       Append(@, [path |-> Top.obj, count |-> Len(cache[Top.obj])])]
        /\ calls' = Advanced(Front(calls), below)
  /\ UNCHANGED <<fs, root, sorting, visited, order, pc>>

ReturnAll ==
  /\ pc = "getToLoad"
  /\ Len(calls) = 1
  /\ ~HasName
  /\ BeginSort(Len(cache[root]))
  /\ calls' = <<>>
  /\ UNCHANGED <<fs, root, cache, visited, order>>

-----------------------------------------------------------------------------
(* The loop of the running call is done with the place i.                  *)
Passed(i) == [sorting EXCEPT ![Len(sorting)].left = @ \ {i}]

SkipVisited_Stays ==  \* mutant: the loop does not go on
  /\ pc = "topologicalSort"
  /\ \E i \in SortTop.left : IsNext(i) /\ Child(i).path \in visited
  /\ UNCHANGED vars

(* topologicalSortRecurse returns at once.                                 *)
SkipVisited ==
  /\ pc = "topologicalSort"
  /\ \E i \in SortTop.left :
       /\ IsNext(i)
       /\ Child(i).path \in visited
       /\ sorting' = Passed(i)
  /\ UNCHANGED <<fs, root, cache, calls, visited, order, pc>>

(* topologicalSortRecurse goes through the Dependency's own copy.          *)
Visit ==
  /\ pc = "topologicalSort"
  /\ \E i \in SortTop.left :
       /\ IsNext(i)
       /\ Child(i).path \notin visited
       /\ visited' = visited \union {Child(i).path}
       /\ sorting' = Append(Passed(i), SortFrame(Child(i).path, Child(i).count))
  /\ UNCHANGED <<fs, root, cache, calls, order, pc>>

(* Mutant: visited is what is on the stack, as in a search for cycles.     *)
Emplace_Unvisited ==
  /\ pc = "topologicalSort"
  /\ Len(sorting) > 1
  /\ SortTop.left = {}
  /\ order' = Append(order, SortTop.path)
  /\ visited' = visited \ {SortTop.path}
  /\ sorting' = Front(sorting)
  /\ UNCHANGED <<fs, root, cache, calls, pc>>

(* stack.emplace_back, after all dependencies.                             *)
Emplace ==
  /\ pc = "topologicalSort"
  /\ Len(sorting) > 1
  /\ SortTop.left = {}
  /\ order' = Append(order, SortTop.path)
  /\ sorting' = Front(sorting)
  /\ UNCHANGED <<fs, root, cache, calls, visited, pc>>

Sorted ==
  /\ pc = "topologicalSort"
  /\ Len(sorting) = 1
  /\ SortTop.left = {}
  /\ sorting' = <<>>
  /\ pc' = "sorted"
  /\ UNCHANGED <<fs, root, cache, calls, visited, order>>

Next ==
  \/ GetToLoad
  \/ GetNothing
  \/ SkipFailed
  \/ AddMissing
  \/ AddCached
  \/ AddUnreadable
  \/ Descend
  \/ Return
  \/ ReturnAll
  \/ SkipVisited
  \/ Visit
  \/ Emplace
  \/ Sorted

Spec == Init /\ [][Next]_vars

(* Both functions run to their end on the thread that called loadMod.      *)
FairSpec == Spec /\ WF_vars(Next)

-----------------------------------------------------------------------------
(* Every variable stays within its type.                                   *)
TypeOK ==
  /\ IsFileSystem(fs)
  /\ root \in fs.files
  /\ DOMAIN cache \subseteq fs.readable
  /\ cache \in [DOMAIN cache -> Seq(DependencyResult(fs))]
  /\ calls \in Seq(Call(fs))
  /\ sorting \in Seq([path : fs.files, left : SUBSET Nat])
  /\ visited \subseteq fs.files
  /\ order \in Seq(fs.files)
  /\ pc \in {"loadMod", "getToLoad", "topologicalSort", "sorted"}

(* The cache keyed by path is right for every requester: whoever asked     *)
(* first, a list has what a search from the object's own phase finds.  And *)
(* no copy of it was taken before it had that, cycles elsewhere or not,    *)
(* unless a cycle is below the object itself.                              *)
FoundIn(fsys, list) == {p \in fsys.files : \E i \in DOMAIN list : list[i].path = p}

CopiesAreWhole ==
  pc = "sorted" =>
    \A obj \in DOMAIN cache : \A i \in DOMAIN cache[obj] :
      LET result == cache[obj][i]
      IN result.path \in fs.readable =>
           /\ result.path \in DOMAIN cache
           /\ FoundIn(fs, cache[result.path]) = DirectDependencies(fs, result.path)
           /\ Acyclic(fs, result.path) => result.count = Len(cache[result.path])

(* Whatever the graph, cycles included: topologicalSort lists each object  *)
(* once and nothing that root does not need, directly or not, although the *)
(* tree it flattens repeats every shared subtree.                          *)
SortedWithoutRepeats ==
  pc = "sorted" => WithoutRepeats(order) /\ Range(order) \subseteq Reachable(fs, root)

(* loadMod opens what root needs, and each object after what that needs,   *)
(* found from its own phase, unless a cycle is below that very object.     *)
(* Without a cycle below root it opens everything below root but not root. *)
SortedIsClosedOrder ==
  pc = "sorted" =>
    /\ DirectDependencies(fs, root) \subseteq Range(order)
    /\ \A i \in DOMAIN order :
         Acyclic(fs, order[i]) => DirectDependencies(fs, order[i]) \subseteq Before(order, i)
    /\ Acyclic(fs, root) => Range(order) = Reachable(fs, root) /\ root \notin Range(order)

(* An object of a later phase than root's is opened with root only if a    *)
(* shim is: the phase comparison of findSharedObject exempts the shims,    *)
(* and a shim searches every directory.                                    *)
LaterPhaseOnlyThroughShim ==
  pc = "sorted" =>
    \A p \in Range(order) :
      PhaseRank[p.dir] > PhaseRank[root.dir] =>
        \E q \in Range(order) \union {root} : q.dir = "Shim"

(* At an object that no cycle is below, topologicalSort does what          *)
(* DepthFirst does, or skips a dependency; without a cycle below root it   *)
(* implements DepthFirst.  This is the README's "consistent across the     *)
(* same sets of files": the order depends on which objects each object     *)
(* needs and on their paths, never on the order in which its linker wrote  *)
(* the names down, on who asked first for a list, or on copies.            *)
Walk == INSTANCE DepthFirst WITH
  needs   <- [p \in fs.files |-> DirectDependencies(fs, p)],
  stack   <- [i \in DOMAIN sorting |-> sorting[i].path],
  pc      <- IF pc = "sorted" THEN "done"
             ELSE IF pc = "topologicalSort" THEN "walking" ELSE "waiting"

AboveCycle == pc = "topologicalSort" /\ ~Acyclic(fs, SortTop.path)

ImplementsDepthFirst == Walk!Init /\ [][Walk!Next \/ AboveCycle]_(Walk!vars)

(* The recursion ends, on cycles too.                                      *)
Ends == <>(pc = "sorted")

-----------------------------------------------------------------------------
(* The comment of findSharedObject (and of getToLoad's phase parameter):   *)
(* "Search in reverse load order, starting at phase".  A name that two     *)
(* phases provide would resolve to the later one, the shims aside.         *)
ReverseLoadOrder ==
  \A obj \in DOMAIN cache : \A i \in DOMAIN cache[obj] : \A p \in fs.files :
    LET found == cache[obj][i].path
    IN /\ IsFound(cache[obj][i])
       /\ p.name = found.name
       /\ p.dir # "Shim"
       /\ PhaseRank[p.dir] <= PhaseRank[obj.dir]
       => PhaseRank[p.dir] <= PhaseRank[found.dir]
=============================================================================
