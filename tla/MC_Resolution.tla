-------------------------- MODULE MC_Resolution ---------------------------
(* Resolution over families of file systems, every DT_NEEDED graph of a    *)
(* few files in the layouts where the search, the cache and the sort       *)
(* differ, and what relates it to the recursive definitions of             *)
(* Dependencies.                                                           *)
EXTENDS Resolution, Dependencies

P(dir, name) == [dir |-> dir, name |-> name]

(* The sequences of at most two different names.                           *)
Needed(names) == {s \in BoundedSeq(names, 2) : WithoutRepeats(s)}

Ascending(names) == {s \in Needed(names) : Len(s) = 2 => s[1] < s[2]}

Family(files, readable, lists, blocked) ==
  {[files |-> files, readable |-> readable, needed |-> needed, blocked |-> blocked] :
     needed \in [files -> lists]}

(* One directory, three files, every list of two of the names.             *)
OneDirectory ==
  LET files == {P("Mods", n) : n \in 1..3} IN Family(files, files, Needed(1..3), {})

(* A name in three phases, below a mod that needs an early mod.            *)
Layered ==
  LET files == {P("Libs", 1), P("EarlyMods", 1), P("EarlyMods", 2), P("Mods", 1)}
  IN Family(files, files, Needed(1..2), {})

(* Shims, which every phase may use and which may use every phase.         *)
Shimmed ==
  LET files == {P("Libs", 1), P("Mods", 2), P("Shim", 3), P("EarlyMods", 2)}
  IN Family(files, files, Ascending(1..3), {})

(* A file that cannot be opened, a directory that cannot be searched, and  *)
(* a name that is nowhere.                                                 *)
Unreadable ==
  LET files == {P("Libs", 1), P("EarlyMods", 2), P("Mods", 3)}
  IN UNION {Family(files, files \ unreadable, Ascending(1..4), blocked) :
              unreadable \in {{}, {P("EarlyMods", 2)}}, blocked \in {{}, {"EarlyMods"}}}

(* Four files that do not need themselves: long chains, diamonds, and      *)
(* cycles with a branch.                                                   *)
FourFiles ==
  LET files == {P("Mods", n) : n \in 1..4}
  IN {fsys \in Family(files, files, Ascending(1..4), {}) :
        \A p \in files : p.name \notin Range(fsys.needed[p])}

(* The libraries and early mods need less here than the layouts allow, and *)
(* one of the files of one directory two others: every shape occurs, with  *)
(* fewer copies.                                                           *)
MCFileSystems ==
  LET Needs(fsys, dir, name) == fsys.needed[P(dir, name)]
  IN UNION {{fsys \in OneDirectory : Len(Needs(fsys, "Mods", 1)) = 2},
            {fsys \in Layered : Needs(fsys, "Libs", 1) \in {<<>>, <<1, 2>>}},
            {fsys \in Shimmed : Needs(fsys, "EarlyMods", 2) = <<>>},
            {fsys \in Unreadable : Needs(fsys, "Libs", 1) \in {<<>>, <<1, 4>>}},
            {fsys \in FourFiles : Len(Needs(fsys, "Mods", 1)) = 2}}

MCLibNames == 1..4

-----------------------------------------------------------------------------
(* The first count results of obj as the tree they stand for.              *)
RECURSIVE Tree(_, _)
Tree(obj, count) ==
  [i \in 1..count |->
     LET result == cache[obj][i]
     IN IF IsFound(result) THEN Dependency(result.path, Tree(result.path, result.count))
        ELSE MissingDependency(result.path.name)]

(* Resolution implements Resolver: with all calls in between taken for     *)
(* stuttering, getToLoad and topologicalSort return what the recursive     *)
(* definitions say, on cycles too.                                         *)
Resolved == pc \in {"topologicalSort", "sorted"}

Functions == INSTANCE Resolver WITH FileSystems <- MCFileSystems,
  deps   <- IF Resolved /\ root \in DOMAIN cache THEN Tree(root, Len(cache[root])) ELSE <<>>,
  sorted <- IF pc = "sorted" THEN order ELSE <<>>,
  pc     <- IF pc = "sorted" THEN "sorted"
            ELSE IF Resolved THEN "topologicalSort" ELSE "getToLoad"
ImplementsResolver == Functions!Spec
=============================================================================
