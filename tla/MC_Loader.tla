----------------------------- MODULE MC_Loader -----------------------------
(* Loader over families of file systems with all three phases and shims.   *)
EXTENDS Loader

P(dir, name) == [dir |-> dir, name |-> name]

FileSystem(needed) ==
  [files |-> DOMAIN needed, readable |-> DOMAIN needed, needed |-> needed, blocked |-> {}]

(* Two libraries, an early mod and two mods: dependencies shared by the    *)
(* phases, libraries that need each other, mods that need each other.      *)
ThreePhases ==
  {FileSystem(P("Libs", 1) :> k @@ P("Libs", 6) :> l @@ P("EarlyMods", 2) :> e @@
              P("Mods", 3) :> m @@ P("Mods", 4) :> n) :
     k \in {<<>>, <<6>>}, l \in {<<>>, <<1>>}, e \in {<<>>, <<1, 6>>},
     m \in {<<>>, <<4>>, <<1, 2>>, <<2, 4>>}, n \in {<<>>, <<3>>, <<1, 3>>, <<2, 3>>}}

(* A library that reaches an early mod and a mod through a shim, and a     *)
(* shim that is no lib*.so.                                                *)
Shims ==
  {FileSystem(P("Libs", 1) :> l @@ P("EarlyMods", 2) :> e @@ P("Mods", 2) :> m @@
              P("Mods", 4) :> n @@ P("Shim", 3) :> s @@ P("Shim", 5) :> <<>>) :
     l \in {<<>>, <<3>>}, e \in {<<>>, <<1, 5>>}, m \in {<<>>, <<3>>}, n \in {<<2, 5>>},
     s \in {<<>>, <<2>>, <<2, 4>>}}

(* A file that cannot be opened, a directory that fails, a name that is    *)
(* nowhere.                                                                *)
Failing ==
  LET needed == P("Libs", 1) :> <<>> @@ P("EarlyMods", 2) :> <<1, 5>> @@ P("Mods", 3) :> <<2, 1>>
      files  == DOMAIN needed
  IN {[files |-> files, readable |-> files \ unreadable, needed |-> needed, blocked |-> blocked] :
        unreadable \in {{}, {P("Libs", 1)}, {P("Mods", 3)}}, blocked \in {{}, {"EarlyMods"}}}

MCFileSystems == UNION {ThreePhases, Shims, Failing}
MCLibNames == (1..6) \ {5}

(* Each phase has one listing: Open has a next state, and no choice.       *)
ASSUME OneListing ==
  \A fsys \in MCFileSystems : \A phase \in OpenedPhases :
    Cardinality(listAllObjectsInPhase(fsys, phase)) = 1
=============================================================================
