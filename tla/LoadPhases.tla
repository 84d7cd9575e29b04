---------------------------- MODULE LoadPhases ----------------------------
(***************************************************************************)
(* The vocabulary that the loader's modules share: the load phases of      *)
(* shared/loader.hpp, and what is said of orders of shared objects.        *)
(***************************************************************************)
EXTENDS Naturals, Sequences, Functions

(* enum struct LoadPhase, and CLoadPhase beside it; "None" is also what    *)
(* findSharedObject returns for a name it leaves to the linker.            *)
LoadPhase == {"None", "Libs", "EarlyMods", "Mods", "Shim"}

(* The int values behind the enumerators: findSharedObject compares them.  *)
PhaseRank == [None |-> 0, Libs |-> 1, EarlyMods |-> 2, Mods |-> 3, Shim |-> 4]

(* loadPhaseMap.arr: the phases that have a directory, in iteration order. *)
loadPhaseMap == <<"Libs", "EarlyMods", "Mods", "Shim">>

(* The phases some caller passes to loadMods, in the order the host        *)
(* reaches them; nothing ever opens the shims as a phase of their own.     *)
OpenedPhases == {"Libs", "EarlyMods", "Mods"}
NextPhase == [None |-> "Libs", Libs |-> "EarlyMods", EarlyMods |-> "Mods"]

-----------------------------------------------------------------------------
(* Vocabulary of the properties.                                           *)

(* order lists every object at most once.                                  *)
WithoutRepeats(order) == IsInjective(order)

(* The elements of order that come before position i.                      *)
Before(order, i) == {order[j] : j \in 1..(i - 1)}
=============================================================================
