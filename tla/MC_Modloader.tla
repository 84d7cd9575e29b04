--------------------------- MODULE MC_Modloader ----------------------------
(* Instances of Modloader.                                                 *)
EXTENDS Modloader

CONSTANTS lib, e1, e2, m1, m2, idA, idB

Objects == {lib, e1, e2, m1, m2}
MCId == {idA, idB}
MCVersion == {"0.0.0", "1.0.0", "1.1.0"}

(* e1, e2 and m1 name themselves in setup: e1 and m1 are two versions of    *)
(* the same mod, e2 is another one; the others keep their path as id.       *)
MCDeclaredInfo ==
  [m \in Objects |->
     CASE m = e1 -> [id |-> idA, version |-> "1.0.0", versionLong |-> 1]
       [] m = m1 -> [id |-> idA, version |-> "1.1.0", versionLong |-> 1]
       [] m = e2 -> [id |-> idB, version |-> "1.0.0", versionLong |-> 0]
       [] OTHER -> DefaultInfo(m)]

(* Every object by its path, and those that name themselves in all ways.    *)
MCRequests ==
  {<<DefaultInfo(m), "Strict">> : m \in Objects}
    \union {<<[id |-> idA, version |-> v, versionLong |-> n], type>> :
              v \in {"1.0.0", "1.1.0"}, n \in 0..1, type \in CMatchType}
    \union {<<[id |-> idB, version |-> "1.1.0", versionLong |-> 0], type>> : type \in CMatchType}

(* m2 has no setup, e2 no load: a require of one of them can fail.          *)
MCExports ==
  [m \in Objects |-> CASE m = lib -> {"unload"}
                      [] m = e1 -> {"setup", "load", "late_load", "unload"}
                      [] m = e2 -> {"setup", "late_load"}
                      [] m = m1 -> {"setup", "late_load", "unload"}
                      [] m = m2 -> {"late_load", "unload"}]

MCCandidates == [Libs |-> <<>>, EarlyMods |-> <<e1, e2>>, Mods |-> <<m1>>]
MCCandidatesAll == [Libs |-> <<lib>>, EarlyMods |-> <<e1, e2>>, Mods |-> <<m1, m2>>]

(* In the first instance m1 and the library, a shim there, need each other, *)
(* in the second m1 and m2 do: m1 is opened as a dependency of the other    *)
(* one, and then itself.                                                    *)
MCSorted == [m \in Objects |-> IF m = m1 THEN <<m1, lib>> ELSE <<>>]
MCSortedAll ==
  [m \in Objects |-> CASE m = m1 -> <<lib, m1, m2>> [] m = m2 -> <<lib, m2, m1>> [] OTHER -> <<>>]

(* Who calls the API: every callback a require; unloads between the calls.  *)
RequireAnywhere == {"ctor", "setup", "load", "late_load"} \X {"require_mod"}
Nowhere == {}
UnloadAnywhere == {"setup", "load", "late_load"} \X {"force_unload"}
=============================================================================
