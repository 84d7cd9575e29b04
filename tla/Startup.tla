------------------------------ MODULE Startup ------------------------------
(***************************************************************************)
(* copy_all (src/modloader.cpp) as modloader_preload calls it: what the    *)
(* user installed under the modloader's root is copied, phase by phase,    *)
(* over what an earlier start of the game left in its files directory.     *)
(* Every operation on files may fail, also half-way, and the process may   *)
(* be killed between any two of them; the files survive that.              *)
(*                                                                         *)
(* The user changes what is installed while the game is not running.       *)
(***************************************************************************)
EXTENDS LoadPhases

CONSTANTS
  Phases,    \* the phases in the order of loadPhaseMap, or some of them
  File,      \* contents of files: an updated mod is another element
  MaxStarts  \* bound: how often the game is started

ASSUME PhasesAssumption ==
  /\ Phases \in Seq(LoadPhase)
  /\ Phases # <<>>
  /\ WithoutRepeats(Phases)

ASSUME MaxStartsAssumption == MaxStarts \in Nat

Phase == Range(Phases)

VARIABLES
  src,     \* the files in the directories the user installs to
  present, \* those of these directories that exist
  dst,     \* the files in the directories of the same names that are opened
  pc,      \* the step of copy_all that is next; "stopped" without a process
  i,       \* the phase it is at: Phases[i]
  failed,  \* copy_all returned false
  seen,    \* what modloader_load finds to open in each phase
  starts   \* counts the starts, up to MaxStarts

vars == <<src, present, dst, pc, i, failed, seen, starts>>

Init ==
  /\ src \in [Phase -> SUBSET File]
  /\ present = Phase
  /\ dst \in [Phase -> SUBSET File]
  /\ pc = "stopped"
  /\ i = 1
  /\ failed = FALSE
  /\ seen = [p \in Phase |-> {}]
  /\ starts = 0

-----------------------------------------------------------------------------
phase == Phases[i]

(* return false, and what modloader_preload does with it.                  *)
Fail ==
  /\ failed' = TRUE
  /\ pc' = "preloaded"

(* The process starts and modloader_preload is called.                     *)
Preload ==
  /\ pc = "stopped"
  /\ starts < MaxStarts
  /\ starts' = starts + 1
  /\ pc' = "ensure_src"
  /\ i' = 1
  /\ failed' = FALSE
  /\ seen' = [p \in Phase |-> {}]
  /\ UNCHANGED <<src, present, dst>>

(* ensure_dir_exists does not tell its caller when it fails.               *)
EnsureSrc ==
  /\ pc = "ensure_src"
  /\ \/ present' = present \union {phase}
     \/ UNCHANGED present
  /\ pc' = "remove_dst"
  /\ UNCHANGED <<src, dst, i, failed, seen, starts>>

(* Mutant: copy is left to overwrite what is there.                        *)
RemoveDst_Kept ==
  /\ pc = "remove_dst"
  /\ pc' = "ensure_dst"
  /\ UNCHANGED <<src, present, dst, i, failed, seen, starts>>

RemoveDst ==
  /\ pc = "remove_dst"
  /\ dst' = [dst EXCEPT ![phase] = {}]
  /\ pc' = "ensure_dst"
  /\ UNCHANGED <<src, present, i, failed, seen, starts>>

(* remove_all stops at an error, with some of the files removed.           *)
RemoveDstFails ==
  /\ pc = "remove_dst"
  /\ \E left \in SUBSET dst[phase] : dst' = [dst EXCEPT ![phase] = left]
  /\ Fail
  /\ UNCHANGED <<src, present, i, seen, starts>>

(* Whether it can be created again makes no difference: copy does the same. *)
EnsureDst ==
  /\ pc = "ensure_dst"
  /\ pc' = "copy"
  /\ UNCHANGED <<src, present, dst, i, failed, seen, starts>>

(* std::filesystem::copy copies one file after the other.                  *)
CopyFile ==
  /\ pc = "copy"
  /\ phase \in present
  /\ \E f \in src[phase] \ dst[phase] : dst' = [dst EXCEPT ![phase] = @ \union {f}]
  /\ UNCHANGED <<src, present, pc, i, failed, seen, starts>>

CopyEnds ==
  /\ pc = "copy"
  /\ phase \in present
  /\ src[phase] \subseteq dst[phase]
  /\ pc' = "permissions"
  /\ UNCHANGED <<src, present, dst, i, failed, seen, starts>>

(* Always when there is nothing to copy from, and possibly at any file.    *)
CopyFails ==
  /\ pc = "copy"
  /\ Fail
  /\ UNCHANGED <<src, present, dst, i, seen, starts>>

(* Mutant: the loop stays where it is.                                     *)
Permissions_Stays ==
  /\ pc = "permissions"
  /\ pc' = "ensure_src"
  /\ UNCHANGED <<src, present, dst, i, failed, seen, starts>>

(* The end of the loop's body; the last one is return true.                *)
Permissions ==
  /\ pc = "permissions"
  /\ \/ /\ i < Len(Phases)
        /\ i' = i + 1
        /\ pc' = "ensure_src"
     \/ /\ i = Len(Phases)
        /\ pc' = "preloaded"
        /\ UNCHANGED i
  /\ UNCHANGED <<src, present, dst, failed, seen, starts>>

PermissionsFail ==
  /\ pc = "permissions"
  /\ Fail
  /\ UNCHANGED <<src, present, dst, i, seen, starts>>

(* modloader_load: open_libs and open_early_mods, and open_mods after them, *)
(* find what is in the files directory by then.                             *)
Load ==
  /\ pc = "preloaded"
  /\ IF failed THEN UNCHANGED seen
     ELSE seen' = dst
  /\ pc' = "loaded"
  /\ UNCHANGED <<src, present, dst, i, failed, starts>>

(* The process ends, at any time.                                          *)
Stop ==
  /\ pc # "stopped"
  /\ pc' = "stopped"
  /\ UNCHANGED <<src, present, dst, i, failed, seen, starts>>

(* The user installs, updates or removes a mod, or a whole directory.      *)
Install ==
  /\ pc = "stopped"
  /\ \E p \in Phase :
       \/ /\ \E files \in SUBSET File : src' = [src EXCEPT ![p] = files]
          /\ present' = present \union {p}
       \/ /\ src' = [src EXCEPT ![p] = {}]
          /\ present' = present \ {p}
  /\ UNCHANGED <<dst, pc, i, failed, seen, starts>>

Step ==
  \/ EnsureSrc
  \/ RemoveDst
  \/ RemoveDstFails
  \/ EnsureDst
  \/ CopyFile
  \/ CopyEnds
  \/ CopyFails
  \/ Permissions
  \/ PermissionsFail
  \/ Load

Next == Step \/ Preload \/ Stop \/ Install

Spec == Init /\ [][Next]_vars

(* A start goes on until it is stopped; no operation has to succeed.       *)
FairSpec == Spec /\ WF_vars(Step)

-----------------------------------------------------------------------------
Steps == {"ensure_src", "remove_dst", "ensure_dst", "copy", "permissions"}

TypeOK ==
  /\ src \in [Phase -> SUBSET File]
  /\ present \subseteq Phase
  /\ dst \in [Phase -> SUBSET File]
  /\ pc \in Steps \union {"stopped", "preloaded", "loaded"}
  /\ i \in DOMAIN Phases
  /\ failed \in BOOLEAN
  /\ seen \in [Phase -> SUBSET File]
  /\ starts \in 0..MaxStarts

(* "Stopping loading process early to avoid grabbing old mods": whatever   *)
(* an earlier start left behind, killed or failed, and whatever fails now, *)
(* the modloader opens either exactly what is installed, in every phase,   *)
(* or nothing at all.                                                      *)
NothingStale ==
  pc = "loaded" =>
    \/ \A p \in Phase : seen[p] = src[p]
    \/ \A p \in Phase : seen[p] = {}

(* A start that is not stopped gets through copy_all, for better or worse. *)
StartEnds == pc \in Steps ~> pc \in {"loaded", "stopped"}
=============================================================================
