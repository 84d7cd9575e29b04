--------------------------- MODULE StartupProofs ---------------------------
(***************************************************************************)
(* Theorems about Startup, for any phases, files and number of starts.     *)
(*                                                                         *)
(* NothingStale speaks of the moment of loading only; the invariant that   *)
(* leads there says what copy_all has achieved at each of its steps: the   *)
(* phases it has gone past are copies, and the one it is at never has a    *)
(* file that is not installed once its old directory is removed.           *)
(***************************************************************************)
EXTENDS Startup, TLAPS

-----------------------------------------------------------------------------
(* The phases before the current one are copies of what is installed.      *)
CopiedBefore ==
  pc \in Steps => \A j \in 1..(i - 1) : dst[Phases[j]] = src[Phases[j]]

(* The current one is empty, part of a copy, or a copy.                    *)
CopiedHere ==
  /\ pc = "ensure_dst" => dst[phase] = {}
  /\ pc = "copy" => dst[phase] \subseteq src[phase]
  /\ pc = "permissions" => dst[phase] = src[phase]

(* Without a failure the end of the loop means that all are.               *)
CopiedAll == pc = "preloaded" /\ ~failed => \A p \in Phase : dst[p] = src[p]

(* Nothing is opened before modloader_load.                                *)
NothingSeen ==
  /\ pc \in Steps => ~failed
  /\ pc \in Steps \union {"preloaded"} => \A p \in Phase : seen[p] = {}

IInv ==
  /\ TypeOK
  /\ CopiedBefore
  /\ CopiedHere
  /\ CopiedAll
  /\ NothingSeen
  /\ NothingStale

(* What the proofs use of the phases: positions and phases correspond.     *)
LEMMA PhaseFacts ==
  /\ Phases \in Seq(LoadPhase)
  /\ 1 \in DOMAIN Phases
  /\ \A k \in DOMAIN Phases : k < Len(Phases) => k + 1 \in DOMAIN Phases
  /\ \A j \in DOMAIN Phases : Phases[j] \in Phase
  /\ \A p \in Phase : \E j \in DOMAIN Phases : Phases[j] = p
  /\ \A j, k \in DOMAIN Phases : Phases[j] = Phases[k] => j = k
<1>1. Phases \in Seq(LoadPhase) /\ Phases # <<>>
  BY PhasesAssumption
<1>2. DOMAIN Phases = 1..Len(Phases) /\ Len(Phases) \in Nat \ {0}
  BY <1>1
<1>3. \A j, k \in DOMAIN Phases : Phases[j] = Phases[k] => j = k
  BY PhasesAssumption DEF WithoutRepeats, IsInjective
<1>4. /\ \A j \in DOMAIN Phases : Phases[j] \in Phase
      /\ \A p \in Phase : \E j \in DOMAIN Phases : Phases[j] = p
  BY DEF Phase, Range
<1> QED
  BY <1>1, <1>2, <1>3, <1>4

(* IInv holds initially, when there is no process.                         *)
LEMMA InitIInv == Init => IInv
<1> SUFFICES ASSUME Init PROVE IInv
  OBVIOUS
<1>1. i \in DOMAIN Phases
  BY PhaseFacts DEF Init
<1>2. starts \in 0..MaxStarts
  BY MaxStartsAssumption DEF Init
<1>3. TypeOK
  BY <1>1, <1>2 DEF Init, TypeOK
<1> QED
  BY <1>3 DEF Init, IInv, CopiedBefore, CopiedHere, CopiedAll, NothingSeen, NothingStale, Steps

(* Types are kept: one step for each action.                               *)
LEMMA NextTypeOK == TypeOK /\ [Next]_vars => TypeOK'
<1> SUFFICES ASSUME TypeOK, [Next]_vars PROVE TypeOK'
  OBVIOUS
<1> USE PhaseFacts DEF TypeOK, Steps
<1>0. phase \in Phase
  BY DEF phase
<1>1. CASE Preload
  <2>1. i' \in DOMAIN Phases
    BY <1>1 DEF Preload
  <2>2. starts' \in 0..MaxStarts
    BY <1>1, MaxStartsAssumption DEF Preload
  <2> QED
    BY <1>1, <2>1, <2>2 DEF Preload
<1>2. CASE EnsureSrc
  BY <1>0, <1>2 DEF EnsureSrc
<1>3. CASE RemoveDst
  BY <1>0, <1>3 DEF RemoveDst
<1>4. CASE RemoveDstFails
  BY <1>0, <1>4 DEF RemoveDstFails, Fail
<1>5. CASE EnsureDst
  BY <1>0, <1>5 DEF EnsureDst
<1>6. CASE CopyFile
  BY <1>0, <1>6 DEF CopyFile
<1>7. CASE CopyEnds
  BY <1>0, <1>7 DEF CopyEnds
<1>8. CASE CopyFails
  BY <1>0, <1>8 DEF CopyFails, Fail
<1>9. CASE Permissions
  BY <1>0, <1>9 DEF Permissions
<1>10. CASE PermissionsFail
  BY <1>0, <1>10 DEF PermissionsFail, Fail
<1>11. CASE Load
  BY <1>0, <1>11 DEF Load
<1>12. CASE Stop
  BY <1>0, <1>12 DEF Stop
<1>13. CASE Install
  BY <1>0, <1>13 DEF Install
<1>14. CASE UNCHANGED vars
  BY <1>14 DEF vars
<1> QED
  BY <1>1, <1>2, <1>3, <1>4, <1>5, <1>6, <1>7, <1>8, <1>9, <1>10, <1>11, <1>12, <1>13, <1>14
     DEF Next, Step

(* IInv is inductive: one step for each action.                            *)
LEMMA NextIInv == IInv /\ [Next]_vars => IInv'
<1> SUFFICES ASSUME IInv, [Next]_vars PROVE IInv'
  OBVIOUS
<1>0. TypeOK /\ TypeOK' /\ phase \in Phase
  BY NextTypeOK, PhaseFacts DEF IInv, TypeOK, phase
<1> USE <1>0, PhaseFacts
    DEF IInv, TypeOK, CopiedBefore, CopiedHere, CopiedAll, NothingSeen, NothingStale, Steps, phase
<1>1. CASE Preload
  BY <1>1 DEF Preload
<1>2. CASE EnsureSrc
  BY <1>2 DEF EnsureSrc
<1>3. CASE RemoveDst
  BY <1>3 DEF RemoveDst
<1>4. CASE RemoveDstFails
  BY <1>4 DEF RemoveDstFails, Fail
<1>5. CASE EnsureDst
  BY <1>5 DEF EnsureDst
<1>6. CASE CopyFile
  BY <1>6 DEF CopyFile
<1>7. CASE CopyEnds
  BY <1>7 DEF CopyEnds
<1>8. CASE CopyFails
  BY <1>8 DEF CopyFails, Fail
<1>9. CASE Permissions
  BY <1>9 DEF Permissions
<1>10. CASE PermissionsFail
  BY <1>10 DEF PermissionsFail, Fail
<1>11. CASE Load
  BY <1>11 DEF Load
<1>12. CASE Stop
  BY <1>12 DEF Stop
<1>13. CASE Install
  BY <1>13 DEF Install
<1>14. CASE UNCHANGED vars
  BY <1>14 DEF vars
<1> QED
  BY <1>1, <1>2, <1>3, <1>4, <1>5, <1>6, <1>7, <1>8, <1>9, <1>10, <1>11, <1>12, <1>13, <1>14
     DEF Next, Step

-----------------------------------------------------------------------------
(* IInv holds in every reachable state.                                    *)
THEOREM StartupInductive == Spec => []IInv
BY InitIInv, NextIInv, PTL DEF Spec

(* The variables of the start-up keep their types.                         *)
THEOREM StartupTyping == Spec => []TypeOK
BY StartupInductive, PTL DEF IInv

(* The modloader opens what is installed or nothing, for any number of     *)
(* starts, each of which may fail or be killed at any point.               *)
THEOREM Fresh == Spec => []NothingStale
BY StartupInductive, PTL DEF IInv
=============================================================================
