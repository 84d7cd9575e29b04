------------------------- MODULE LinkerPathsProofs -------------------------
(***************************************************************************)
(* Theorems about LinkerPaths, for any phases, files, directories and      *)
(* namespaces.  The whole start-up is a start-up in the sense of Startup,  *)
(* so what StartupProofs shows carries over; what is added is about the    *)
(* directories that the linker is told of.                                 *)
(***************************************************************************)
EXTENDS LinkerPaths, StartupProofs

-----------------------------------------------------------------------------
(* Every step of the whole is a step of Startup or leaves its state alone.  *)
LEMMA NextMaps == [NextAll]_allVars => [Next]_vars
<1> SUFFICES ASSUME [NextAll]_allVars PROVE [Next]_vars
  OBVIOUS
<1>1. CASE CopyAll
  BY <1>1 DEF CopyAll, RemoveDirectory, MakeDirectory, Next, Step
<1>2. CASE FindNamespace \/ InitFails \/ Collect \/ modloader_add_ld_library_path
  BY <1>2 DEF FindNamespace, InitFails, Collect, modloader_add_ld_library_path
<1>3. CASE LoadAfterPreload
  BY <1>3 DEF LoadAfterPreload, Next, Step
<1>4. CASE StartPreload
  BY <1>4 DEF StartPreload, Next
<1>5. CASE StopAll
  BY <1>5 DEF StopAll, Next
<1>6. CASE InstallAll
  BY <1>6 DEF InstallAll, Next
<1>7. CASE UNCHANGED allVars
  BY <1>7 DEF allVars
<1> QED
  BY <1>1, <1>2, <1>3, <1>4, <1>5, <1>6, <1>7 DEF NextAll, StepAll

(* The whole start-up implements Startup: runtime_restriction changes       *)
(* nothing of what copy_all and modloader_load do.                         *)
THEOREM ImplementsStartup == SpecAll => Spec
<1>1. InitAll => Init
  BY DEF InitAll
<1> QED
  BY <1>1, NextMaps, PTL DEF SpecAll, Spec

(* So mods are opened from a fresh copy or not at all here too.             *)
THEOREM FreshAll == SpecAll => []NothingStale
BY ImplementsStartup, Fresh

-----------------------------------------------------------------------------
(* The directories of the phases that have been copied exist.              *)
Made ==
  /\ pc \in Steps => \A j \in 1..(i - 1) : Phases[j] \in dirs
  /\ pc = "permissions" => phase \in dirs
  /\ pc = "preloaded" /\ ~failed => Phase \subseteq dirs

(* What the linker knows at each step of modloader_preload.                *)
Known ==
  /\ step \in {"copy_all", "init"} => mainNamespace = NoNamespace
  /\ step \in {"init", "collect"} => pc = "preloaded"
  /\ pc # "stopped" /\ mainNamespace # NoNamespace =>
       mainNamespace \in homes /\ mainNamespace \notin isolated
  /\ pc \in {"preloaded", "loaded"} /\ step = "done" /\ ~failed /\ mainNamespace # NoNamespace =>
       Phase \subseteq ld_library_paths[mainNamespace]

LInv ==
  /\ IInv
  /\ LinkerTypes
  /\ Made
  /\ Known
  /\ OthersUntouched

LEMMA InitLInv == InitAll => LInv
<1> SUFFICES ASSUME InitAll PROVE LInv
  OBVIOUS
<1>1. IInv
  BY InitIInv DEF InitAll
<1>2. pc = "stopped"
  BY DEF InitAll, Init
<1>3. LinkerTypes
  BY <1>2, NamespaceAssumption DEF InitAll, LinkerTypes, Directory, Steps
<1> QED
  BY <1>1, <1>2, <1>3 DEF InitAll, LInv, Made, Known, OthersUntouched, Steps

(* What add_ld_library_paths does to the lists.                            *)
LEMMA PathsAdded ==
  ASSUME LinkerTypes, mainNamespace \in Namespace, NEW paths \in SUBSET Directory,
         add_ld_library_paths(paths)
  PROVE  /\ ld_library_paths' \in [Namespace -> SUBSET Directory]
         /\ paths \subseteq ld_library_paths'[mainNamespace]
         /\ \A ns \in Namespace : ld_library_paths[ns] \subseteq ld_library_paths'[ns]
         /\ \A ns \in Namespace : ns # mainNamespace => ld_library_paths'[ns] = ld_library_paths[ns]
BY DEF LinkerTypes, add_ld_library_paths

LEMMA NextLInv == LInv /\ [NextAll]_allVars => LInv'
<1> SUFFICES ASSUME LInv, [NextAll]_allVars PROVE LInv'
  OBVIOUS
<1>0. IInv /\ IInv' /\ TypeOK /\ phase \in Phase /\ System \in Directory /\ Phase \subseteq Directory
  BY NextMaps, NextIInv, PhaseFacts, NamespaceAssumption DEF LInv, IInv, TypeOK, phase, Directory
<1>1. LinkerTypes /\ Made /\ Known /\ OthersUntouched
  BY DEF LInv
<1> SUFFICES LinkerTypes' /\ Made' /\ Known' /\ OthersUntouched'
  BY <1>0 DEF LInv
<1>2. CASE CopyAll
  <2>0. UNCHANGED linkerVars /\ step' = (IF pc' = "preloaded" THEN "init" ELSE step)
    BY <1>2 DEF CopyAll
  <2>1. /\ pc \in Steps /\ pc' \in Steps \union {"preloaded"}
        /\ dirs' \subseteq dirs \union {phase} /\ dirs \ {phase} \subseteq dirs'
    BY <1>2 DEF CopyAll, RemoveDirectory, MakeDirectory, EnsureSrc, RemoveDst, RemoveDstFails,
       EnsureDst, CopyFile, CopyEnds, CopyFails, Permissions, PermissionsFail, Fail, Steps
  <2>2. phase \in Directory \ {System}
    BY <1>0, NamespaceAssumption
  <2>3. LinkerTypes'
    BY <1>0, <1>1, <2>0, <2>1, <2>2 DEF LinkerTypes, linkerVars, Steps
  <2>4. Known' /\ OthersUntouched'
    BY <1>1, <2>0, <2>1 DEF Known, OthersUntouched, LinkerTypes, linkerVars, Steps
  <2>5. \A j \in 1..(i - 1) : Phases[j] # phase /\ Phases[j] \in Phase
    BY <1>0, PhaseFacts DEF TypeOK, phase
  <2>6. ASSUME Permissions PROVE Made'
    <3>1. dirs' = dirs /\ phase \in dirs /\ i \in Nat
      BY <1>0, <1>1, <1>2, <2>6, PhaseFacts
         DEF CopyAll, RemoveDirectory, MakeDirectory, RemoveDst, RemoveDstFails, EnsureDst,
             CopyFile, CopyEnds, CopyFails, Permissions, Made, TypeOK
    <3>2. \A j \in 1..i : Phases[j] \in dirs
      BY <1>1, <2>1, <3>1 DEF Made, phase
    <3>3. CASE i < Len(Phases)
      <4>1. i' - 1 = i /\ pc' = "ensure_src"
        BY <2>6, <3>1, <3>3 DEF Permissions
      <4> QED
        BY <3>1, <3>2, <4>1 DEF Made
    <3>4. CASE i = Len(Phases)
      <4>1. Phase \subseteq dirs
        <5>1. DOMAIN Phases = 1..i
          BY <3>4, PhaseFacts
        <5> QED
          BY <3>2, <5>1, PhaseFacts
      <4>2. pc' = "preloaded"
        BY <2>6, <3>1, <3>4 DEF Permissions
      <4> QED
        BY <3>1, <4>1, <4>2 DEF Made, Steps
    <3> QED
      BY <2>6, <3>3, <3>4 DEF Permissions
  <2>7. ASSUME ~Permissions PROVE Made'
    <3>1. i' = i /\ (pc' = "preloaded" => failed') /\ (pc' = "permissions" => phase \in dirs')
      BY <1>2, <2>7 DEF CopyAll, RemoveDirectory, MakeDirectory, EnsureSrc, RemoveDst,
         RemoveDstFails, EnsureDst, CopyFile, CopyEnds, CopyFails, PermissionsFail, Fail
    <3>2. \A j \in 1..(i - 1) : Phases[j] \in dirs'
      BY <1>1, <2>1, <2>5 DEF Made
    <3>3. phase' = phase
      BY <3>1 DEF phase
    <3> QED
      BY <3>1, <3>2, <3>3 DEF Made
  <2> QED
    BY <2>3, <2>4, <2>6, <2>7
<1>3. CASE FindNamespace
  BY <1>0, <1>1, <1>3, NamespaceAssumption
     DEF FindNamespace, LinkerTypes, Made, Known, OthersUntouched, vars, Steps, phase
<1>4. CASE InitFails
  BY <1>0, <1>1, <1>4
     DEF InitFails, LinkerTypes, Made, Known, OthersUntouched, vars, linkerVars, Steps, phase
<1>5. CASE Collect
  <2> DEFINE paths == {System} \union dirs
  <2>1. mainNamespace \in Namespace /\ paths \in SUBSET Directory /\ add_ld_library_paths(paths)
    BY <1>0, <1>1, <1>5 DEF Collect, LinkerTypes
  <2>2. /\ ld_library_paths' \in [Namespace -> SUBSET Directory]
        /\ paths \subseteq ld_library_paths'[mainNamespace]
        /\ \A ns \in Namespace : ns # mainNamespace => ld_library_paths'[ns] = ld_library_paths[ns]
    BY <1>1, <2>1, PathsAdded
  <2>3. /\ step = "collect" /\ step' = "done" /\ pc' = pc /\ i' = i /\ failed' = failed
        /\ UNCHANGED <<dirs, homes, mainNamespace, isolated>>
    BY <1>5 DEF Collect, vars
  <2>4. pc = "preloaded"
    BY <1>1, <2>3 DEF Known
  <2>5. LinkerTypes'
    BY <1>1, <2>1, <2>2, <2>3, <2>4 DEF LinkerTypes, Steps
  <2>6. Made'
    BY <1>1, <2>3 DEF Made, phase
  <2>7. Known'
    BY <1>1, <2>1, <2>2, <2>3, <2>4 DEF Known, Made
  <2>8. OthersUntouched'
    BY <1>1, <2>1, <2>2, <2>3, <2>4, NamespaceAssumption DEF OthersUntouched, Known
  <2> QED
    BY <2>5, <2>6, <2>7, <2>8
<1>6. CASE modloader_add_ld_library_path
  <2>1. CASE mainNamespace = NoNamespace
    BY <1>0, <1>1, <1>6, <2>1
       DEF modloader_add_ld_library_path, LinkerTypes, Made, Known, OthersUntouched, vars,
           Steps, phase
  <2>2. CASE mainNamespace # NoNamespace
    <3>1. PICK path \in Other : add_ld_library_paths({path})
      BY <1>6, <2>2 DEF modloader_add_ld_library_path
    <3>2. mainNamespace \in Namespace /\ {path} \in SUBSET Directory
      BY <1>1, <2>2 DEF LinkerTypes, Directory
    <3>3. /\ ld_library_paths' \in [Namespace -> SUBSET Directory]
          /\ \A ns \in Namespace : ld_library_paths[ns] \subseteq ld_library_paths'[ns]
          /\ \A ns \in Namespace : ns # mainNamespace => ld_library_paths'[ns] = ld_library_paths[ns]
      BY <1>1, <3>1, <3>2, PathsAdded
    <3> QED
      BY <1>0, <1>1, <1>6, <2>2, <3>2, <3>3
         DEF modloader_add_ld_library_path, LinkerTypes, Made, Known, OthersUntouched, vars,
             Steps, phase
  <2> QED
    BY <2>1, <2>2
<1>7. CASE LoadAfterPreload
  BY <1>0, <1>1, <1>7
     DEF LoadAfterPreload, Load, LinkerTypes, Made, Known, OthersUntouched, linkerVars, Steps, phase
<1>8. CASE StartPreload
  BY <1>0, <1>1, <1>8
     DEF StartPreload, Preload, FreshLinker, LinkerTypes, Made, Known, OthersUntouched, Steps, phase
<1>9. CASE StopAll
  BY <1>0, <1>1, <1>9
     DEF StopAll, Stop, LinkerTypes, Made, Known, OthersUntouched, linkerVars, Steps, phase
<1>10. CASE InstallAll
  BY <1>0, <1>1, <1>10
     DEF InstallAll, Install, LinkerTypes, Made, Known, OthersUntouched, vars, linkerVars, Steps, phase
<1>11. CASE UNCHANGED allVars
  BY <1>1, <1>11
     DEF allVars, LinkerTypes, Made, Known, OthersUntouched, vars, linkerVars, phase
<1> QED
  BY <1>2, <1>3, <1>4, <1>5, <1>6, <1>7, <1>8, <1>9, <1>10, <1>11 DEF NextAll, StepAll

-----------------------------------------------------------------------------
LEMMA LinkerInductive == SpecAll => []LInv
BY InitLInv, NextLInv, PTL DEF SpecAll

(* The linker's part of the state keeps its types with that of Startup; the *)
(* list of a namespace is asked for only when one was found.               *)
THEOREM LinkerTyping == SpecAll => []LinkerTypeOK
<1>1. LInv => LinkerTypeOK
  BY DEF LInv, IInv, LinkerTypeOK
<1> QED
  BY <1>1, LinkerInductive, PTL

(* The linker knows every directory that mods are opened from, whatever     *)
(* existed before and whatever failed on the way.                          *)
THEOREM Covered == SpecAll => []PathsCoverPhases
<1>1. LInv => PathsCoverPhases
  BY DEF LInv, Known, PathsCoverPhases, LinkerTypes, IInv, TypeOK, Steps
<1> QED
  BY <1>1, LinkerInductive, PTL

(* Only namespaces of objects with the modloader's name are changed.       *)
THEOREM Untouched == SpecAll => []OthersUntouched
BY LinkerInductive, PTL DEF LInv
=============================================================================
