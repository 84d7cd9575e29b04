---------------------------- MODULE LinkerPaths ----------------------------
(***************************************************************************)
(* modloader_preload as a whole (src/main.cpp): copy_all, which Startup    *)
(* models, and then the way around Android's restrictions                  *)
(* (runtime-restriction.cpp), which lets the linker find what was copied.  *)
(* The linker keeps a list of directories for each of its namespaces, and  *)
(* an isolated one only opens files from there.  What the modloader        *)
(* changes of that ends with the process.                                  *)
(***************************************************************************)
EXTENDS Startup

CONSTANTS
  Namespace,  \* the namespaces of the linker
  Other       \* other directories: those of the system, and what mods keep

(* Directories below the files directory, and the ones of the system.      *)
Directory == Phase \union Other
NoNamespace == "nullptr"
System == "/system/lib64"

ASSUME NamespaceAssumption ==
  /\ NoNamespace \notin Namespace
  /\ System \in Other \ Phase

VARIABLES
  dirs,             \* the directories below the files directory
  homes,            \* namespaces of the objects that have the modloader's name
  step,             \* what modloader_preload is at: "copy_all", "init", "collect", "done"
  mainNamespace,
  isolated,         \* the isolated namespaces
  ld_library_paths  \* the directories of each namespace

linkerVars == <<homes, mainNamespace, isolated, ld_library_paths>>
allVars == <<vars, dirs, step, linkerVars>>

(* A process starts with the namespaces as Android made them.              *)
FreshLinker ==
  /\ mainNamespace' = NoNamespace
  /\ isolated' = Namespace
  /\ ld_library_paths' = [ns \in Namespace |-> {}]

InitAll ==
  /\ Init
  /\ dirs \in SUBSET (Directory \ {System})
  /\ \A p \in Phase : dst[p] # {} => p \in dirs
  /\ homes \in SUBSET Namespace
  /\ step = "done"
  /\ mainNamespace = NoNamespace
  /\ isolated = Namespace
  /\ ld_library_paths = [ns \in Namespace |-> {}]

-----------------------------------------------------------------------------
(* copy_all, and the directories that it removes and makes.                *)

StartPreload ==
  /\ Preload
  /\ step' = "copy_all"
  /\ FreshLinker
  /\ UNCHANGED <<dirs, homes>>

RemoveDirectory ==
  \/ RemoveDst /\ dirs' = dirs \ {phase}
  \/ RemoveDstFails /\ UNCHANGED dirs

(* ensure_dir_exists may fail without a word; copy makes the directory too. *)
MakeDirectory ==
  \/ EnsureDst /\ dirs' \in {dirs, dirs \union {phase}}
  \/ (CopyFile \/ CopyEnds) /\ dirs' = dirs \union {phase}
  \/ CopyFails /\ dirs' \in {dirs, dirs \union {phase}}

CopyAll ==
  /\ \/ RemoveDirectory
     \/ MakeDirectory
     \/ (EnsureSrc \/ Permissions \/ PermissionsFail) /\ UNCHANGED dirs
  /\ step' = IF pc' = "preloaded" THEN "init" ELSE step
  /\ UNCHANGED linkerVars

-----------------------------------------------------------------------------
(* runtime_restriction::init, which goes on whether copy_all failed or not. *)

(* Mutant: there is no test whether an object was found.                   *)
FindNamespace_Unchecked ==
  /\ step = "init"
  /\ \E ns \in (IF homes = {} THEN {NoNamespace} ELSE homes) :
       /\ mainNamespace' = ns
       /\ isolated' = isolated \ {ns}
  /\ step' = "collect"
  /\ UNCHANGED <<vars, dirs, homes, ld_library_paths>>

(* Mutant: the first object is taken, whatever its name.                   *)
FindNamespace_Any ==
  /\ step = "init"
  /\ \E ns \in Namespace :
       /\ mainNamespace' = ns
       /\ isolated' = isolated \ {ns}
  /\ step' = "collect"
  /\ UNCHANGED <<vars, dirs, homes, ld_library_paths>>

(* The namespace of an object that has the name of the modloader's file.   *)
FindNamespace ==
  /\ step = "init"
  /\ \E ns \in homes :
       /\ mainNamespace' = ns
       /\ isolated' = isolated \ {ns}
  /\ step' = "collect"
  /\ UNCHANGED <<vars, dirs, homes, ld_library_paths>>

(* The linker's file cannot be read, a symbol is not there, or no object    *)
(* has the name: there is a warning and no more.                           *)
InitFails ==
  /\ step = "init"
  /\ step' = "done"
  /\ UNCHANGED <<vars, dirs, linkerVars>>

(* add_ld_library_paths, when there is a namespace.                        *)
add_ld_library_paths(paths) ==
  ld_library_paths' = [ld_library_paths EXCEPT ![mainNamespace] = @ \union paths]

(* Mutant: only directories that hold something.                           *)
Collect_NonEmpty ==
  /\ step = "collect"
  /\ add_ld_library_paths({System} \union {d \in dirs : d \in Phase => dst[d] # {}})
  /\ step' = "done"
  /\ UNCHANGED <<vars, dirs, homes, mainNamespace, isolated>>

(* The directories of the system, and all directories that are there now.  *)
Collect ==
  /\ step = "collect"
  /\ add_ld_library_paths({System} \union dirs)
  /\ step' = "done"
  /\ UNCHANGED <<vars, dirs, homes, mainNamespace, isolated>>

(* modloader_add_ld_library_path, called by mods.                          *)
modloader_add_ld_library_path ==
  /\ pc = "loaded"
  /\ \E path \in Other :
       IF mainNamespace # NoNamespace THEN add_ld_library_paths({path})
       ELSE UNCHANGED ld_library_paths
  /\ UNCHANGED <<vars, dirs, step, homes, mainNamespace, isolated>>

LoadAfterPreload ==
  /\ step = "done"
  /\ Load
  /\ UNCHANGED <<dirs, step, linkerVars>>

(* The process may also end because recursive_directory_iterator throws.   *)
StopAll == Stop /\ step' = "done" /\ UNCHANGED <<dirs, linkerVars>>

(* Which directories there are, and which namespace the modloader is in,    *)
(* may differ at the next start.                                           *)
InstallAll ==
  \/ Install /\ UNCHANGED <<dirs, step, linkerVars>>
  \/ /\ pc = "stopped"
     /\ homes' \in SUBSET Namespace
     /\ UNCHANGED <<vars, dirs, step, mainNamespace, isolated, ld_library_paths>>

StepAll ==
  \/ CopyAll
  \/ FindNamespace
  \/ InitFails
  \/ Collect
  \/ LoadAfterPreload

NextAll ==
  \/ StepAll
  \/ StartPreload
  \/ modloader_add_ld_library_path
  \/ StopAll
  \/ InstallAll

SpecAll == InitAll /\ [][NextAll]_allVars

(* As in Startup: a start goes on until it is stopped.                     *)
FairSpecAll == SpecAll /\ WF_allVars(StepAll)

-----------------------------------------------------------------------------
LinkerTypes ==
  /\ dirs \subseteq Directory \ {System}
  /\ homes \subseteq Namespace
  /\ step \in {"copy_all", "init", "collect", "done"}
  /\ mainNamespace \in Namespace \union {NoNamespace}
  /\ isolated \subseteq Namespace
  /\ ld_library_paths \in [Namespace -> SUBSET Directory]
  /\ step = "collect" => mainNamespace \in Namespace
  /\ step = "copy_all" <=> pc \in Steps

(* The linker's part of the state keeps its types with that of Startup: a  *)
(* namespace is used only when one was found, and after copy_all.          *)
LinkerTypeOK == TypeOK /\ LinkerTypes

(* When mods are loaded, the linker finds what they need: every directory   *)
(* that something is opened from is in the list of the modloader's         *)
(* namespace, if there is one, also a directory that had not existed, could *)
(* not be made at first, or has nothing in it.                             *)
PathsCoverPhases ==
  pc = "loaded" /\ ~failed /\ mainNamespace # NoNamespace =>
    Phase \subseteq ld_library_paths[mainNamespace] /\ mainNamespace \notin isolated

(* No other namespace is touched, on any path through init.                *)
OthersUntouched ==
  pc # "stopped" =>
    \A ns \in Namespace \ homes : ns \in isolated /\ ld_library_paths[ns] = {}
=============================================================================
