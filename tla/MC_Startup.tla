---------------------------- MODULE MC_Startup -----------------------------
(* Two phases and two versions of a mod, any of which may be installed or   *)
(* left over in each; a directory that a mod keeps; and two namespaces.     *)
EXTENDS LinkerPaths

CONSTANTS old, new, classloader, other, data

MCFile == {old, new}
MCPhases == <<"Libs", "Mods">>
MCNamespace == {classloader, other}
MCOther == {System, data}
=============================================================================
