--------------------------- MODULE MC_HookMemory ---------------------------
(* HookMemory with two hooks of mods, which are interchangeable.           *)
EXTENDS HookMemory, TLC

CONSTANTS h1, h2

MCModHooks == {h1, h2}
=============================================================================
