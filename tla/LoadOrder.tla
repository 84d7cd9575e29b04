----------------------------- MODULE LoadOrder ----------------------------
(***************************************************************************)
(* What the loader promises about the order of dlopen calls, without its   *)
(* lists, phases and requests: every object is attempted at most once, and *)
(* only after everything it requires has been attempted.  An attempt that  *)
(* fails counts: the loader goes on "hoping that we will be able to open   *)
(* later".                                                                 *)
(***************************************************************************)
CONSTANT Object

VARIABLES
  requires,   \* what must be attempted before an object is, fixed
  attempted   \* the objects whose dlopen has been tried

vars == <<requires, attempted>>

TypeOK ==
  /\ requires \in [Object -> SUBSET Object]
  /\ attempted \subseteq Object

Init == requires \in [Object -> SUBSET Object] /\ attempted = {}

Attempt(o) ==
  /\ o \notin attempted
  /\ requires[o] \subseteq attempted
  /\ attempted' = attempted \union {o}
  /\ UNCHANGED requires

Next == \E o \in Object : Attempt(o)

Spec == Init /\ [][Next]_vars
=============================================================================
