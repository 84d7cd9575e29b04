---------------------------- MODULE DepthFirst ----------------------------
(***************************************************************************)
(* What the resolution of dependencies promises where there is no cycle,   *)
(* without search paths, lists, caches, copies and loops: a walk over the  *)
(* graph of needs, depth first and the greatest path first, which lists    *)
(* each object when it leaves it.  No step has a choice, so that the order *)
(* is a function of the graph.                                             *)
(***************************************************************************)
EXTENDS SharedObjects

VARIABLES
  needs,    \* the graph, fixed: the objects that each object needs
  root,     \* the object that the walk starts from, fixed
  stack,    \* the objects on the way to where the walk is
  visited,  \* the objects it has come to
  order,    \* the objects it has left
  pc

vars == <<stack, visited, order, pc, needs, root>>

Init ==
  /\ root \in DOMAIN needs
  /\ \A p \in DOMAIN needs : needs[p] \subseteq DOMAIN needs
  /\ stack = <<>>
  /\ visited = {}
  /\ order = <<>>
  /\ pc = "waiting"

Begin ==
  /\ pc = "waiting"
  /\ stack' = <<root>>
  /\ pc' = "walking"
  /\ UNCHANGED <<visited, order, needs, root>>

Greatest(S) == CHOOSE p \in S : \A q \in S : q = p \/ PathLess(q, p)

Ahead == needs[stack[Len(stack)]] \ visited

Visit ==
  /\ pc = "walking"
  /\ Ahead # {}
  /\ stack' = Append(stack, Greatest(Ahead))
  /\ visited' = visited \union {Greatest(Ahead)}
  /\ UNCHANGED <<order, pc, needs, root>>

Leave ==
  /\ pc = "walking"
  /\ Ahead = {}
  /\ Len(stack) > 1
  /\ order' = Append(order, stack[Len(stack)])
  /\ stack' = Front(stack)
  /\ UNCHANGED <<visited, pc, needs, root>>

Finish ==
  /\ pc = "walking"
  /\ Ahead = {}
  /\ Len(stack) = 1
  /\ stack' = <<>>
  /\ pc' = "done"
  /\ UNCHANGED <<visited, order, needs, root>>

Next == Begin \/ Visit \/ Leave \/ Finish

Spec == Init /\ [][Next]_vars
=============================================================================
