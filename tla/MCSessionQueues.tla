-------------------------- MODULE MCSessionQueues --------------------------
(***************************************************************************)
(* One session, its owner and two other handlers that pushes may reach;    *)
(* three steps, so that a push of an early step can arrive during a later  *)
(* one, between two, or after the end.  Sessions only share the event      *)
(* queues, which keep each session's events in order.                      *)
(***************************************************************************)
EXTENDS SessionQueues

CONSTANTS h1, h2, h3, s1

MCHandlers == {h1, h2, h3}
MCSessions == {s1}
MCOwner == [s \in MCSessions |-> h1]
=============================================================================
