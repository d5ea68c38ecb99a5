---------------------------- MODULE CacheContract ----------------------------
(***************************************************************************)
(* What allocate_cache promises to the sessions of one handler process: a  *)
(* session is granted its bytes once, only while they fit in the budget,   *)
(* or it is refused; a granted session gives back exactly what it was      *)
(* granted.  Locks, threads, the pipe and the queue of waiting sessions    *)
(* are not part of the promise.                                            *)
(***************************************************************************)
EXTENDS Integers

CONSTANTS Sessions, Size(_), Budget

VARIABLES used, state

Init ==
  /\ used = 0
  /\ state = [s \in Sessions |-> "asking"]

Grant(s) ==
  /\ state[s] = "asking"
  /\ used + Size(s) <= Budget
  /\ used' = used + Size(s)
  /\ state' = [state EXCEPT ![s] = "holding"]

Refuse(s) ==
  /\ state[s] = "asking"
  /\ state' = [state EXCEPT ![s] = "refused"]
  /\ UNCHANGED used

Release(s) ==
  /\ state[s] = "holding"
  /\ used' = used - Size(s)
  /\ state' = [state EXCEPT ![s] = "released"]

Next == \E s \in Sessions : Grant(s) \/ Refuse(s) \/ Release(s)

Spec == Init /\ [][Next]_<<used, state>>
=============================================================================
