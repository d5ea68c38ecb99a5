----------------------------- MODULE MCTaskPool -----------------------------
(***************************************************************************)
(* An inference pool with one task and a forward pool with two, from two   *)
(* handlers, so that the forward pool is written by both and by the        *)
(* Runtime; t2 makes process_func raise.                                   *)
(***************************************************************************)
EXTENDS TaskPool

CONSTANTS t1, t2, t3, p1, p2, h1, h2

MCTasks == {t1, t2, t3}
MCPools == {p1, p2}
MCPoolOf == [t \in MCTasks |-> IF t = t1 THEN p1 ELSE p2]
MCHandlerOf == [t \in MCTasks |-> IF t \in {t1, t2} THEN h1 ELSE h2]
MCKind == [p \in MCPools |-> IF p = p1 THEN "inference" ELSE "forward"]
MCRaising == {t2}
=============================================================================
