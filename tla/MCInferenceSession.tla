------------------------- MODULE MCInferenceSession -------------------------
(***************************************************************************)
(* Three blocks and three servers: s1 serves the first two, s2 the last    *)
(* two, s3 all of them, so that a route has one or two hops, a hop can be  *)
(* replaced by two, and a new hop can serve more than it is asked for.     *)
(***************************************************************************)
EXTENDS InferenceSession

CONSTANTS s1, s2, s3, a, b

MCPeers == {s1, s2, s3}
MCServes == [p \in MCPeers |->
  CASE p = s1 -> [start |-> 0, end |-> 2]
    [] p = s2 -> [start |-> 1, end |-> 3]
    [] OTHER  -> [start |-> 0, end |-> 3]]
MCTokens == {a, b}
MCChunks == {<<a>>, <<b, a>>}
=============================================================================
