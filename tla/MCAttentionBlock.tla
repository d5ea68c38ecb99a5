-------------------------- MODULE MCAttentionBlock --------------------------
(***************************************************************************)
(* Falcon only: two sessions of one row and one of two, a rotary table of  *)
(* three positions that a session of four outgrows.                        *)
(***************************************************************************)
EXTENDS AttentionBlock

MCBatch(s) == IF s = 2 THEN 2 ELSE 1
=============================================================================
