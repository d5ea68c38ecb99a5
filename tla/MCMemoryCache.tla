--------------------------- MODULE MCMemoryCache ---------------------------
(***************************************************************************)
(* Instances of MemoryCache.  Sizes 2, 2 and 3 under a budget of 4 let two *)
(* small sessions in together and make the large one wait for both; the    *)
(* second device gets the larger share of one of them.  A fourth session   *)
(* of size 5 can never fit.                                                *)
(***************************************************************************)
EXTENDS MemoryCache

CONSTANTS h1, h2, r1, r2, r3, r4, d1, d2

MCRequests == {r1, r2, r3}
MCDevices == {d1, d2}

\* Two handler processes; r1 and r2 race, r3 shares a loop with r2.
TwoHandlers == {h1, h2}
SharedOwner == [r \in MCRequests |-> IF r = r1 THEN h1 ELSE h2]

\* One handler process, and the session that is too large.
OneHandler == {h1}
FourRequests == {r1, r2, r3, r4}
SingleOwner == [r \in FourRequests |-> h1]

Shares(S) == [r \in S |-> [d \in MCDevices |->
  CASE r = r1 -> IF d = d1 THEN 2 ELSE 1
    [] r = r2 -> IF d = d1 THEN 1 ELSE 2
    [] r = r3 -> 3
    [] OTHER  -> 5]]
MCBytes == Shares(MCRequests)
FourBytes == Shares(FourRequests)

\* No deadline: one session refuses to wait, two wait as long as it takes.
Patient == [r \in MCRequests |-> IF r = r1 THEN "zero" ELSE "inf"]

\* Deadlines that may pass at any await.
Hurried == [r \in MCRequests |-> IF r = r1 THEN "zero" ELSE "finite"]
FourHurried == [r \in FourRequests |-> IF r = r1 THEN "zero" ELSE "finite"]
=============================================================================
