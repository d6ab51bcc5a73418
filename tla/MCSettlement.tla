---------------------------- MODULE MCSettlement ----------------------------
(***************************************************************************)
(* The settlement service on small instances: a few transactions and       *)
(* batches of one or two.                                                  *)
(***************************************************************************)
EXTENDS Settlement, TLC

CONSTANTS t1, t2, t3, t4, u1, u2

\* The outcome pattern of a demo run: the first batch by digest, the second
\* fails, the later ones by digest.
MCPattern == <<"random", "failed", "random">>
MCLucky   == {1}

Symmetric == Permutations(Tx) \cup Permutations(Uid)
=============================================================================
