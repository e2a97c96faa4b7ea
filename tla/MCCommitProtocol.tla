-------------------------- MODULE MCCommitProtocol --------------------------
(***************************************************************************)
(* A small instance of CommitProtocol: one auxiliary key, two execution   *)
(* keys (so that some may be stored and some new), three blocks.           *)
(***************************************************************************)
EXTENDS CommitProtocol

CONSTANTS g, b1, b2, k1, v1, v2, n1, n2

MCBlock == {g, b1, b2}
MCKey == {k1}
MCValue == {v1, v2}
MCNode == {n1, n2}
=============================================================================
