------------------------------ MODULE MCTxPool ------------------------------
(***************************************************************************)
(* A small instance of TxPool: each sender has a cheap transaction and its *)
(* replacement; one of them has another for the nonce after.               *)
(***************************************************************************)
EXTENDS TxPool

CONSTANTS a, b

MCSenders == {a, b}
MCTx == {[from |-> a, nonce |-> 0, fee |-> 10], [from |-> a, nonce |-> 0, fee |-> 20],
         [from |-> a, nonce |-> 1, fee |-> 20],
         [from |-> b, nonce |-> 0, fee |-> 10], [from |-> b, nonce |-> 0, fee |-> 20]}
=============================================================================
