------------------------------ MODULE LogRange ------------------------------
(***************************************************************************)
(* The block range of a log filter or a logs subscription                  *)
(* (rpc_filters.go): the hash of a block, or a first and a last block,     *)
(* each of which may be left out.  A bound is a number or the tag          *)
(* "latest", which is resolved whenever events are read, against geth's    *)
(* head of that moment.                                                    *)
(*                                                                         *)
(* hash, from and to are sets of at most one element.  "earliest" is the   *)
(* number 0; "safe" and "finalized", which move with the slot, are left    *)
(* out.                                                                    *)
(***************************************************************************)
EXTENDS EventLog

\* rpc.LatestBlockNumber.
Latest == -2

\* The range of criteria without blocks.
Everything == [hash |-> {}, from |-> {}, to |-> {}]

\* resolveLogBlockNumber.
Resolve(bound, head) == IF bound = Latest THEN head ELSE bound

\* filterIncludesBlock.
Includes(range, event, head) ==
    IF range.hash # {} THEN event.block \in range.hash
    ELSE /\ \A bound \in range.from : event.number >= Resolve(bound, head)
         /\ \A bound \in range.to : event.number <= Resolve(bound, head)

\* validateInstalledLogCriteria.  It resolves "latest" against a head that it
\* reads before the criteria are installed, so with that tag any range passes.
Valid(range) ==
    \/ range.hash # {} \/ Latest \in range.from \cup range.to
    \/ \A first \in range.from, last \in range.to : first <= last

\* The range is the same for every head.
Fixed(range) == range.hash # {} \/ Latest \notin range.from \cup range.to

=============================================================================
