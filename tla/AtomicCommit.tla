---------------------------- MODULE AtomicCommit ----------------------------
(***************************************************************************)
(* What the recovery journal promises: a write is submitted, and then it   *)
(* happens at once or not at all, whatever crashes and errors interrupt    *)
(* it.  The state is what a restart will find: the auxiliary keys, the     *)
(* execution keys and the head of the chain.                               *)
(***************************************************************************)
CONSTANTS Key, Value, Node, Block, Genesis

VARIABLES kv, state, top, submitted

avars == <<kv, state, top, submitted>>

Table == UNION {[S -> Value] : S \in SUBSET Key}

Write == [puts : Table, deletes : SUBSET Key, added : SUBSET Node, moves : BOOLEAN, to : Block]

Init ==
    /\ kv \in Table
    /\ state \in SUBSET Node
    /\ top = Genesis
    /\ submitted = {}

\* All of w: the puts and then the deletes, the execution keys, the head.
Perform(w) ==
    /\ kv' = [k \in (DOMAIN kv \cup DOMAIN w.puts) \ w.deletes |->
                 IF k \in DOMAIN w.puts THEN w.puts[k] ELSE kv[k]]
    /\ state' = state \cup w.added
    /\ top' = IF w.moves THEN w.to ELSE top
    /\ submitted' = {}

Submit(w) == submitted = {} /\ submitted' = {w} /\ UNCHANGED <<kv, state, top>>

Commit == \E w \in submitted : Perform(w)

Abort == submitted # {} /\ submitted' = {} /\ UNCHANGED <<kv, state, top>>

\* A write that no crash can split.
AtOnce(w) == submitted = {} /\ Perform(w)

Next == Commit \/ Abort \/ \E w \in Write : Submit(w) \/ AtOnce(w)

Spec == Init /\ [][Next]_avars

=============================================================================
