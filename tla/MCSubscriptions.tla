--------------------------- MODULE MCSubscriptions --------------------------
(***************************************************************************)
(* Subscriptions for TLC: logs of every block, of the blocks up to a       *)
(* number, and from or up to "latest".                                     *)
(***************************************************************************)
EXTENDS Subscriptions

MCRanges ==
    {Everything, [Everything EXCEPT !.to = {1}],
     [Everything EXCEPT !.to = {Latest}], [Everything EXCEPT !.from = {Latest}]}

=============================================================================
