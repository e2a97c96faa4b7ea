----------------------------- MODULE MCFilters ------------------------------
(***************************************************************************)
(* Filters for TLC: log filters over every block, from or up to a number,  *)
(* of one block, and from or up to "latest".  A range that ends before it  *)
(* begins is refused.                                                      *)
(***************************************************************************)
EXTENDS Filters

MCRanges ==
    {Everything, [Everything EXCEPT !.from = {2}], [Everything EXCEPT !.to = {1}],
     [Everything EXCEPT !.from = {2}, !.to = {1}], [Everything EXCEPT !.hash = {2}],
     [Everything EXCEPT !.to = {Latest}], [Everything EXCEPT !.from = {Latest}]}

=============================================================================
