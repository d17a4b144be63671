------------------------------ MODULE PagedList ------------------------------
(***************************************************************************)
(* What a task list promises its user: the rows that can be seen are the   *)
(* first pages of the server's listing, and they grow by one page at a     *)
(* time until all are there.  No page is skipped and no row disappears.    *)
(***************************************************************************)
EXTENDS Naturals, Sequences

CONSTANTS
  Listing,   \* the tasks of the server, in the order of the sort
  Limit      \* rows of a page

VARIABLE visible   \* the tasks that have a row

(* The place in the listing of the last row of page p.                     *)
LastRow(p) == IF p * Limit <= Len(Listing) THEN p * Limit ELSE Len(Listing)

(* The tasks of the pages up to p.                                         *)
Pages(p) == {Listing[i] : i \in 1..LastRow(p)}

Init == visible = {}

Grow ==
  \E p \in 0..Len(Listing) :
    /\ visible = Pages(p)
    /\ visible' = Pages(p + 1)

Spec == Init /\ [][Grow]_visible
=============================================================================
