---------------------------- MODULE SignatureFeed ---------------------------
(***************************************************************************)
(* What a poller over get_signatures_for_address owes its reader, with     *)
(* none of the pages, cursors and failures it is made of: it delivers the  *)
(* signatures oldest first, never takes one back, and leaves some out only *)
(* when more of them wait than a page holds; then it goes on with exactly  *)
(* a page of the ones that wait.                                           *)
(***************************************************************************)
EXTENDS Naturals, Sequences

CONSTANT PageLimit

VARIABLES touched, delivered

Init == touched = 0 /\ delivered = <<>>

(* One more signature touches the address.                                 *)
Touch == touched' = touched + 1 /\ UNCHANGED delivered

Newest == IF delivered = <<>> THEN 0 ELSE delivered[Len(delivered)]

Deliver ==
    /\ \E from, to \in Newest .. touched :
          /\ from < to
          /\ from # Newest => to - from = PageLimit
          /\ delivered' = delivered \o [i \in 1 .. to - from |-> from + i]
    /\ UNCHANGED touched

Spec == Init /\ [][Touch \/ Deliver]_<<touched, delivered>>

=============================================================================
