----------------------------- MODULE MCSwapfile -----------------------------
(* Model values for the runs of Swapfile. *)
EXTENDS Swapfile, TLC

CONSTANTS a, b, p1, p2, p3, zero, one

\* Segment pages come from the executable, stack pages are zeroed: only that
\* the fresh content is one of the contents matters here.
FreshPages == [v \in Pages |-> zero]

=============================================================================
