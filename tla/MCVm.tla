-------------------------------- MODULE MCVm --------------------------------
(* Vm with pages of four bytes: a code page, a data page, a gap, and one    *)
(* page of stack.                                                          *)
EXTENDS Vm, TLC
MCImages ==
  {[code |-> Segment(1, 2, 2, 5, {"R", "X"}), data |-> Segment(4, 3, 2, 7, {"R", "W"})]}
MCAddrs == {2, 5, 7, 13}
MCLengths == {2, 6, 60}
MCUser == {FALSE}
\* Neither segment ends on a page boundary.
ASSUME MCImagesFit == ImagesFit
Symmetry == Permutations(Cpus)
=============================================================================
