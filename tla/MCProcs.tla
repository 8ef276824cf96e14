------------------------------ MODULE MCProcs ------------------------------
(* Procs with two process structures for programs and a table of    *)
(* three slots, the first of them the kernel's.                              *)
EXTENDS Procs
Runs == [vnode |-> "sh", header |-> TRUE, types |-> <<"REGINFO", "LOAD", "LOAD">>]
Odd == [vnode |-> "odd", header |-> TRUE, types |-> <<"LOAD", "NULL", "INTERP", "LOAD">>]
Big == [vnode |-> "big", header |-> TRUE, types |-> <<"LOAD", "LOAD", "LOAD">>]
Text == [vnode |-> "text", header |-> FALSE, types |-> <<>>]
MCImages == {Runs, Odd, Big, Text}
MCCodes == {257}
=============================================================================
