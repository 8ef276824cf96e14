----------------------------- MODULE PageTable -----------------------------
(***************************************************************************)
(* The two-level page table of kern/vm/pt.c.  A table maps outer indices   *)
(* to inner tables, which come into being when an entry of theirs is first *)
(* set.  The arguments are page numbers: offsets in a page play no part.   *)
(***************************************************************************)
EXTENDS Integers

CONSTANT SizeOuter, SizeInner   \* SIZE_PT_OUTER, SIZE_PT_INNER

PFN_NOT_USED == 0
NotSwapped == -1
NoInner == <<>>
Unused == [valid |-> FALSE, pfn |-> PFN_NOT_USED, swap_offset |-> NotSwapped]

get_outer_index(v) == v \div SizeInner
get_inner_index(v) == v % SizeInner

pt_create == [o \in 0..SizeOuter-1 |-> NoInner]

pt_define_inner(pt, v) ==
  IF pt[get_outer_index(v)] # NoInner THEN pt
  ELSE [pt EXCEPT ![get_outer_index(v)] = [i \in 0..SizeInner-1 |-> Unused]]

\* The entry of page v, as the two getters see it.
Entry(pt, v) ==
  LET inner == pt[get_outer_index(v)]
  IN IF inner = NoInner THEN Unused
     ELSE IF inner[get_inner_index(v)].valid THEN inner[get_inner_index(v)] ELSE Unused
pt_get_pa(pt, v) == Entry(pt, v).pfn
pt_get_offset(pt, v) == Entry(pt, v).swap_offset

\* The setters make the entry valid; the other column keeps what it had.
pt_set_pa(pt, v, pa) ==
  [pt_define_inner(pt, v) EXCEPT ![get_outer_index(v)][get_inner_index(v)] =
    [@ EXCEPT !.valid = TRUE, !.pfn = pa]]
pt_set_offset(pt, v, offset) ==
  [pt_define_inner(pt, v) EXCEPT ![get_outer_index(v)][get_inner_index(v)] =
    [@ EXCEPT !.valid = TRUE, !.swap_offset = offset]]

\* pt_destroy: the frames it hands to page_free, those of all valid entries of
\* all inner tables (the test of swap_offset against 1 excludes none).
pt_destroy_inner(inner) == {inner[i].pfn : i \in {j \in DOMAIN inner : inner[j].valid}}
pt_destroy(pt) == UNION {pt_destroy_inner(pt[o]) : o \in DOMAIN pt}
=============================================================================
