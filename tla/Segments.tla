------------------------------ MODULE Segments ------------------------------
(***************************************************************************)
(* The segments of a program (kern/vm/segments.c, addrspace.c) and the     *)
(* arithmetic that finds the bytes of its file a page is filled with.      *)
(* Addresses are bytes; PageSize is a small power of two.                  *)
(***************************************************************************)
EXTENDS Integers

CONSTANTS PageSize, StackPages, UserStack   \* USERSTACK: the top of user space

PageOf(va) == va \div PageSize
PageOffset(va) == va % PageSize
LowerOf(a, b) == IF a < b THEN a ELSE b

\* A segment of the executable: as_define_region and seg_define record what the
\* program header says.  perm is a set of "R", "W", "X", or {"S"} for the stack.
Segment(vaddr, memsz, filesz, offset, perm) ==
  [vaddr |-> vaddr, memsz |-> memsz, filesz |-> filesz, offset |-> offset, perm |-> perm]

stack == Segment(UserStack - StackPages * PageSize, StackPages * PageSize, 0, 0, {"S"})

\* A store goes through if the TLB entry vm_fault writes has TLBLO_DIRTY.
Writable(seg) == seg.perm \in {{"R", "W"}, {"S"}, {"W"}}

\* as_get_segment: the first of the three segments with va in it.  The tops are
\* inclusive, so the address after a segment still belongs to it.
as_get_segment(image, va) ==
  LET In(seg) == seg.vaddr <= va /\ va <= seg.vaddr + seg.memsz
  IN IF In(image.code) THEN {image.code}
     ELSE IF In(image.data) THEN {image.data}
     ELSE IF In(stack) THEN {stack} ELSE {}

\* The page count seg_load_page uses: the segment's size plus the offset of the
\* faulting address in its page, rounded up.
npages(seg, va) == (seg.memsz + PageOffset(va) + PageSize - 1) \div PageSize
page_index(seg, va) == PageOf(va) - PageOf(seg.vaddr)

\* Mutant: every page but the first is read whole.
LoadPlan_WholePages(seg, va) ==
  LET base == PageOffset(seg.vaddr)
      before == page_index(seg, va) * PageSize - base
  IN IF page_index(seg, va) = 0
     THEN [dest |-> base, len |-> LowerOf(seg.filesz, PageSize - base), offset |-> seg.offset]
     ELSE [dest |-> 0, len |-> PageSize, offset |-> seg.offset + before]

\* seg_load_page: where in the page the read starts, how many bytes it reads
\* and from where in the file.
LoadPlan(seg, va) ==
  LET base == PageOffset(seg.vaddr)
      index == page_index(seg, va)
      n == npages(seg, va)
      filesz == LowerOf(seg.filesz, n * PageSize)
      before == index * PageSize - base   \* bytes of the segment before this page
      Plan(dest, len, offset) == [dest |-> dest, len |-> len, offset |-> offset]
  IN CASE index = 0 -> Plan(base, LowerOf(filesz, PageSize - base), seg.offset)
       [] index > 0 /\ index = n - 1 ->
            IF filesz > before THEN Plan(0, filesz - before, seg.offset + before)
            ELSE Plan(0, 0, filesz)
       [] OTHER ->
            IF filesz > before + PageSize THEN Plan(0, PageSize, seg.offset + before)
            ELSE IF filesz < before THEN Plan(0, 0, filesz)
            ELSE Plan(0, filesz - before, seg.offset + before)

\* The two assertions seg_load_page makes before it reads.
LoadAsserts(seg, va) == page_index(seg, va) < npages(seg, va)

\* Where a byte of a page comes from: a position in the file, or -1 for zero.
\* By definition of the segment ...
ByteWanted(seg, a) ==
  IF seg.vaddr <= a /\ a < seg.vaddr + seg.filesz THEN seg.offset + a - seg.vaddr ELSE -1
\* ... and by the read: the page was zeroed first.
ByteLoaded(plan, o) ==
  IF plan.dest <= o /\ o < plan.dest + plan.len THEN plan.offset + o - plan.dest ELSE -1
=============================================================================
