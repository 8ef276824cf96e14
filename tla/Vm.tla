--------------------------------- MODULE Vm ---------------------------------
(***************************************************************************)
(* Demand paging as a program sees it: the TLB, vm_fault, the page table   *)
(* with its two columns, the address space's life from runprogram to       *)
(* as_destroy, and the copies between kernel and user memory, for one      *)
(* program after the other (the disagreements between two programs alive   *)
(* at once are Swapfile's and Coremap's).  The program's thread may be put *)
(* on another CPU whenever it sleeps or is interrupted; every CPU has its  *)
(* own TLB, the round-robin pointer of vm_fault is one for all.            *)
(*                                                                         *)
(* The frame allocator is FramePool's contract (a free frame, or that of   *)
(* any page of the program), the swap file that of Swapfile: what swap_in  *)
(* reads is what swap_out wrote.  A page's content is its number and       *)
(* whether the program has stored into it.                                 *)
(***************************************************************************)
EXTENDS Segments, PageTable

CONSTANTS
  Cpus, NumTlb, Frames,
  Images,    \* the programs that may be run: [code, data]
  Addrs,     \* the user addresses programs and copies start at
  Lengths,   \* the lengths of copies
  LoadFails  \* may the read of the executable fail, in a copy / in user mode

AddrMod == 4 * UserStack   \* addresses wrap there
NoImage == <<>>

\* A page is not empty, and user space is whole pages, no more than the two
\* levels of the table hold; frame 0 is the kernel's; an executable's segments
\* have what its program headers say; addresses and lengths are machine words.
ASSUME VmAssumption ==
  /\ PageSize \in Nat \ {0} /\ SizeOuter \in Nat \ {0} /\ SizeInner \in Nat \ {0}
  /\ NumTlb \in Nat \ {0} /\ StackPages \in Nat /\ UserStack \in Nat \ {0}
  /\ UserStack % PageSize = 0 /\ PageOf(UserStack) <= SizeOuter * SizeInner
  /\ Frames \subseteq Nat \ {0}
  /\ Addrs \subseteq 0..AddrMod-1 /\ Lengths \subseteq 0..AddrMod-1
  /\ NoImage \notin Images
  /\ \A img \in Images : \A seg \in {img.code, img.data} :
       {seg.vaddr, seg.memsz, seg.filesz, seg.offset} \subseteq Nat

VARIABLES
  image,    \* the running program, or NoImage
  pt,       \* the page table of the program
  swapped,  \* what the swap file holds of a page (Zeroes: no slot is its)
  mem,      \* per frame: its content
  pool,     \* the frames nobody has
  tlb,      \* per CPU and slot: page, frame, dirty, or Invalid
  victim,   \* current_victim, the TLB slot the next fault fills
  cpu,      \* the CPU the program's thread is on
  access,   \* the access in progress: addresses va..end-1, by the program or a copy
  badfault, \* tm_badfaultfunc is set
  fault,    \* the vm_fault call in progress
  balance,  \* the three differences print_all_statistics checks
  stopped

machine == <<image, pt, swapped, mem, pool, tlb, victim, cpu>>
vars == <<machine, access, badfault, fault, balance, stopped>>

Pages == 0..PageOf(UserStack)-1
Out(v) == pt_get_offset(pt, v) # NotSwapped
None == [kind |-> "none", va |-> 0, end |-> 0]
NoFault == [pc |-> "none", page |-> 0, frame |-> 0]
Invalid == [page |-> -1, frame |-> 0, dirty |-> FALSE]
Slot(v) == v   \* where swap_out puts page v; which slot it is does not matter here
FreshContent(v) == <<v, "fresh">>
Stored(v) == <<v, "stored">>
Zeroes == <<-1, "zero">>
Junk == <<-1, "junk">>    \* what is left in a frame nobody uses
NoTlb == [s \in 0..NumTlb-1 |-> Invalid]

Init ==
  /\ image = NoImage
  /\ pt = pt_create
  /\ swapped = [v \in Pages |-> Zeroes]
  /\ mem = [f \in Frames |-> Junk]
  /\ pool = Frames
  /\ tlb = [c \in Cpus |-> NoTlb]
  /\ victim = 0
  /\ cpu \in Cpus
  /\ access = None /\ badfault = FALSE /\ fault = NoFault
  /\ balance = [faults |-> 0, sources |-> 0, disk |-> 0]
  /\ stopped = FALSE

\* increment_statistics: the counters enter the three identities, TLB faults =
\* free + replaced, TLB faults = reloads + zeroed + disk, disk = ELF + swap.
Counts(names) ==
  LET d(name) == IF name \in names THEN 1 ELSE 0 IN
  balance' = [faults |-> balance.faults + d("fault") - d("slot"),
              sources |-> balance.sources + d("fault") - d("reload") - d("zero") - d("disk"),
              disk |-> balance.disk + d("disk") - d("elf") - d("swapread")]

Seg(va) == CHOOSE seg \in as_get_segment(image, va) : TRUE
Live == image # NoImage /\ ~stopped
Resting == Live /\ fault = NoFault

\* runprogram, up to the program's first instruction: a new address space with
\* the two segments of the executable and the stack, made current, TLB emptied.
as_create(img) ==
  /\ image' = img
  /\ pt' = pt_create
\* Mutant: the TLB keeps what it has.
as_activate_Keeps(c) == UNCHANGED tlb

as_activate(c) == tlb' = [tlb EXCEPT ![c] = NoTlb]

runprogram(img) ==
  /\ image = NoImage /\ ~stopped
  /\ as_create(img)
  /\ as_activate(cpu)
  /\ UNCHANGED <<swapped, mem, pool, victim, cpu, access, badfault, fault, balance, stopped>>

\* The thread leaves its CPU, in user mode or where the kernel sleeps, and comes
\* back on CPU c: thread_switch calls as_activate there.
Sleeping == fault.pc \in {"none", "swapout", "swapin", "load"}
thread_switch(c) ==
  /\ Live /\ Sleeping
  /\ cpu' = c
  /\ as_activate(c)
  /\ UNCHANGED <<image, pt, swapped, mem, pool, victim, access, badfault, fault, balance, stopped>>

\* sys__exit and the as_destroy of whoever waits: every frame the page table
\* names is free.  (as_deactivate is for a process that destroys itself.)
as_destroy ==
  /\ image' = NoImage
  /\ pool' = pool \cup (pt_destroy(pt) \ {0})
  /\ mem' = [f \in Frames |-> Junk]
  /\ pt' = pt_create
  /\ swapped' = [v \in Pages |-> Zeroes]
Exit ==
  /\ Resting /\ access = None
  /\ as_destroy
  /\ UNCHANGED <<tlb, victim, cpu, access, badfault, fault, balance, stopped>>
-----------------------------------------------------------------------------
(* Accesses: one byte of the program's own, or the bytes of a copy.         *)


\* copycheck: how much of the region can be copied; -1 is EFAULT.
copycheck(va, len) ==
  LET top == (va + len - 1) % AddrMod
  IN IF top < va \/ va >= UserStack THEN -1
     ELSE IF top >= UserStack THEN UserStack - va ELSE len

UserAccess(va, kind) ==
  /\ Resting /\ access = None
  /\ kind \in {"load", "store"} /\ va < UserStack
  /\ access' = [kind |-> kind, va |-> va, end |-> va + 1]
  /\ UNCHANGED <<machine, badfault, fault, balance, stopped>>

\* copyin, copyout: all of the region or EFAULT at once.  The string copies take
\* the part below the boundary, and may end on any page of it.
copy(va, len, kind) ==
  /\ Resting /\ access = None
  /\ kind \in {"copyin", "copyout"}
  /\ copycheck(va, len) = len
  /\ access' = [kind |-> kind, va |-> va, end |-> va + len]
  /\ badfault' = TRUE
  /\ UNCHANGED <<machine, fault, balance, stopped>>

copystr(va, len, kind) ==
  /\ Resting /\ access = None
  /\ kind \in {"copyin", "copyout"}
  /\ LET max == LowerOf(len, copycheck(va, len)) IN
     /\ max > 0
     /\ \E p \in PageOf(va)..PageOf(va + max - 1) :
          access' = [kind |-> kind, va |-> va, end |-> LowerOf(va + max, (p + 1) * PageSize)]
  /\ badfault' = TRUE
  /\ UNCHANGED <<machine, fault, balance, stopped>>

Writes == access.kind \in {"store", "copyout"}
Page == PageOf(access.va)
Hits == {s \in DOMAIN tlb[cpu] : tlb[cpu][s].page = Page}

\* Mutant: tm_badfaultfunc stays set after the copy.
Advance_KeepsRecovery ==
  /\ access' = IF access.end <= (Page + 1) * PageSize THEN None
               ELSE [access EXCEPT !.va = (Page + 1) * PageSize]
  /\ UNCHANGED badfault

\* The access after the bytes of this page: done, or at the next page.
Advance ==
  LET next == (Page + 1) * PageSize
      done == access.end <= next
  IN /\ access' = IF done THEN None ELSE [access EXCEPT !.va = next]
     /\ badfault' = (badfault /\ ~done)

Hit(s) ==
  /\ Resting /\ access # None
  /\ s \in Hits /\ (Writes => tlb[cpu][s].dirty)
  /\ IF Writes
     THEN mem' = [mem EXCEPT ![tlb[cpu][s].frame] = Stored(Page)]
     ELSE UNCHANGED mem
  /\ Advance
  /\ UNCHANGED <<image, pt, swapped, pool, tlb, victim, cpu, fault, balance, stopped>>

\* VM_FAULT_READONLY: vm_fault calls sys__exit, also in the middle of a copy.
ReadOnly(s) ==
  /\ Resting /\ access # None
  /\ s \in Hits /\ Writes /\ ~tlb[cpu][s].dirty
  /\ as_destroy
  /\ access' = None /\ badfault' = FALSE
  /\ UNCHANGED <<tlb, victim, cpu, fault, balance, stopped>>

\* What mips_trap does with a fault vm_fault refuses: resume in copyfail when a
\* copy set tm_badfaultfunc, else kill_curthread, which panics.
EFAULT ==
  \/ /\ badfault
     /\ access' = None /\ badfault' = FALSE /\ fault' = NoFault
     /\ UNCHANGED stopped
  \/ /\ ~badfault
     /\ stopped' = TRUE
     /\ UNCHANGED <<access, badfault, fault>>

\* Any other access misses: the first half of vm_fault, up to its first wait.
vm_fault ==
  /\ Resting /\ access # None /\ Hits = {}
  /\ LET Go(pc) == fault' = [pc |-> pc, page |-> Page, frame |-> pt_get_pa(pt, Page)]
         segs == as_get_segment(image, access.va)
     IN \/ /\ segs = {}
           /\ EFAULT
           /\ UNCHANGED balance
        \/ /\ segs # {} /\ pt_get_pa(pt, Page) # 0
           /\ Go("tlb")
           /\ Counts({"reload"})
           /\ UNCHANGED <<access, badfault, stopped>>
        \/ /\ segs # {} /\ pt_get_pa(pt, Page) = 0
           /\ Go("alloc")
           /\ UNCHANGED <<access, badfault, balance, stopped>>
  /\ UNCHANGED machine

\* Mutant: a page of the stack is not zeroed.
WithFrame_NotZeroed(f) ==
  /\ UNCHANGED mem
  /\ IF Out(fault.page)
     THEN fault' = [fault EXCEPT !.pc = "swapin", !.frame = f] /\ UNCHANGED <<pt, balance>>
     ELSE /\ pt' = pt_set_pa(pt, fault.page, f)
          /\ IF Seg(access.va) = stack
             THEN fault' = [fault EXCEPT !.pc = "tlb", !.frame = f] /\ Counts({"zero"})
             ELSE fault' = [fault EXCEPT !.pc = "load", !.frame = f] /\ UNCHANGED balance

\* page_alloc with a frame free, and what follows it in the fault handler: a
\* page that is out is read back, a stack page zeroed, another one loaded.
WithFrame(f) ==
  /\ mem' = [mem EXCEPT ![f] = IF ~Out(fault.page) /\ Seg(access.va) = stack
                               THEN FreshContent(fault.page) ELSE @]
  /\ IF Out(fault.page)
     THEN fault' = [fault EXCEPT !.pc = "swapin", !.frame = f] /\ UNCHANGED <<pt, balance>>
     ELSE /\ pt' = pt_set_pa(pt, fault.page, f)
          /\ IF Seg(access.va) = stack
             THEN fault' = [fault EXCEPT !.pc = "tlb", !.frame = f] /\ Counts({"zero"})
             ELSE fault' = [fault EXCEPT !.pc = "load", !.frame = f] /\ UNCHANGED balance

page_alloc(f) ==
  /\ Live /\ fault.pc = "alloc"
  /\ f \in pool
  /\ pool' = pool \ {f}
  /\ WithFrame(f)
  /\ UNCHANGED <<image, swapped, tlb, victim, cpu, access, badfault, stopped>>

\* ... or none is free: page v of the program loses its frame.  swap_out waits
\* for the write.
swap_out(v) ==
  /\ Live /\ fault.pc = "alloc"
  /\ pool = {} /\ pt_get_pa(pt, v) # 0
  /\ swapped' = [swapped EXCEPT ![v] = mem[pt_get_pa(pt, v)]]
  /\ fault' = [fault EXCEPT !.pc = "swapout", !.frame = pt_get_pa(pt, v)]
  /\ UNCHANGED <<image, pt, mem, pool, tlb, victim, cpu, access, badfault, balance, stopped>>

tlb_remove_by_va(v) ==
  tlb' = [tlb EXCEPT ![cpu] = [s \in DOMAIN @ |-> IF @[s].page = v THEN Invalid ELSE @[s]]]

\* getppage_user after the write: the two columns of the victim's entry, its TLB
\* entry; the frame is the faulting page's.
Evicted(v) ==
  /\ Live /\ fault.pc = "swapout"
  /\ v \in Pages /\ pt_get_pa(pt, v) = fault.frame
  /\ tlb_remove_by_va(v)
  /\ fault' = [fault EXCEPT !.pc = "evicted"]
  /\ pt' = pt_set_pa(pt_set_offset(pt, v, Slot(v)), v, 0)
  /\ mem' = [mem EXCEPT ![fault.frame] = Junk]
  /\ UNCHANGED <<image, swapped, pool, victim, cpu, access, badfault, balance, stopped>>
UseEvicted ==
  /\ Live /\ fault.pc = "evicted"
  /\ WithFrame(fault.frame)
  /\ UNCHANGED <<image, swapped, pool, tlb, victim, cpu, access, badfault, stopped>>

swap_in ==
  /\ Live /\ fault.pc = "swapin"
  /\ mem' = [mem EXCEPT ![fault.frame] = swapped[fault.page]]
  /\ swapped' = [swapped EXCEPT ![fault.page] = Zeroes]
  /\ pt' = pt_set_pa(pt_set_offset(pt, fault.page, NotSwapped), fault.page, fault.frame)
  /\ fault' = [fault EXCEPT !.pc = "tlb"]
  /\ Counts({"disk", "swapread"})
  /\ UNCHANGED <<image, pool, tlb, victim, cpu, access, badfault, stopped>>

\* seg_load_page: zero the frame, count, read.  A failing KASSERT stops the
\* kernel; a failing or short read makes vm_fault return EFAULT.
seg_load_page ==
  /\ Live /\ fault.pc = "load"
  /\ LET seg == Seg(access.va)
         plan == LoadPlan(seg, access.va)
         failed == [mem EXCEPT ![fault.frame] = Zeroes]
     IN \/ /\ LoadAsserts(seg, access.va)
           /\ mem' = [mem EXCEPT ![fault.frame] = FreshContent(fault.page)]
           /\ Counts(IF plan.len = 0 THEN {"zero"} ELSE {"elf", "disk"})
           /\ fault' = [fault EXCEPT !.pc = "tlb"]
           /\ UNCHANGED <<access, badfault, stopped>>
        \/ /\ LoadAsserts(seg, access.va)
           /\ plan.len > 0 /\ badfault \in LoadFails
           /\ mem' = failed
           /\ Counts({"elf", "disk"})
           /\ EFAULT
        \/ /\ ~LoadAsserts(seg, access.va)
           /\ stopped' = TRUE
           /\ UNCHANGED <<mem, balance, fault, access, badfault>>
  /\ UNCHANGED <<image, pt, swapped, pool, tlb, victim, cpu>>

tlb_get_rr_victim == victim' = (victim + 1) % NumTlb

\* The end of vm_fault, with interrupts off: the entry goes to the next slot,
\* and the access is tried again.
tlb_write ==
  /\ Live /\ fault.pc = "tlb"
  /\ tlb' = [tlb EXCEPT ![cpu][victim] =
       [page |-> fault.page, frame |-> fault.frame, dirty |-> Writable(Seg(access.va))]]
  /\ tlb_get_rr_victim
  /\ Counts({"fault", "slot"})
  /\ fault' = NoFault
  /\ UNCHANGED <<image, pt, swapped, mem, pool, cpu, access, badfault, stopped>>

Next ==
  \/ \E img \in Images : runprogram(img)
  \/ \E c \in Cpus : thread_switch(c)
  \/ Exit
  \/ \E va \in Addrs, kind \in {"load", "store"} : UserAccess(va, kind)
  \/ \E va \in Addrs, len \in Lengths, kind \in {"copyin", "copyout"} :
       copy(va, len, kind) \/ copystr(va, len, kind)
  \/ \E s \in 0..NumTlb-1 : Hit(s) \/ ReadOnly(s)
  \/ vm_fault
  \/ \E f \in Frames : page_alloc(f)
  \/ \E v \in Pages : swap_out(v) \/ Evicted(v)
  \/ UseEvicted \/ swap_in \/ seg_load_page \/ tlb_write

Spec == Init /\ [][Next]_vars
-----------------------------------------------------------------------------
TypeOK ==
  /\ image \in Images \cup {NoImage}
  /\ \A v \in Pages : /\ pt_get_pa(pt, v) \in Frames \cup {PFN_NOT_USED}
                     /\ pt_get_offset(pt, v) \in Pages \cup {NotSwapped}
  /\ pool \subseteq Frames /\ cpu \in Cpus /\ victim \in 0..NumTlb-1
  /\ \A c \in Cpus, s \in 0..NumTlb-1 : tlb[c][s].page \in Pages \cup {-1}
  /\ access.kind \in {"none", "load", "store", "copyin", "copyout"}
  /\ access.va \in 0..UserStack-1 /\ access.end \in 0..UserStack
  /\ fault.pc \in {"none", "alloc", "swapout", "evicted", "swapin", "load", "tlb"}
  /\ {badfault, stopped} \subseteq BOOLEAN

\* On the CPU the program runs on, the TLB says what the page table says: one
\* entry for a page at most, in the page's frame, writable only as its segment
\* is.  vm_fault writes entries without looking for an old one, an eviction
\* removes the victim's entry on one CPU only, and as_destroy leaves the TLB
\* alone; that the entry of another CPU is never used hangs on as_activate.
TlbSound == Live =>
  \A s \in DOMAIN tlb[cpu] : LET e == tlb[cpu][s] IN e # Invalid =>
    /\ e.frame # 0 /\ e.frame \notin pool
    /\ \/ e.frame = pt_get_pa(pt, e.page)
       \/ fault.pc = "swapout" /\ e.frame = fault.frame
    /\ \A t \in DOMAIN tlb[cpu] : tlb[cpu][t].page = e.page => t = s
    /\ e.dirty => \E seg \in {image.code, image.data, stack} :
         Writable(seg) /\ e.page \in PageOf(seg.vaddr)..PageOf(seg.vaddr + seg.memsz)

\* A frame has one user: the pool, one page, or the fault that is about to enter
\* it; and a page is in its frame or in swap, never in both.
FramesExclusive ==
  /\ \A v, w \in Pages : v # w /\ pt_get_pa(pt, v) # 0 => pt_get_pa(pt, v) # pt_get_pa(pt, w)
  /\ \A v \in Pages : pt_get_pa(pt, v) \notin pool /\ (Out(v) => pt_get_pa(pt, v) = 0)
  /\ stopped \/ Frames \subseteq pool \cup {pt_get_pa(pt, v) : v \in Pages} \cup {fault.frame}

\* The identities print_all_statistics warns about hold whenever no fault is
\* being handled, whichever way the faults went.
StatisticsConsistent ==
  fault = NoFault /\ ~stopped => balance = [faults |-> 0, sources |-> 0, disk |-> 0]

\* A page filled from the executable gets the bytes its segment says, and no
\* byte outside the frame is written: for every segment that starts on a page
\* boundary, every page of it and every address of the page the fault may be at.
\* (A constant fact, evaluated where no program runs.)
LoadExact == image = NoImage =>
  \A memsz \in 1..3*PageSize, offset \in {0, 5} : \A filesz \in 0..memsz :
    LET seg == Segment(2 * PageSize, memsz, filesz, offset, {"R", "W"}) IN
    \A va \in seg.vaddr..seg.vaddr+memsz-1 :
      LET plan == LoadPlan(seg, va) IN
      /\ LoadAsserts(seg, va)
      /\ plan.dest + plan.len <= PageSize
      /\ \A o \in 0..PageSize-1 :
           ByteLoaded(plan, o) = ByteWanted(seg, PageOf(va) * PageSize + o)

\* The executables for which seg_load_page's assertion never fails: it does for
\* an address just past a segment that ends on a page boundary, which
\* as_get_segment counts to the segment.
ImagesFit == \A img \in Images, va \in 0..UserStack-1 :
  \A seg \in as_get_segment(img, va) : seg = stack \/ LoadAsserts(seg, va)

\* A fault of a copy that cannot be handled ends the copy, not the kernel, and
\* only a copy is excused that way: tm_badfaultfunc is set while one runs.
CopyRecovers ==
  /\ badfault <=> access.kind \in {"copyin", "copyout"}
  /\ stopped => ~badfault

\* The program cannot see the paging: what it reads in a page is what it stored
\* there last, or the segment's content; only a store to the page changes it.
Content(v) ==
  IF Out(v) THEN swapped[v]
  ELSE IF pt_get_pa(pt, v) = 0 \/ (fault.page = v /\ fault.pc = "load") THEN FreshContent(v)
  ELSE mem[pt_get_pa(pt, v)]
PagingInvisible == [][Live /\ Live' => \A v \in Pages :
  Content(v)' = Content(v) \/ (Writes /\ Page = v /\ Content(v)' = Stored(v))]_vars

\* The translations a program runs with, the frames behind them and the counts
\* of what was done to get them are right in every state of a fault.
PagingSound == TypeOK /\ TlbSound /\ FramesExclusive /\ StatisticsConsistent
=============================================================================
