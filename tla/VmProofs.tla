----------------------------- MODULE VmProofs -----------------------------
(***************************************************************************)
(* Theorems of Vm, for any pages, frames, CPUs, TLB slots, executables and *)
(* addresses.  The page-table lemmas say what the getters return after     *)
(* each setter; the invariant IInv says, for each place vm_fault can wait  *)
(* at, who has the frame in its hands; PagingInvisible follows action by   *)
(* action from it.                                                         *)
(***************************************************************************)
EXTENDS Vm, TLAPS

(* What the variables can hold.                                            *)
Contents == (Pages \cup {-1}) \X {"fresh", "stored", "zero", "junk"}
PageEntries ==
  {Unused} \cup [valid : {TRUE}, pfn : Frames \cup {PFN_NOT_USED}, swap_offset : Pages \cup {NotSwapped}]
InnerTables == [0..SizeInner-1 -> PageEntries]
Tables == [0..SizeOuter-1 -> InnerTables \cup {NoInner}]
Slots == 0..NumTlb-1
Entries == [page : Pages, frame : Frames, dirty : BOOLEAN] \cup {Invalid}
Pcs == {"none", "alloc", "swapout", "evicted", "swapin", "load", "tlb"}

Types ==
  /\ image \in Images \cup {NoImage}
  /\ pt \in Tables
  /\ swapped \in [Pages -> Contents]
  /\ mem \in [Frames -> Contents]
  /\ pool \subseteq Frames
  /\ tlb \in [Cpus -> [Slots -> Entries]]
  /\ victim \in Slots
  /\ cpu \in Cpus
  /\ badfault \in BOOLEAN /\ stopped \in BOOLEAN
  /\ access \in [kind : {"none", "load", "store", "copyin", "copyout"},
                 va : 0..UserStack-1, end : 0..UserStack]
  /\ fault \in [pc : Pcs, page : Pages, frame : Frames \cup {0}]
  /\ balance \in [faults : Int, sources : Int, disk : Int]

\* An access in progress has bytes left, and a copy is one iff recovery is set.
Accessing ==
  /\ access = None \/ (access.kind # "none" /\ access.va < access.end)
  /\ badfault <=> access.kind \in {"copyin", "copyout"}
\* Between two programs nothing is mapped and nothing is going on.
Idle == image = NoImage => pt = pt_create /\ access = None /\ fault = NoFault

\* A frame no page of the program is in.
Unmapped(f) == \A v \in Pages : pt_get_pa(pt, v) # f
\* Where vm_fault is: the page it is for, that no entry of this CPU maps it, and
\* who has the frame in its hands at each wait.
Faulting == fault # NoFault =>
  /\ fault.pc # "none" /\ access # None /\ fault.page = Page
  /\ as_get_segment(image, access.va) # {}
  /\ \A s \in Slots : tlb[cpu][s].page # fault.page
  /\ fault.pc \in {"alloc", "swapout", "evicted", "swapin"} => pt_get_pa(pt, fault.page) = 0
  /\ fault.pc = "alloc" => fault.frame = 0
  /\ fault.pc = "swapout" => \E v \in Pages :
       pt_get_pa(pt, v) = fault.frame /\ fault.frame \in Frames /\ swapped[v] = mem[fault.frame]
  /\ fault.pc \in {"evicted", "swapin"} => fault.frame \in Frames \ pool /\ Unmapped(fault.frame)
  /\ fault.pc = "swapin" => Out(fault.page)
  /\ fault.pc \in {"load", "tlb"} => fault.frame \in Frames /\ pt_get_pa(pt, fault.page) = fault.frame
  /\ fault.pc = "load" => Seg(access.va) # stack

\* The entries of the CPU the program runs on.
Translates(s) == LET e == tlb[cpu][s] IN e # Invalid =>
  /\ e.frame = pt_get_pa(pt, e.page)
  /\ \A t \in Slots : tlb[cpu][t].page = e.page => t = s
  /\ e.dirty => \E seg \in {image.code, image.data, stack} :
       Writable(seg) /\ e.page \in PageOf(seg.vaddr)..PageOf(seg.vaddr + seg.memsz)
Translating == Live => \A s \in Slots : Translates(s)

\* What the faults have counted so far; a failing load in a copy breaks it.
Counted == TRUE \notin LoadFails /\ ~stopped =>
  /\ balance.faults = 0 /\ balance.disk = 0
  /\ balance.sources = IF fault.pc = "tlb" THEN -1 ELSE 0
Recovering == ImagesFit => (stopped => ~badfault)

IInv == /\ Types /\ Accessing /\ Idle /\ Faulting /\ Translating
        /\ FramesExclusive /\ Counted /\ Recovering
-----------------------------------------------------------------------------
(* The page table.                                                         *)

\* The quotient of a number below m * n by n is below m.
LEMMA QuotientBound == ASSUME NEW n \in Nat \ {0}, NEW m \in Nat, NEW a \in Nat, a < m * n
  PROVE a \div n < m /\ a \div n \in Nat /\ a % n \in 0..n-1
OBVIOUS

\* Quotient and remainder determine the number.
LEMMA SameQuotientAndRemainder ==
  ASSUME NEW n \in Nat \ {0}, NEW a \in Nat, NEW b \in Nat, a \div n = b \div n, a % n = b % n
  PROVE a = b
<1>1. \A x \in Nat : x = n * (x \div n) + (x % n)
  OBVIOUS
<1> QED BY <1>1

\* A later address is on no earlier page.
LEMMA QuotientMonotone ==
  ASSUME NEW n \in Nat \ {0}, NEW a \in Int, NEW b \in Int, a <= b
  PROVE a \div n <= b \div n
OBVIOUS

\* Every page of user space has its place in the two-level table.
LEMMA PagesFit == \A v \in Pages :
  /\ v \in Nat
  /\ get_outer_index(v) \in 0..SizeOuter-1
  /\ get_inner_index(v) \in 0..SizeInner-1
<1>1. PageOf(UserStack) \in Nat
  BY VmAssumption DEF PageOf
<1> SUFFICES ASSUME NEW v \in Pages
             PROVE  v \in Nat /\ get_outer_index(v) \in 0..SizeOuter-1
                    /\ get_inner_index(v) \in 0..SizeInner-1
  OBVIOUS
<1>2. v \in Nat /\ v < PageOf(UserStack)
  BY <1>1 DEF Pages
<1>3. SizeOuter * SizeInner \in Nat
  BY VmAssumption
<1>4. v < SizeOuter * SizeInner
  BY <1>1, <1>2, <1>3, VmAssumption
<1>5. v \div SizeInner < SizeOuter /\ v \div SizeInner \in Nat /\ v % SizeInner \in 0..SizeInner-1
  BY <1>2, <1>4, VmAssumption, QuotientBound
<1> QED BY <1>2, <1>5, VmAssumption DEF get_outer_index, get_inner_index

\* A missing inner table is told from one that exists.
LEMMA NoInnerIsNone == \A inner \in InnerTables : inner # NoInner
<1> SUFFICES ASSUME NEW inner \in InnerTables, inner = NoInner PROVE FALSE
  OBVIOUS
<1>1. 0 \in DOMAIN inner
  BY VmAssumption DEF InnerTables
<1>2. DOMAIN inner = {}
  BY DEF NoInner
<1> QED BY <1>1, <1>2

\* pt_define_inner changes no entry of any page.
LEMMA DefineInner ==
  ASSUME NEW t \in Tables, NEW v \in Pages
  PROVE  LET d == pt_define_inner(t, v) IN
         /\ d \in Tables /\ d[get_outer_index(v)] \in InnerTables
         /\ \A w \in Pages : Entry(d, w) = Entry(t, w)
<1> DEFINE d == pt_define_inner(t, v)
           new == [i \in 0..SizeInner-1 |-> Unused]
<1>1. get_outer_index(v) \in 0..SizeOuter-1
  BY PagesFit
<1>2. new \in InnerTables
  BY DEF InnerTables, PageEntries
<1>3. CASE t[get_outer_index(v)] # NoInner
  <2>1. d = t
    BY <1>3 DEF pt_define_inner
  <2>2. t[get_outer_index(v)] \in InnerTables
    BY <1>1, <1>3 DEF Tables
  <2> QED BY <2>1, <2>2
<1>4. CASE t[get_outer_index(v)] = NoInner
  <2>1. d = [t EXCEPT ![get_outer_index(v)] = new]
    BY <1>4 DEF pt_define_inner
  <2>2. d \in Tables /\ d[get_outer_index(v)] = new
    BY <2>1, <1>1, <1>2 DEF Tables
  <2>3. ASSUME NEW w \in Pages PROVE Entry(d, w) = Entry(t, w)
    <3>1. get_outer_index(w) \in 0..SizeOuter-1 /\ get_inner_index(w) \in 0..SizeInner-1
      BY PagesFit
    <3>2. CASE get_outer_index(w) = get_outer_index(v)
      <4>1. d[get_outer_index(w)] = new /\ t[get_outer_index(w)] = NoInner
        BY <2>2, <3>2, <1>4
      <4>2. new # NoInner
        BY <1>2, NoInnerIsNone
      <4>3. new[get_inner_index(w)] = Unused
        BY <3>1
      <4>4. Entry(d, w) = Unused
        BY <4>1, <4>2, <4>3 DEF Entry
      <4>5. Entry(t, w) = Unused
        BY <4>1 DEF Entry
      <4> QED BY <4>4, <4>5
    <3>3. CASE get_outer_index(w) # get_outer_index(v)
      <4>1. d[get_outer_index(w)] = t[get_outer_index(w)]
        BY <2>1, <3>1, <3>3 DEF Tables
      <4> QED BY <4>1 DEF Entry
    <3> QED BY <3>2, <3>3
  <2> QED BY <2>2, <2>3, <1>2
<1> QED BY <1>3, <1>4

\* What an entry can be.
LEMMA EntryFields ==
  ASSUME NEW e \in PageEntries
  PROVE  /\ e \in [valid : BOOLEAN, pfn : Frames \cup {PFN_NOT_USED}, swap_offset : Pages \cup {NotSwapped}]
         /\ e.pfn \in Frames \cup {PFN_NOT_USED}
         /\ e.swap_offset \in Pages \cup {NotSwapped}
<1>1. CASE e = Unused
  BY <1>1 DEF Unused
<1>2. CASE e \in [valid : {TRUE}, pfn : Frames \cup {PFN_NOT_USED}, swap_offset : Pages \cup {NotSwapped}]
  BY <1>2
<1> QED BY <1>1, <1>2 DEF PageEntries

LEMMA EntryType ==
  ASSUME NEW t \in Tables, NEW v \in Pages
  PROVE  /\ Entry(t, v) \in PageEntries
         /\ pt_get_pa(t, v) \in Frames \cup {PFN_NOT_USED}
         /\ pt_get_offset(t, v) \in Pages \cup {NotSwapped}
<1>1. get_outer_index(v) \in 0..SizeOuter-1 /\ get_inner_index(v) \in 0..SizeInner-1
  BY PagesFit
<1>2. t[get_outer_index(v)] \in InnerTables \cup {NoInner}
  BY <1>1 DEF Tables
<1>3. Entry(t, v) \in PageEntries
  <2>1. CASE t[get_outer_index(v)] = NoInner
    BY <2>1 DEF Entry, PageEntries
  <2>2. CASE t[get_outer_index(v)] \in InnerTables
    <3>1. t[get_outer_index(v)][get_inner_index(v)] \in PageEntries
      BY <2>2, <1>1 DEF InnerTables
    <3>2. Entry(t, v) \in {t[get_outer_index(v)][get_inner_index(v)], Unused}
      BY <2>2 DEF Entry
    <3> QED BY <3>1, <3>2 DEF PageEntries
  <2> QED BY <1>2, <2>1, <2>2
<1> QED BY <1>3, EntryFields DEF pt_get_pa, pt_get_offset

\* An entry that is read back, whichever of the two kinds it is.
LEMMA ReadEntry ==
  ASSUME NEW t \in Tables, NEW v \in Pages, t[get_outer_index(v)] \in InnerTables
  PROVE  LET e == t[get_outer_index(v)][get_inner_index(v)] IN
         e \in PageEntries /\ Entry(t, v) = e
<1> DEFINE e == t[get_outer_index(v)][get_inner_index(v)]
<1>1. e \in PageEntries
  BY PagesFit DEF InnerTables
<1>2. t[get_outer_index(v)] # NoInner
  BY NoInnerIsNone
<1>3. Entry(t, v) = IF e.valid THEN e ELSE Unused
  BY <1>2 DEF Entry
<1>4. e = Unused \/ e.valid = TRUE
  BY <1>1 DEF PageEntries
<1>5. CASE e = Unused
  BY <1>3, <1>5, <1>1
<1>6. CASE e.valid = TRUE
  BY <1>3, <1>6, <1>1
<1> QED BY <1>4, <1>5, <1>6

\* The two setters change the entry of their page, and of it one column.
LEMMA ReplaceEntry ==
  ASSUME NEW t \in Tables, NEW v \in Pages, t[get_outer_index(v)] \in InnerTables,
         NEW e \in PageEntries
  PROVE  LET u == [t EXCEPT ![get_outer_index(v)][get_inner_index(v)] = e] IN
         /\ u \in Tables
         /\ \A w \in Pages : Entry(u, w) = IF w = v THEN e ELSE Entry(t, w)
<1> DEFINE o == get_outer_index(v)
           i == get_inner_index(v)
           inner == [t[o] EXCEPT ![i] = e]
           u == [t EXCEPT ![o][i] = e]
<1>1. o \in 0..SizeOuter-1 /\ i \in 0..SizeInner-1
  BY PagesFit
<1>2. inner \in InnerTables /\ inner[i] = e
  BY <1>1 DEF InnerTables
<1>3. u = [t EXCEPT ![o] = inner]
  OBVIOUS
<1>4. u \in Tables /\ u[o] = inner
  BY <1>1, <1>2, <1>3 DEF Tables
<1>5. Entry(u, v) = e
  BY <1>2, <1>4, ReadEntry
<1>6. ASSUME NEW w \in Pages, w # v PROVE Entry(u, w) = Entry(t, w)
  <2>1. get_outer_index(w) \in 0..SizeOuter-1 /\ get_inner_index(w) \in 0..SizeInner-1
    BY PagesFit
  <2>2. CASE get_outer_index(w) = o
    <3>1. get_inner_index(w) # i
      BY <1>6, <2>2, PagesFit, VmAssumption, SameQuotientAndRemainder
         DEF get_outer_index, get_inner_index
    <3>2. u[get_outer_index(w)][get_inner_index(w)] = t[get_outer_index(w)][get_inner_index(w)]
      BY <1>4, <2>1, <2>2, <3>1 DEF InnerTables
    <3>3. u[get_outer_index(w)] \in InnerTables /\ t[get_outer_index(w)] \in InnerTables
      BY <1>2, <1>4, <2>2
    <3> QED BY <1>4, <3>2, <3>3, ReadEntry
  <2>3. CASE get_outer_index(w) # o
    <3>1. u[get_outer_index(w)] = t[get_outer_index(w)]
      BY <1>3, <2>1, <2>3 DEF Tables
    <3> QED BY <3>1 DEF Entry
  <2> QED BY <2>2, <2>3
<1> QED BY <1>4, <1>5, <1>6

\* pt_set_pa changes the frame of its page and nothing else.
LEMMA SetPa ==
  ASSUME NEW t \in Tables, NEW v \in Pages, NEW pa \in Frames \cup {PFN_NOT_USED}
  PROVE  LET u == pt_set_pa(t, v, pa) IN
         /\ u \in Tables
         /\ \A w \in Pages : /\ pt_get_pa(u, w) = IF w = v THEN pa ELSE pt_get_pa(t, w)
                             /\ pt_get_offset(u, w) = pt_get_offset(t, w)
<1> DEFINE d == pt_define_inner(t, v)
           old == d[get_outer_index(v)][get_inner_index(v)]
           e == [old EXCEPT !.valid = TRUE, !.pfn = pa]
           u == pt_set_pa(t, v, pa)
<1>1. d \in Tables /\ d[get_outer_index(v)] \in InnerTables
      /\ \A w \in Pages : Entry(d, w) = Entry(t, w)
  BY DefineInner
<1>2. old \in PageEntries /\ Entry(d, v) = old
  BY <1>1, ReadEntry
<1>3. e \in PageEntries /\ e.pfn = pa /\ e.swap_offset = old.swap_offset
  <2> HIDE DEF old
  <2>1. old \in [valid : BOOLEAN, pfn : Frames \cup {PFN_NOT_USED}, swap_offset : Pages \cup {NotSwapped}]
    BY <1>2, EntryFields
  <2>2. /\ e \in [valid : BOOLEAN, pfn : Frames \cup {PFN_NOT_USED}, swap_offset : Pages \cup {NotSwapped}]
        /\ e.valid = TRUE /\ e.pfn = pa /\ e.swap_offset = old.swap_offset
    BY <2>1
  <2> HIDE DEF e
  <2> QED BY <2>2 DEF PageEntries
<1>4. u = [d EXCEPT ![get_outer_index(v)][get_inner_index(v)] = e]
  <2> HIDE DEF d
  <2> QED BY DEF pt_set_pa, d
<1>5. u \in Tables /\ \A w \in Pages : Entry(u, w) = IF w = v THEN e ELSE Entry(d, w)
  <2> HIDE DEF e, d, u
  <2>1. \A x \in PageEntries :
          LET r == [d EXCEPT ![get_outer_index(v)][get_inner_index(v)] = x] IN
          r \in Tables /\ \A w \in Pages : Entry(r, w) = IF w = v THEN x ELSE Entry(d, w)
    BY <1>1, ReplaceEntry
  <2> QED BY <1>3, <1>4, <2>1
<1>6. ASSUME NEW w \in Pages
      PROVE  /\ pt_get_pa(u, w) = IF w = v THEN pa ELSE pt_get_pa(t, w)
             /\ pt_get_offset(u, w) = pt_get_offset(t, w)
  <2> HIDE DEF e, d, u, old
  <2> QED BY <1>1, <1>2, <1>3, <1>5 DEF pt_get_pa, pt_get_offset
<1> QED BY <1>5, <1>6

\* pt_set_offset changes the slot of its page and nothing else.
LEMMA SetOffset ==
  ASSUME NEW t \in Tables, NEW v \in Pages, NEW offset \in Pages \cup {NotSwapped}
  PROVE  LET u == pt_set_offset(t, v, offset) IN
         /\ u \in Tables
         /\ \A w \in Pages : /\ pt_get_offset(u, w) = IF w = v THEN offset ELSE pt_get_offset(t, w)
                             /\ pt_get_pa(u, w) = pt_get_pa(t, w)
<1> DEFINE d == pt_define_inner(t, v)
           old == d[get_outer_index(v)][get_inner_index(v)]
           e == [old EXCEPT !.valid = TRUE, !.swap_offset = offset]
           u == pt_set_offset(t, v, offset)
<1>1. d \in Tables /\ d[get_outer_index(v)] \in InnerTables
      /\ \A w \in Pages : Entry(d, w) = Entry(t, w)
  BY DefineInner
<1>2. old \in PageEntries /\ Entry(d, v) = old
  BY <1>1, ReadEntry
<1>3. e \in PageEntries /\ e.swap_offset = offset /\ e.pfn = old.pfn
  <2> HIDE DEF old
  <2>1. old \in [valid : BOOLEAN, pfn : Frames \cup {PFN_NOT_USED}, swap_offset : Pages \cup {NotSwapped}]
    BY <1>2, EntryFields
  <2>2. /\ e \in [valid : BOOLEAN, pfn : Frames \cup {PFN_NOT_USED}, swap_offset : Pages \cup {NotSwapped}]
        /\ e.valid = TRUE /\ e.pfn = old.pfn /\ e.swap_offset = offset
    BY <2>1
  <2> HIDE DEF e
  <2> QED BY <2>2 DEF PageEntries
<1>4. u = [d EXCEPT ![get_outer_index(v)][get_inner_index(v)] = e]
  <2> HIDE DEF d
  <2> QED BY DEF pt_set_offset, d
<1>5. u \in Tables /\ \A w \in Pages : Entry(u, w) = IF w = v THEN e ELSE Entry(d, w)
  <2> HIDE DEF e, d, u
  <2>1. \A x \in PageEntries :
          LET r == [d EXCEPT ![get_outer_index(v)][get_inner_index(v)] = x] IN
          r \in Tables /\ \A w \in Pages : Entry(r, w) = IF w = v THEN x ELSE Entry(d, w)
    BY <1>1, ReplaceEntry
  <2> QED BY <1>3, <1>4, <2>1
<1>6. ASSUME NEW w \in Pages
      PROVE  /\ pt_get_offset(u, w) = IF w = v THEN offset ELSE pt_get_offset(t, w)
             /\ pt_get_pa(u, w) = pt_get_pa(t, w)
  <2> HIDE DEF e, d, u, old
  <2> QED BY <1>1, <1>2, <1>3, <1>5 DEF pt_get_pa, pt_get_offset
<1> QED BY <1>5, <1>6

\* The two columns of one page, set together as the eviction and swap_in do.
LEMMA BothColumns ==
  ASSUME NEW t \in Tables, NEW v \in Pages, NEW offset \in Pages \cup {NotSwapped},
         NEW pa \in Frames \cup {PFN_NOT_USED}
  PROVE  LET u == pt_set_pa(pt_set_offset(t, v, offset), v, pa) IN
         /\ u \in Tables
         /\ \A w \in Pages :
              /\ pt_get_pa(u, w) = IF w = v THEN pa ELSE pt_get_pa(t, w)
              /\ pt_get_offset(u, w) = IF w = v THEN offset ELSE pt_get_offset(t, w)
<1> DEFINE d == pt_set_offset(t, v, offset)
<1>1. /\ d \in Tables
      /\ \A w \in Pages : /\ pt_get_offset(d, w) = IF w = v THEN offset ELSE pt_get_offset(t, w)
                          /\ pt_get_pa(d, w) = pt_get_pa(t, w)
  BY SetOffset
<1> HIDE DEF d
<1>2. LET u == pt_set_pa(d, v, pa) IN
      /\ u \in Tables
      /\ \A w \in Pages :
           /\ pt_get_pa(u, w) = IF w = v THEN pa ELSE pt_get_pa(t, w)
           /\ pt_get_offset(u, w) = IF w = v THEN offset ELSE pt_get_offset(t, w)
  BY <1>1, SetPa
<1> QED BY <1>2 DEF d

\* A new table maps nothing.
LEMMA NewTable ==
  /\ pt_create \in Tables
  /\ \A v \in Pages : pt_get_pa(pt_create, v) = 0 /\ pt_get_offset(pt_create, v) = NotSwapped
<1>1. pt_create \in Tables
  BY DEF pt_create, Tables
<1>2. ASSUME NEW v \in Pages PROVE Entry(pt_create, v) = Unused
  BY PagesFit DEF pt_create, Entry
<1> QED BY <1>1, <1>2 DEF pt_get_pa, pt_get_offset, Unused, PFN_NOT_USED

\* pt_destroy frees every frame a page has, and nothing that is none.
LEMMA DestroyFrees ==
  ASSUME NEW t \in Tables
  PROVE  /\ pt_destroy(t) \subseteq Frames \cup {PFN_NOT_USED}
         /\ \A v \in Pages : pt_get_pa(t, v) # 0 => pt_get_pa(t, v) \in pt_destroy(t)
<1>1. ASSUME NEW f \in pt_destroy(t) PROVE f \in Frames \cup {PFN_NOT_USED}
  <2>1. PICK o \in DOMAIN t : f \in pt_destroy_inner(t[o])
    BY <1>1 DEF pt_destroy
  <2>2. PICK i \in DOMAIN t[o] : f = t[o][i].pfn
    BY <2>1 DEF pt_destroy_inner
  <2>3. t[o] \in InnerTables
    <3>1. t[o] # NoInner
      BY <2>2 DEF NoInner
    <3> QED BY <3>1 DEF Tables
  <2>4. t[o][i] \in PageEntries
    BY <2>2, <2>3 DEF InnerTables
  <2> QED BY <2>2, <2>4, EntryFields
<1>2. ASSUME NEW v \in Pages, pt_get_pa(t, v) # 0 PROVE pt_get_pa(t, v) \in pt_destroy(t)
  <2> DEFINE o == get_outer_index(v)
             i == get_inner_index(v)
  <2>1. o \in 0..SizeOuter-1 /\ i \in 0..SizeInner-1
    BY PagesFit
  <2>2. t[o] # NoInner /\ t[o][i].valid /\ pt_get_pa(t, v) = t[o][i].pfn
    BY <1>2 DEF pt_get_pa, Entry, Unused, PFN_NOT_USED
  <2>3. t[o] \in InnerTables
    BY <2>1, <2>2 DEF Tables
  <2>4. o \in DOMAIN t /\ i \in DOMAIN t[o]
    BY <2>1, <2>3 DEF Tables, InnerTables
  <2>5. t[o][i].pfn \in pt_destroy_inner(t[o])
    BY <2>2, <2>4 DEF pt_destroy_inner
  <2> HIDE DEF o, i
  <2> QED BY <2>2, <2>4, <2>5 DEF pt_destroy
<1> QED BY <1>1, <1>2

-----------------------------------------------------------------------------
(* The invariant.                                                          *)

\* The machine starts in the invariant.
LEMMA InitInv == ASSUME Init PROVE IInv
<1>1. Types
  <2>1. 0 \in Pages /\ 0 \in 0..UserStack-1 /\ 0 \in 0..UserStack
    <3>1. PageOf(UserStack) # 0 /\ PageOf(UserStack) \in Nat
      <4>1. UserStack = PageSize * (UserStack \div PageSize) + (UserStack % PageSize)
        BY VmAssumption
      <4>2. UserStack \div PageSize \in Nat
        BY VmAssumption
      <4>3. PageSize * 0 = 0
        BY VmAssumption
      <4> QED BY <4>1, <4>2, <4>3, VmAssumption DEF PageOf
    <3> QED BY <3>1, VmAssumption DEF Pages
  <2>2. Zeroes \in Contents /\ Junk \in Contents
    BY DEF Contents, Zeroes, Junk
  <2>3. NoTlb \in [Slots -> Entries] /\ 0 \in Slots
    BY VmAssumption DEF NoTlb, Slots, Entries
  <2>4. access \in [kind : {"none", "load", "store", "copyin", "copyout"},
                    va : 0..UserStack-1, end : 0..UserStack]
    BY <2>1 DEF Init, None
  <2>5. fault \in [pc : Pcs, page : Pages, frame : Frames \cup {0}]
    BY <2>1 DEF Init, NoFault, Pcs
  <2>6. tlb \in [Cpus -> [Slots -> Entries]]
    BY <2>3 DEF Init
  <2>7. swapped \in [Pages -> Contents] /\ mem \in [Frames -> Contents]
    BY <2>2 DEF Init
  <2>8. balance \in [faults : Int, sources : Int, disk : Int]
    BY DEF Init
  <2>9. /\ image \in Images \cup {NoImage} /\ pt \in Tables /\ pool \subseteq Frames
        /\ victim \in Slots /\ cpu \in Cpus /\ badfault \in BOOLEAN /\ stopped \in BOOLEAN
    BY <2>3, NewTable DEF Init
  <2> QED BY <2>4, <2>5, <2>6, <2>7, <2>8, <2>9 DEF Types
<1>2. Accessing /\ Idle /\ Faulting /\ Translating /\ Recovering
  BY DEF Init, Accessing, Idle, Faulting, Translating, Recovering, Live, None
<1>3. FramesExclusive
  BY <1>1, NewTable, VmAssumption DEF Init, FramesExclusive, Out, NotSwapped
<1>4. Counted
  BY DEF Init, Counted, NoFault
<1> QED BY <1>1, <1>2, <1>3, <1>4 DEF IInv

\* The page an access is at is a page of user space.
LEMMA PageInSpace == ASSUME Types PROVE Page \in Pages
<1>1. access.va \in Nat /\ access.va < UserStack
  BY VmAssumption DEF Types
<1>2. UserStack = (UserStack \div PageSize) * PageSize /\ UserStack \div PageSize \in Nat
  BY VmAssumption
<1>3. access.va \div PageSize < UserStack \div PageSize /\ access.va \div PageSize \in Nat
  BY <1>1, <1>2, VmAssumption, QuotientBound
<1> QED BY <1>2, <1>3 DEF Page, Pages, PageOf

\* The segment vm_fault found has the address in it, its end included.
LEMMA SegKnown ==
  ASSUME as_get_segment(image, access.va) # {}
  PROVE  /\ Seg(access.va) \in as_get_segment(image, access.va)
         /\ Seg(access.va) \in {image.code, image.data, stack}
         /\ Seg(access.va).vaddr <= access.va
         /\ access.va <= Seg(access.va).vaddr + Seg(access.va).memsz
<1>1. Seg(access.va) \in as_get_segment(image, access.va)
  BY DEF Seg
<1> QED BY <1>1 DEF as_get_segment

\* Doing nothing keeps the invariant.
LEMMA StutterStep == ASSUME IInv, UNCHANGED vars PROVE IInv'
<1>1. Types'
  BY DEF IInv, Types, vars, machine
<1>2. (Accessing /\ Idle /\ Counted /\ Recovering)'
  BY DEF IInv, Accessing, Idle, Counted, Recovering, vars, machine
<1>3. Faulting'
  BY DEF IInv, Faulting, vars, machine, Unmapped, Out, Page, Seg
<1>4. Translating'
  BY DEF IInv, Translating, Translates, Live, vars, machine
<1>5. FramesExclusive'
  BY DEF IInv, FramesExclusive, Out, vars, machine
<1> QED BY <1>1, <1>2, <1>3, <1>4, <1>5 DEF IInv

\* A CPU that has just run as_activate translates nothing, so nothing wrong.
LEMMA Activated ==
  ASSUME Types, NEW c \in Cpus, as_activate(c), NEW d \in Cpus
  PROVE  /\ tlb' \in [Cpus -> [Slots -> Entries]]
         /\ \A s \in Slots : tlb'[c][s] = Invalid /\ tlb'[c][s].page \notin Pages
<1>1. NoTlb \in [Slots -> Entries] /\ \A s \in Slots : NoTlb[s] = Invalid
  BY DEF NoTlb, Slots, Entries
<1>2. tlb' = [tlb EXCEPT ![c] = NoTlb] /\ tlb \in [Cpus -> [Slots -> Entries]]
  BY DEF Types, as_activate
<1>3. tlb' \in [Cpus -> [Slots -> Entries]] /\ tlb'[c] = NoTlb
  BY <1>1, <1>2
<1>4. Invalid.page \notin Pages
  BY VmAssumption DEF Invalid, Pages
<1> QED BY <1>1, <1>3, <1>4

\* A program starts with an empty table and an empty TLB.
LEMMA RunprogramStep ==
  ASSUME IInv, NEW img \in Images, runprogram(img) PROVE IInv'
<1>1. cpu \in Cpus /\ cpu' = cpu
  BY DEF IInv, Types, runprogram
<1>2. /\ tlb' \in [Cpus -> [Slots -> Entries]]
      /\ \A s \in Slots : tlb'[cpu][s] = Invalid /\ tlb'[cpu][s].page \notin Pages
  BY <1>1, Activated DEF IInv, runprogram
<1>3. pt' = pt_create /\ image' = img /\ image = NoImage
  BY DEF runprogram, as_create
<1>4. pt = pt_create /\ access = None /\ fault = NoFault
  BY <1>3 DEF IInv, Idle
<1>5. UNCHANGED <<swapped, mem, pool, victim, cpu, access, badfault, fault, balance, stopped>>
  BY DEF runprogram
<1>6. Types'
  BY <1>2, <1>3, <1>5, NewTable DEF IInv, Types
<1>7. (Accessing /\ Counted /\ Recovering)'
  BY <1>5 DEF IInv, Accessing, Counted, Recovering
<1>8. Idle' /\ Faulting'
  BY <1>3, <1>4, <1>5, VmAssumption DEF Idle, Faulting
<1>9. Translating'
  BY <1>1, <1>2 DEF Translating, Translates
<1>10. FramesExclusive'
  BY <1>3, <1>4, <1>5 DEF IInv, FramesExclusive, Out
<1> QED BY <1>6, <1>7, <1>8, <1>9, <1>10 DEF IInv

\* The thread comes back on a CPU whose TLB as_activate emptied.
LEMMA SwitchStep ==
  ASSUME IInv, NEW c \in Cpus, thread_switch(c) PROVE IInv'
<1>1. cpu' = c /\ Live /\ Sleeping
  BY DEF thread_switch
<1>2. /\ tlb' \in [Cpus -> [Slots -> Entries]]
      /\ \A s \in Slots : tlb'[c][s] = Invalid /\ tlb'[c][s].page \notin Pages
  BY Activated DEF IInv, thread_switch
<1>3. UNCHANGED <<image, pt, swapped, mem, pool, victim, access, badfault, fault, balance, stopped>>
  BY DEF thread_switch
<1>4. Types'
  BY <1>1, <1>2, <1>3 DEF IInv, Types
<1>5. (Accessing /\ Idle /\ Counted /\ Recovering)'
  BY <1>3 DEF IInv, Accessing, Idle, Counted, Recovering
<1>6. Faulting'
  <2>1. fault.page \in Pages
    BY DEF IInv, Types
  <2> QED BY <1>1, <1>2, <1>3, <2>1 DEF IInv, Faulting, Unmapped, Out, Page, Seg
<1>7. Translating'
  BY <1>1, <1>2 DEF Translating, Translates
<1>8. FramesExclusive'
  BY <1>3 DEF IInv, FramesExclusive, Out
<1> QED BY <1>4, <1>5, <1>6, <1>7, <1>8 DEF IInv

\* Whoever ends a program gives back every frame it had.
LEMMA DestroySound ==
  ASSUME IInv, fault = NoFault, ~stopped, as_destroy,
         UNCHANGED <<tlb, victim, cpu, fault, balance, stopped>>,
         access' = None, badfault' = FALSE
  PROVE  IInv'
<1>1. /\ image' = NoImage /\ pt' = pt_create
      /\ pool' = pool \cup (pt_destroy(pt) \ {0})
      /\ mem' = [f \in Frames |-> Junk] /\ swapped' = [v \in Pages |-> Zeroes]
  BY DEF as_destroy
<1>2. pt_destroy(pt) \subseteq Frames \cup {0} /\ pool \subseteq Frames
      /\ \A v \in Pages : pt_get_pa(pt, v) # 0 => pt_get_pa(pt, v) \in pt_destroy(pt)
  BY DestroyFrees DEF IInv, Types, PFN_NOT_USED
<1>3. Types'
  <2>1. Zeroes \in Contents /\ Junk \in Contents
    BY DEF Contents, Zeroes, Junk
  <2>2. swapped' \in [Pages -> Contents] /\ mem' \in [Frames -> Contents]
    BY <1>1, <2>1
  <2>3. access' \in [kind : {"none", "load", "store", "copyin", "copyout"},
                     va : 0..UserStack-1, end : 0..UserStack]
    BY VmAssumption DEF None
  <2>4. image' \in Images \cup {NoImage} /\ pt' \in Tables /\ pool' \subseteq Frames
    BY <1>1, <1>2, NewTable
  <2>5. /\ tlb' \in [Cpus -> [Slots -> Entries]] /\ victim' \in Slots /\ cpu' \in Cpus
        /\ badfault' \in BOOLEAN /\ stopped' \in BOOLEAN
        /\ fault' \in [pc : Pcs, page : Pages, frame : Frames \cup {0}]
        /\ balance' \in [faults : Int, sources : Int, disk : Int]
    BY DEF IInv, Types
  <2> QED BY <2>2, <2>3, <2>4, <2>5 DEF Types
<1>4. (Accessing /\ Idle /\ Faulting /\ Recovering /\ Translating)'
  BY <1>1 DEF Accessing, Idle, Faulting, Recovering, Translating, Live, None
<1>5. Counted'
  BY DEF IInv, Counted
<1>6. FramesExclusive'
  <2>1. ASSUME NEW v \in Pages PROVE pt_get_pa(pt', v) = 0 /\ pt_get_offset(pt', v) = NotSwapped
    BY <1>1, NewTable
  <2>2. 0 \notin pool'
    BY <1>1, <1>2, VmAssumption
  <2>3. Frames \subseteq pool'
    <3>1. fault.frame = 0
      BY DEF NoFault
    <3>2. ASSUME NEW f \in Frames PROVE f \in pool \/ f \in pt_destroy(pt)
      BY <1>2, <3>1, VmAssumption DEF IInv, FramesExclusive
    <3> QED BY <1>1, <3>2, VmAssumption
  <2> QED BY <2>1, <2>2, <2>3 DEF FramesExclusive, Out
<1> QED BY <1>3, <1>4, <1>5, <1>6 DEF IInv

\* The end of a program keeps the invariant ...
LEMMA ExitStep == ASSUME IInv, Exit PROVE IInv'
<1>1. fault = NoFault /\ ~stopped /\ access = None /\ badfault = FALSE
  BY DEF Exit, Resting, Live, IInv, Accessing, Types, None
<1> QED BY <1>1, DestroySound DEF Exit

\* ... also where a store to a read-only page ends it.
LEMMA ReadOnlyStep == ASSUME IInv, NEW s \in Slots, ReadOnly(s) PROVE IInv'
BY DestroySound DEF ReadOnly, Resting, Live

\* An access begins: it lies in user space, and is a copy iff the copy says so.
LEMMA AccessBegins ==
  ASSUME IInv, Live, UNCHANGED <<machine, fault, balance, stopped>>, fault = NoFault,
         NEW kind \in {"load", "store", "copyin", "copyout"},
         NEW va \in 0..UserStack-1, NEW end \in 0..UserStack, va < end,
         access' = [kind |-> kind, va |-> va, end |-> end],
         badfault' \in BOOLEAN, badfault' <=> kind \in {"copyin", "copyout"}
  PROVE  IInv'
<1>1. Types'
  BY DEF IInv, Types, machine
<1>2. Accessing'
  BY DEF Accessing
<1>3. Idle'
  BY DEF Live, Idle, machine
<1>4. Faulting' /\ Counted' /\ Recovering'
  BY DEF IInv, Faulting, Counted, Recovering, Live, machine
<1>5. Translating'
  BY DEF IInv, Translating, Translates, Live, machine
<1>6. FramesExclusive'
  BY DEF IInv, FramesExclusive, Out, machine
<1> QED BY <1>1, <1>2, <1>3, <1>4, <1>5, <1>6 DEF IInv

\* The program loads or stores a byte.
LEMMA UserAccessStep ==
  ASSUME IInv, NEW va \in Addrs, NEW kind \in {"load", "store"}, UserAccess(va, kind)
  PROVE  IInv'
<1>1. Live /\ fault = NoFault /\ access = None /\ va < UserStack
  BY DEF UserAccess, Resting
<1>2. badfault = FALSE
  BY <1>1 DEF IInv, Accessing, Types, None
<1>3. va \in Nat /\ UserStack \in Nat
  BY VmAssumption DEF AddrMod
<1>4. va \in 0..UserStack-1 /\ va + 1 \in 0..UserStack /\ va < va + 1
  BY <1>1, <1>3
<1>5. UNCHANGED <<machine, fault, balance, stopped>> /\ badfault' = badfault
      /\ access' = [kind |-> kind, va |-> va, end |-> va + 1]
  BY DEF UserAccess
<1> QED BY <1>1, <1>2, <1>4, <1>5, AccessBegins

\* What copycheck lets through: a start in user space and a length that stays there.
LEMMA CopycheckBounds ==
  ASSUME NEW va \in Addrs, NEW len \in Lengths, copycheck(va, len) > 0
  PROVE  /\ va \in 0..UserStack-1 /\ copycheck(va, len) \in Nat
         /\ va + copycheck(va, len) <= UserStack
<1> DEFINE top == (va + len - 1) % AddrMod
<1>1. va \in Nat /\ len \in Nat /\ AddrMod \in Nat /\ va < AddrMod /\ len < AddrMod
      /\ UserStack \in Nat /\ UserStack > 0 /\ UserStack < AddrMod
  BY VmAssumption DEF AddrMod
<1>2. ~(top < va \/ va >= UserStack)
  BY DEF copycheck
<1>3. copycheck(va, len) = IF top >= UserStack THEN UserStack - va ELSE len
  BY <1>2 DEF copycheck
<1>4. CASE va + len - 1 \in 0..AddrMod-1
  <2>1. top = va + len - 1
    BY <1>1, <1>4
  <2> QED BY <1>1, <1>2, <1>3, <2>1
<1>5. CASE va + len - 1 >= AddrMod
  <2>1. top = va + len - 1 - AddrMod
    <3>1. va + len - 1 - AddrMod \in 0..AddrMod-1
      BY <1>1, <1>5
    <3> QED BY <1>1, <1>5, <3>1
  <2> QED BY <1>1, <1>2, <2>1
<1>6. CASE va + len - 1 < 0
  <2>1. va = 0 /\ len = 0
    BY <1>1, <1>6
  <2>2. top \in 0..AddrMod-1
    BY <1>1
  <2>3. CASE top >= UserStack
    BY <1>1, <1>2, <1>3, <2>1, <2>3
  <2>4. CASE top < UserStack
    BY <1>1, <1>2, <1>3, <2>1, <2>4
  <2> QED BY <1>1, <2>2, <2>3, <2>4
<1> QED BY <1>1, <1>4, <1>5, <1>6

\* copyin and copyout begin within user space or not at all ...
LEMMA CopyStep ==
  ASSUME IInv, NEW va \in Addrs, NEW len \in Lengths, NEW kind \in {"copyin", "copyout"},
         copy(va, len, kind)
  PROVE  IInv'
<1>1. Live /\ fault = NoFault /\ copycheck(va, len) = len
  BY DEF copy, Resting
<1>2. len \in Nat /\ va \in Nat /\ UserStack \in Nat
  BY VmAssumption DEF AddrMod
<1>3. len > 0
  <2> SUFFICES ASSUME len = 0 PROVE FALSE
    BY <1>2
  <2>1. copycheck(va, 0) = 0
    BY <1>1
  <2>2. AddrMod \in Nat /\ UserStack < AddrMod /\ va < AddrMod /\ UserStack > 0
    BY VmAssumption DEF AddrMod
  <2>3. CASE va = 0
    <3>1. (va + 0 - 1) % AddrMod = AddrMod - 1
      BY <2>2, <2>3
    <3>2. copycheck(va, 0) = UserStack
      BY <1>2, <2>2, <2>3, <3>1 DEF copycheck
    <3> QED BY <2>1, <2>2, <3>2
  <2>4. CASE va > 0
    <3>1. (va + 0 - 1) % AddrMod = va - 1
      BY <1>2, <2>2, <2>4
    <3>2. copycheck(va, 0) = -1
      BY <1>2, <3>1 DEF copycheck
    <3> QED BY <2>1, <3>2
  <2> QED BY <1>2, <2>3, <2>4
<1>4. va \in 0..UserStack-1 /\ va + len \in 0..UserStack /\ va < va + len
  BY <1>1, <1>2, <1>3, CopycheckBounds
<1>5. UNCHANGED <<machine, fault, balance, stopped>> /\ badfault' = TRUE
      /\ access' = [kind |-> kind, va |-> va, end |-> va + len]
  BY DEF copy
<1> QED BY <1>1, <1>4, <1>5, AccessBegins

\* ... and so do copyinstr and copyoutstr, up to any page of the string.
LEMMA CopystrStep ==
  ASSUME IInv, NEW va \in Addrs, NEW len \in Lengths, NEW kind \in {"copyin", "copyout"},
         copystr(va, len, kind)
  PROVE  IInv'
<1> DEFINE max == LowerOf(len, copycheck(va, len))
<1>1. Live /\ fault = NoFault /\ max > 0
  BY DEF copystr, Resting
<1>2. len \in Nat /\ va \in Nat /\ UserStack \in Nat /\ PageSize \in Nat /\ PageSize > 0
  BY VmAssumption DEF AddrMod
<1>3. copycheck(va, len) > 0
  <2>1. copycheck(va, len) \in Int
    <3>1. AddrMod \in Nat \ {0} /\ (va + len - 1) % AddrMod \in Int
      BY <1>2, VmAssumption DEF AddrMod
    <3> QED BY <1>2, <3>1 DEF copycheck
  <2> QED BY <1>1, <1>2, <2>1 DEF LowerOf
<1>4. va \in 0..UserStack-1 /\ max \in Nat /\ va + max <= UserStack
  BY <1>2, <1>3, CopycheckBounds DEF LowerOf
<1>5. PICK p \in PageOf(va)..PageOf(va + max - 1) :
        access' = [kind |-> kind, va |-> va, end |-> LowerOf(va + max, (p + 1) * PageSize)]
  BY DEF copystr
<1> DEFINE end == LowerOf(va + max, (p + 1) * PageSize)
<1>6. va < (p + 1) * PageSize /\ (p + 1) * PageSize \in Nat
  <2>1. va = PageSize * (va \div PageSize) + (va % PageSize) /\ va % PageSize \in 0..PageSize-1
        /\ va \div PageSize \in Nat
    BY <1>2
  <2>2. PageOf(va + max - 1) \in Int
    BY <1>2, <1>4 DEF PageOf
  <2>3. p \in Nat /\ p >= va \div PageSize
    BY <2>1, <2>2 DEF PageOf
  <2>4. p * PageSize >= (va \div PageSize) * PageSize
    BY <1>2, <2>1, <2>3
  <2>5. (p + 1) * PageSize = p * PageSize + PageSize /\ p * PageSize \in Nat
    BY <1>2, <2>3
  <2> QED BY <1>2, <2>1, <2>3, <2>4, <2>5
<1>7. end \in 0..UserStack /\ va < end
  <2> HIDE DEF max
  <2> QED BY <1>1, <1>2, <1>4, <1>6 DEF LowerOf
<1>8. UNCHANGED <<machine, fault, balance, stopped>> /\ badfault' = TRUE
  BY DEF copystr
<1> HIDE DEF end, max
<1>9. access' = [kind |-> kind, va |-> va, end |-> end]
  BY <1>5 DEF end, max
<1> QED BY <1>1, <1>4, <1>7, <1>8, <1>9, AccessBegins

\* What an access is while pages of it remain, it still is on the next page.
LEMMA AdvanceSound ==
  ASSUME IInv, access # None, Advance
  PROVE  /\ access' \in [kind : {"none", "load", "store", "copyin", "copyout"},
                         va : 0..UserStack-1, end : 0..UserStack]
         /\ badfault' \in BOOLEAN
         /\ Accessing'
<1> DEFINE next == (Page + 1) * PageSize
           done == access.end <= next
<1>1. access' = (IF done THEN None ELSE [access EXCEPT !.va = next])
      /\ badfault' = (badfault /\ ~done)
  BY DEF Advance
<1>2. access.kind # "none" /\ access.va < access.end /\ badfault \in BOOLEAN
      /\ (badfault <=> access.kind \in {"copyin", "copyout"})
  BY DEF IInv, Accessing, Types
<1>3. access \in [kind : {"none", "load", "store", "copyin", "copyout"},
                  va : 0..UserStack-1, end : 0..UserStack]
  BY DEF IInv, Types
<1>4. next \in Nat
  <2>1. Page \in Nat
    BY PageInSpace, VmAssumption DEF IInv, Pages, PageOf
  <2> QED BY <2>1, VmAssumption
<1> HIDE DEF next
<1>5. CASE done
  <2>1. access' = None /\ badfault' = FALSE
    BY <1>1, <1>5
  <2>2. Accessing'
    BY <2>1 DEF None, Accessing
  <2>3. access' \in [kind : {"none", "load", "store", "copyin", "copyout"},
                     va : 0..UserStack-1, end : 0..UserStack]
    BY <2>1, VmAssumption DEF None
  <2> QED BY <2>1, <2>2, <2>3
<1>6. CASE ~done
  <2>1. access' = [access EXCEPT !.va = next] /\ badfault' = badfault
    BY <1>1, <1>2, <1>6
  <2>2. next \in 0..UserStack-1 /\ next < access.end
    BY <1>3, <1>4, <1>6, VmAssumption
  <2>3. /\ access' \in [kind : {"none", "load", "store", "copyin", "copyout"},
                        va : 0..UserStack-1, end : 0..UserStack]
        /\ access'.kind = access.kind /\ access'.va = next /\ access'.end = access.end
    BY <1>3, <2>1, <2>2
  <2> QED BY <1>2, <2>1, <2>2, <2>3 DEF Accessing
<1> QED BY <1>5, <1>6

\* An access that hits the TLB.
LEMMA HitStep == ASSUME IInv, NEW s \in Slots, Hit(s) PROVE IInv'
<1>1. Live /\ fault = NoFault /\ access # None /\ Advance
  BY DEF Hit, Resting
<1>2. UNCHANGED <<image, pt, swapped, pool, tlb, victim, cpu, fault, balance, stopped>>
  BY DEF Hit
<1>3. mem' \in [Frames -> Contents]
  <2>1. Stored(Page) \in Contents
    BY PageInSpace DEF IInv, Contents, Stored
  <2> QED BY <2>1 DEF Hit, IInv, Types
<1>4. Types'
  BY <1>1, <1>2, <1>3, AdvanceSound DEF IInv, Types
<1>5. Accessing'
  BY <1>1, AdvanceSound
<1>6. (Idle /\ Faulting /\ Counted)'
  BY <1>1, <1>2 DEF IInv, Idle, Faulting, Counted, Live
<1>7. Recovering'
  BY <1>1, <1>2 DEF Recovering, Live
<1>8. Translating'
  BY <1>2 DEF IInv, Translating, Translates, Live
<1>9. FramesExclusive'
  BY <1>2 DEF IInv, FramesExclusive, Out
<1> QED BY <1>4, <1>5, <1>6, <1>7, <1>8, <1>9 DEF IInv

\* What increment_statistics adds to each difference, for what the fault
\* handler counts together.
LEMMA Counting ==
  ASSUME Types
  PROVE  /\ \A names \in {{"reload"}, {"zero"}} : Counts(names) =>
              balance' = [faults |-> balance.faults, sources |-> balance.sources - 1,
                          disk |-> balance.disk]
         /\ \A names \in {{"disk", "swapread"}, {"elf", "disk"}} : Counts(names) =>
              balance' = [faults |-> balance.faults, sources |-> balance.sources - 1,
                          disk |-> balance.disk]
         /\ Counts({"fault", "slot"}) =>
              balance' = [faults |-> balance.faults, sources |-> balance.sources + 1,
                          disk |-> balance.disk]
<1>1. balance.faults \in Int /\ balance.sources \in Int /\ balance.disk \in Int
  BY DEF Types
<1>2. Counts({"reload"}) => balance' = [faults |-> balance.faults,
                  sources |-> balance.sources - 1, disk |-> balance.disk]
  BY <1>1 DEF Counts
<1>3. Counts({"zero"}) => balance' = [faults |-> balance.faults,
                  sources |-> balance.sources - 1, disk |-> balance.disk]
  BY <1>1 DEF Counts
<1>4. Counts({"disk", "swapread"}) => balance' = [faults |-> balance.faults,
                  sources |-> balance.sources - 1, disk |-> balance.disk]
  BY <1>1 DEF Counts
<1>5. Counts({"elf", "disk"}) => balance' = [faults |-> balance.faults,
                  sources |-> balance.sources - 1, disk |-> balance.disk]
  BY <1>1 DEF Counts
<1>6. Counts({"fault", "slot"}) => balance' = [faults |-> balance.faults,
                  sources |-> balance.sources + 1, disk |-> balance.disk]
  BY <1>1 DEF Counts
<1> QED BY <1>2, <1>3, <1>4, <1>5, <1>6

\* The two ways vm_fault can refuse.
LEMMA Refused ==
  ASSUME IInv, Live, EFAULT
  PROVE  /\ access' \in [kind : {"none", "load", "store", "copyin", "copyout"},
                         va : 0..UserStack-1, end : 0..UserStack]
         /\ badfault' \in BOOLEAN /\ stopped' \in BOOLEAN
         /\ fault' \in [pc : Pcs, page : Pages, frame : Frames \cup {0}]
         /\ Accessing' /\ Recovering'
         /\ \/ fault' = NoFault /\ access' = None /\ stopped' = stopped /\ badfault
            \/ UNCHANGED <<fault, access, badfault>> /\ stopped' = TRUE /\ ~badfault
<1>1. ~stopped /\ Types
  BY DEF Live, IInv
<1>2. CASE badfault
  <2>1. fault' = NoFault /\ access' = None /\ stopped' = stopped /\ badfault' = FALSE
    BY <1>2 DEF EFAULT
  <2>2. Page \in Pages /\ 0 \in Pages
    <3>1. Page \in Pages
      BY <1>1, PageInSpace
    <3> QED BY <3>1, VmAssumption DEF Pages, PageOf
  <2>3. fault' \in [pc : Pcs, page : Pages, frame : Frames \cup {0}]
    BY <2>1, <2>2 DEF NoFault, Pcs
  <2>4. access' \in [kind : {"none", "load", "store", "copyin", "copyout"},
                     va : 0..UserStack-1, end : 0..UserStack]
    BY <2>1, VmAssumption DEF None
  <2>5. Accessing' /\ Recovering'
    BY <2>1 DEF Accessing, Recovering, None
  <2>6. badfault' \in BOOLEAN /\ stopped' \in BOOLEAN
    BY <1>1, <2>1 DEF Types
  <2> QED BY <1>2, <2>1, <2>3, <2>4, <2>5, <2>6
<1>3. CASE ~badfault
  <2>1. UNCHANGED <<fault, access, badfault>> /\ stopped' = TRUE
    BY <1>3 DEF EFAULT
  <2>2. Accessing' /\ Recovering'
    BY <1>3, <2>1 DEF IInv, Accessing, Recovering
  <2> QED BY <1>1, <1>3, <2>1, <2>2 DEF Types
<1> QED BY <1>2, <1>3

\* vm_fault up to its first wait: refused, reloaded, or in want of a frame.
LEMMA FaultStep == ASSUME IInv, vm_fault PROVE IInv'
<1>1. Live /\ fault = NoFault /\ access # None /\ Hits = {} /\ UNCHANGED machine
  BY DEF vm_fault, Resting
<1>2. Types /\ Page \in Pages
  BY PageInSpace DEF IInv
<1>3. UNCHANGED <<image, pt, swapped, mem, pool, tlb, victim, cpu>>
  BY <1>1 DEF machine
<1>4. CASE as_get_segment(image, access.va) = {}
  <2>1. EFAULT /\ UNCHANGED balance
    BY <1>4 DEF vm_fault
  <2>2. fault' = NoFault
    BY <1>1, <2>1, Refused
  <2>3. Types'
    BY <1>1, <1>3, <2>1, Refused DEF IInv, Types
  <2>4. Accessing' /\ Recovering'
    BY <1>1, <2>1, Refused
  <2>5. Idle' /\ Faulting'
    BY <1>1, <1>3, <2>2 DEF Idle, Faulting, Live
  <2>6. Counted'
    BY <1>1, <2>1, <2>2 DEF IInv, Counted, Live
  <2>7. Translating'
    BY <1>1, <1>3 DEF IInv, Translating, Translates, Live
  <2>8. FramesExclusive'
    BY <1>1, <1>3, <2>2 DEF IInv, FramesExclusive, Out, Live
  <2> QED BY <2>3, <2>4, <2>5, <2>6, <2>7, <2>8 DEF IInv
<1>5. CASE as_get_segment(image, access.va) # {}
  <2>1. PICK pc \in {"tlb", "alloc"} :
          /\ fault' = [pc |-> pc, page |-> Page, frame |-> pt_get_pa(pt, Page)]
          /\ pc = "tlb" => pt_get_pa(pt, Page) # 0 /\ Counts({"reload"})
          /\ pc = "alloc" => pt_get_pa(pt, Page) = 0 /\ UNCHANGED balance
          /\ UNCHANGED <<access, badfault, stopped>>
    <3>1. CASE pt_get_pa(pt, Page) # 0
      BY <1>5, <3>1 DEF vm_fault
    <3>2. CASE pt_get_pa(pt, Page) = 0
      BY <1>5, <3>2 DEF vm_fault
    <3> QED BY <3>1, <3>2
  <2>2. pt_get_pa(pt, Page) \in Frames \cup {0}
    BY <1>2, EntryType DEF Types, PFN_NOT_USED
  <2>3. fault' \in [pc : Pcs, page : Pages, frame : Frames \cup {0}]
    BY <1>2, <2>1, <2>2 DEF Pcs
  <2>4. /\ balance' \in [faults : Int, sources : Int, disk : Int]
        /\ balance'.faults = balance.faults /\ balance'.disk = balance.disk
        /\ balance'.sources = balance.sources + (IF pc = "tlb" THEN -1 ELSE 0)
    <3>1. balance \in [faults : Int, sources : Int, disk : Int]
      BY <1>2 DEF Types
    <3>2. CASE pc = "tlb"
      <4>1. balance' = [faults |-> balance.faults, sources |-> balance.sources - 1,
                        disk |-> balance.disk]
        BY <1>2, <2>1, <3>2, Counting
      <4> QED BY <3>1, <3>2, <4>1
    <3>3. CASE pc = "alloc"
      <4>1. balance' = balance
        BY <2>1, <3>3
      <4> QED BY <3>1, <3>3, <4>1
    <3> QED BY <3>2, <3>3
  <2>5. Types'
    BY <1>2, <1>3, <2>1, <2>3, <2>4 DEF Types
  <2>6. (Accessing /\ Recovering /\ Idle)'
    BY <1>1, <1>3, <2>1 DEF IInv, Accessing, Recovering, Idle, Live
  <2>7. Counted'
    BY <1>1, <2>1, <2>4 DEF IInv, Counted, NoFault
  <2>8. Faulting'
    <3>1. \A s \in Slots : tlb[cpu][s].page # Page
      BY <1>1, <1>2 DEF Hits, Types
    <3>2. fault'.pc = pc /\ fault'.page = Page /\ fault'.frame = pt_get_pa(pt, Page)
          /\ Page' = Page
      BY <2>1 DEF Page
    <3> QED BY <1>1, <1>3, <1>5, <2>1, <2>2, <3>1, <3>2 DEF Faulting
  <2>9. Translating'
    BY <1>3, <2>1 DEF IInv, Translating, Translates, Live
  <2>10. FramesExclusive'
    <3>1. fault.frame = 0 /\ 0 \notin Frames
      BY <1>1, VmAssumption DEF NoFault
    <3> QED BY <1>3, <2>1, <3>1 DEF IInv, FramesExclusive, Out
  <2> QED BY <2>5, <2>6, <2>7, <2>8, <2>9, <2>10 DEF IInv
<1> QED BY <1>4, <1>5

\* A frame that has no user becomes the faulting page's, or waits for the read
\* from the swap file.
LEMMA WithFrameSound ==
  ASSUME IInv, Live, fault.pc \in {"alloc", "evicted"}, NEW f \in Frames, Unmapped(f),
         pool' \subseteq pool, f \notin pool',
         \A g \in Frames : g \in pool' \/ g = f \/ \E v \in Pages : pt_get_pa(pt, v) = g,
         UNCHANGED <<image, swapped, tlb, victim, cpu, access, badfault, stopped>>,
         WithFrame(f)
  PROVE  IInv'
<1>1. Types /\ fault # NoFault
  BY DEF IInv, NoFault
<1>2. /\ access # None /\ fault.page = Page /\ fault.page \in Pages
      /\ as_get_segment(image, access.va) # {}
      /\ \A s \in Slots : tlb[cpu][s].page # fault.page
      /\ pt_get_pa(pt, fault.page) = 0
  BY <1>1 DEF IInv, Faulting, Types
<1>3. Page' = Page /\ Seg(access.va)' = Seg(access.va)
  BY DEF Page, Seg
<1>4. mem' \in [Frames -> Contents]
  <2>1. FreshContent(fault.page) \in Contents
    BY <1>2 DEF Contents, FreshContent
  <2> QED BY <1>1, <2>1 DEF WithFrame, Types
<1>5. fault \in [pc : Pcs, page : Pages, frame : Frames \cup {0}]
  BY <1>1 DEF Types
<1>6. Accessing' /\ Recovering' /\ Idle'
  BY DEF IInv, Accessing, Recovering, Idle, Live
<1>7. f # 0 /\ 0 \notin Frames
  BY VmAssumption
<1>8. CASE Out(fault.page)
  <2>1. fault' = [fault EXCEPT !.pc = "swapin", !.frame = f] /\ UNCHANGED <<pt, balance>>
    BY <1>8 DEF WithFrame
  <2>2. /\ fault' \in [pc : Pcs, page : Pages, frame : Frames \cup {0}]
        /\ fault'.pc = "swapin" /\ fault'.page = fault.page /\ fault'.frame = f
    BY <1>5, <2>1 DEF Pcs
  <2>3. Types'
    BY <1>1, <1>4, <2>1, <2>2 DEF Types
  <2>4. Faulting'
    <3>1. Unmapped(f)' /\ Out(fault.page)'
      BY <1>8, <2>1, <2>2 DEF Unmapped, Out
    <3> QED BY <1>2, <1>3, <2>1, <2>2, <3>1 DEF Faulting, Unmapped
  <2>5. Translating'
    BY <2>1 DEF IInv, Translating, Translates, Live
  <2>6. FramesExclusive'
    BY <2>1, <2>2 DEF IInv, FramesExclusive, Out
  <2>7. Counted'
    BY <2>1, <2>2 DEF IInv, Counted
  <2> QED BY <1>6, <2>3, <2>4, <2>5, <2>6, <2>7 DEF IInv
<1>9. CASE ~Out(fault.page)
  <2>1. pt' = pt_set_pa(pt, fault.page, f)
    BY <1>9 DEF WithFrame
  <2>2. /\ pt' \in Tables
        /\ \A w \in Pages :
             /\ pt_get_pa(pt', w) = IF w = fault.page THEN f ELSE pt_get_pa(pt, w)
             /\ pt_get_offset(pt', w) = pt_get_offset(pt, w)
    BY <1>1, <1>2, <2>1, SetPa DEF Types
  <2>3. PICK pc \in {"tlb", "load"} :
          /\ fault' = [fault EXCEPT !.pc = pc, !.frame = f]
          /\ pc = "tlb" => Counts({"zero"})
          /\ pc = "load" => UNCHANGED balance /\ Seg(access.va) # stack
    <3>1. CASE Seg(access.va) = stack
      BY <1>9, <3>1 DEF WithFrame
    <3>2. CASE Seg(access.va) # stack
      BY <1>9, <3>2 DEF WithFrame
    <3> QED BY <3>1, <3>2
  <2>4. /\ fault' \in [pc : Pcs, page : Pages, frame : Frames \cup {0}]
        /\ fault'.pc = pc /\ fault'.page = fault.page /\ fault'.frame = f
    BY <1>5, <2>3 DEF Pcs
  <2>5. /\ balance' \in [faults : Int, sources : Int, disk : Int]
        /\ balance'.faults = balance.faults /\ balance'.disk = balance.disk
        /\ balance'.sources = balance.sources + (IF pc = "tlb" THEN -1 ELSE 0)
    <3>1. balance \in [faults : Int, sources : Int, disk : Int]
      BY <1>1 DEF Types
    <3>2. CASE pc = "tlb"
      <4>1. balance' = [faults |-> balance.faults, sources |-> balance.sources - 1,
                        disk |-> balance.disk]
        BY <1>1, <2>3, <3>2, Counting
      <4> QED BY <3>1, <3>2, <4>1
    <3>3. CASE pc = "load"
      <4>1. balance' = balance
        BY <2>3, <3>3
      <4> QED BY <3>1, <3>3, <4>1
    <3> QED BY <3>2, <3>3
  <2>6. Types'
    BY <1>1, <1>4, <2>2, <2>4, <2>5 DEF Types
  <2>7. Faulting'
    <3>1. pt_get_pa(pt', fault.page) = f
      BY <1>2, <2>2
    <3> QED BY <1>2, <1>3, <2>3, <2>4, <3>1 DEF Faulting
  <2>8. Translating'
    <3>1. ASSUME NEW s \in Slots, tlb[cpu][s] # Invalid
          PROVE  tlb[cpu][s].page \in Pages /\ tlb[cpu][s].page # fault.page
      <4>1. tlb[cpu][s] \in Entries
        BY <1>1 DEF Types
      <4> QED BY <1>2, <3>1, <4>1 DEF Entries
    <3> QED BY <2>2, <3>1 DEF IInv, Translating, Translates, Live
  <2>9. FramesExclusive'
    <3>1. ASSUME NEW v \in Pages, NEW w \in Pages, v # w, pt_get_pa(pt', v) # 0
          PROVE  pt_get_pa(pt', v) # pt_get_pa(pt', w)
      BY <2>2, <3>1, <1>7 DEF IInv, FramesExclusive, Unmapped
    <3>2. ASSUME NEW v \in Pages
          PROVE  pt_get_pa(pt', v) \notin pool' /\ (pt_get_offset(pt', v) # NotSwapped => pt_get_pa(pt', v) = 0)
      BY <1>9, <2>2 DEF IInv, FramesExclusive, Out
    <3>3. ASSUME NEW g \in Frames PROVE g \in pool' \/ \E v \in Pages : pt_get_pa(pt', v) = g
      <4>1. CASE g = f
        BY <1>2, <2>2, <4>1
      <4>2. CASE \E v \in Pages : pt_get_pa(pt, v) = g
        <5>1. PICK v \in Pages : pt_get_pa(pt, v) = g
          BY <4>2
        <5>2. v # fault.page
          BY <1>2, <1>7, <5>1
        <5>3. pt_get_pa(pt', v) = g
          BY <2>2, <5>1, <5>2
        <5> QED BY <5>3
      <4> QED BY <4>1, <4>2
    <3> QED BY <3>1, <3>2, <3>3 DEF FramesExclusive, Out
  <2>10. Counted'
    BY <2>4, <2>5 DEF IInv, Counted
  <2> QED BY <1>6, <2>6, <2>7, <2>8, <2>9, <2>10 DEF IInv
<1> QED BY <1>8, <1>9

\* page_alloc takes a frame nobody has ...
LEMMA AllocStep == ASSUME IInv, NEW f \in Frames, page_alloc(f) PROVE IInv'
<1>1. /\ Live /\ fault.pc = "alloc" /\ f \in pool /\ pool' = pool \ {f} /\ WithFrame(f)
      /\ UNCHANGED <<image, swapped, tlb, victim, cpu, access, badfault, stopped>>
  BY DEF page_alloc
<1>2. fault.frame = 0
  BY <1>1 DEF IInv, Faulting, NoFault
<1>3. Unmapped(f)
  BY <1>1 DEF IInv, FramesExclusive, Unmapped
<1>4. \A g \in Frames : g \in pool' \/ g = f \/ \E v \in Pages : pt_get_pa(pt, v) = g
  BY <1>1, <1>2, VmAssumption DEF IInv, FramesExclusive, Live
<1> QED BY <1>1, <1>3, <1>4, WithFrameSound

\* ... or the one the eviction freed, which nobody has either.
LEMMA UseEvictedStep == ASSUME IInv, UseEvicted PROVE IInv'
<1> DEFINE f == fault.frame
<1>1. /\ Live /\ fault.pc = "evicted" /\ pool' = pool /\ WithFrame(f)
      /\ UNCHANGED <<image, swapped, tlb, victim, cpu, access, badfault, stopped>>
  BY DEF UseEvicted
<1>2. f \in Frames /\ f \notin pool /\ Unmapped(f)
  BY <1>1 DEF IInv, Faulting, NoFault
<1>3. \A g \in Frames : g \in pool' \/ g = f \/ \E v \in Pages : pt_get_pa(pt, v) = g
  BY <1>1 DEF IInv, FramesExclusive, Live
<1> HIDE DEF f
<1> QED BY <1>1, <1>2, <1>3, WithFrameSound

\* The victim's frame is written out while the victim still has it.
LEMMA SwapOutStep == ASSUME IInv, NEW v \in Pages, swap_out(v) PROVE IInv'
<1>1. /\ Live /\ fault.pc = "alloc" /\ pt_get_pa(pt, v) # 0
      /\ swapped' = [swapped EXCEPT ![v] = mem[pt_get_pa(pt, v)]]
      /\ fault' = [fault EXCEPT !.pc = "swapout", !.frame = pt_get_pa(pt, v)]
      /\ UNCHANGED <<image, pt, mem, pool, tlb, victim, cpu, access, badfault, balance, stopped>>
  BY DEF swap_out
<1>2. Types /\ fault # NoFault
  BY <1>1 DEF IInv, NoFault
<1>3. pt_get_pa(pt, v) \in Frames
  BY <1>1, <1>2, EntryType DEF Types, PFN_NOT_USED
<1>4. /\ fault' \in [pc : Pcs, page : Pages, frame : Frames \cup {0}]
      /\ fault'.pc = "swapout" /\ fault'.page = fault.page /\ fault'.frame = pt_get_pa(pt, v)
  <2>1. fault \in [pc : Pcs, page : Pages, frame : Frames \cup {0}]
    BY <1>2 DEF Types
  <2> QED BY <1>1, <1>3, <2>1 DEF Pcs
<1>5. swapped' \in [Pages -> Contents] /\ swapped'[v] = mem'[pt_get_pa(pt, v)]
  BY <1>1, <1>2, <1>3 DEF Types
<1>6. Types'
  BY <1>1, <1>2, <1>4, <1>5 DEF Types
<1>7. (Accessing /\ Recovering /\ Idle)'
  BY <1>1 DEF IInv, Accessing, Recovering, Idle, Live
<1>8. Faulting'
  <2>1. /\ access # None /\ fault.page = Page /\ as_get_segment(image, access.va) # {}
        /\ \A s \in Slots : tlb[cpu][s].page # fault.page
        /\ pt_get_pa(pt, fault.page) = 0
    BY <1>1, <1>2 DEF IInv, Faulting
  <2>2. Page' = Page
    BY <1>1 DEF Page
  <2> QED BY <1>1, <1>3, <1>4, <1>5, <2>1, <2>2 DEF Faulting
<1>9. Translating'
  BY <1>1 DEF IInv, Translating, Translates, Live
<1>10. FramesExclusive'
  <2>1. fault.frame = 0 /\ 0 \notin Frames
    BY <1>1, <1>2, VmAssumption DEF IInv, Faulting
  <2> QED BY <1>1, <2>1 DEF IInv, FramesExclusive, Out
<1>11. Counted'
  BY <1>1, <1>4 DEF IInv, Counted
<1> QED BY <1>6, <1>7, <1>8, <1>9, <1>10, <1>11 DEF IInv

\* The victim loses its frame, its TLB entry and gets its slot.
LEMMA EvictedStep == ASSUME IInv, NEW v \in Pages, Evicted(v) PROVE IInv'
<1>1. /\ Live /\ fault.pc = "swapout" /\ pt_get_pa(pt, v) = fault.frame
      /\ tlb_remove_by_va(v)
      /\ fault' = [fault EXCEPT !.pc = "evicted"]
      /\ pt' = pt_set_pa(pt_set_offset(pt, v, Slot(v)), v, 0)
      /\ mem' = [mem EXCEPT ![fault.frame] = Junk]
      /\ UNCHANGED <<image, swapped, pool, victim, cpu, access, badfault, balance, stopped>>
  BY DEF Evicted
<1>2. Types /\ fault # NoFault
  BY <1>1 DEF IInv, NoFault
<1>3. /\ access # None /\ fault.page = Page /\ as_get_segment(image, access.va) # {}
      /\ \A s \in Slots : tlb[cpu][s].page # fault.page
      /\ pt_get_pa(pt, fault.page) = 0 /\ fault.frame \in Frames
      /\ fault.page \in Pages
  BY <1>1, <1>2 DEF IInv, Faulting, Types
<1>4. 0 \notin Frames /\ fault.frame # 0 /\ v # fault.page
  BY <1>1, <1>3, VmAssumption
<1>5. /\ pt' \in Tables
      /\ \A w \in Pages :
           /\ pt_get_pa(pt', w) = IF w = v THEN 0 ELSE pt_get_pa(pt, w)
           /\ pt_get_offset(pt', w) = IF w = v THEN v ELSE pt_get_offset(pt, w)
  BY <1>1, <1>2, BothColumns DEF Types, Slot, PFN_NOT_USED
<1>6. /\ fault' \in [pc : Pcs, page : Pages, frame : Frames \cup {0}]
      /\ fault'.pc = "evicted" /\ fault'.page = fault.page /\ fault'.frame = fault.frame
  <2>1. fault \in [pc : Pcs, page : Pages, frame : Frames \cup {0}]
    BY <1>2 DEF Types
  <2> QED BY <1>1, <2>1 DEF Pcs
<1>7. mem' \in [Frames -> Contents]
  <2>1. Junk \in Contents
    BY DEF Contents, Junk
  <2> QED BY <1>1, <1>2, <2>1 DEF Types
<1>8. /\ tlb' \in [Cpus -> [Slots -> Entries]]
      /\ \A s \in Slots : tlb'[cpu][s] = IF tlb[cpu][s].page = v THEN Invalid ELSE tlb[cpu][s]
  <2>1. tlb \in [Cpus -> [Slots -> Entries]] /\ cpu \in Cpus
    BY <1>2 DEF Types
  <2> DEFINE new == [s \in Slots |-> IF tlb[cpu][s].page = v THEN Invalid ELSE tlb[cpu][s]]
  <2>2. new \in [Slots -> Entries]
    BY <2>1 DEF Entries
  <2>3. DOMAIN tlb[cpu] = Slots
    BY <2>1
  <2>4. tlb' = [tlb EXCEPT ![cpu] = new]
    BY <1>1, <2>3 DEF tlb_remove_by_va
  <2>5. tlb' \in [Cpus -> [Slots -> Entries]] /\ tlb'[cpu] = new
    <3> HIDE DEF new
    <3> QED BY <2>1, <2>2, <2>4
  <2> QED BY <2>5
<1>9. Types'
  BY <1>1, <1>2, <1>5, <1>6, <1>7, <1>8 DEF Types
<1>10. (Accessing /\ Recovering /\ Idle)'
  BY <1>1 DEF IInv, Accessing, Recovering, Idle, Live
<1>11. ASSUME NEW w \in Pages PROVE pt_get_pa(pt', w) # fault.frame
  BY <1>1, <1>4, <1>5 DEF IInv, FramesExclusive
<1>12. Faulting'
  <2>1. Page' = Page
    BY <1>1 DEF Page
  <2>2. \A s \in Slots : tlb'[cpu'][s].page # fault'.page
    <3>1. Invalid.page # fault.page
      BY <1>3, VmAssumption DEF Invalid, Pages
    <3> QED BY <1>1, <1>3, <1>6, <1>8, <3>1
  <2>3. pt_get_pa(pt', fault'.page) = 0
    BY <1>3, <1>4, <1>5, <1>6
  <2>4. fault'.frame \in Frames \ pool'
    BY <1>1, <1>3, <1>6 DEF IInv, FramesExclusive
  <2> QED BY <1>1, <1>3, <1>6, <1>11, <2>1, <2>2, <2>3, <2>4 DEF Faulting, Unmapped
<1>13. Translating'
  <2> SUFFICES ASSUME NEW s \in Slots, tlb'[cpu][s] # Invalid
               PROVE  Translates(s)'
    BY <1>1 DEF Translating, Translates
  <2>1. tlb'[cpu][s] = tlb[cpu][s] /\ tlb[cpu][s].page # v /\ tlb[cpu][s] # Invalid
    BY <1>8
  <2>2. tlb[cpu][s].page \in Pages
    <3>1. tlb[cpu][s] \in Entries
      BY <1>2 DEF Types
    <3> QED BY <2>1, <3>1 DEF Entries
  <2>3. Translates(s)
    BY <1>1 DEF IInv, Translating
  <2>4. tlb[cpu][s].frame = pt_get_pa(pt', tlb[cpu][s].page)
    BY <1>5, <2>1, <2>2, <2>3 DEF Translates
  <2>5. \A t \in Slots : tlb'[cpu][t].page = tlb[cpu][s].page => t = s
    <3>1. Invalid.page # tlb[cpu][s].page
      BY <2>2, VmAssumption DEF Invalid, Pages
    <3> QED BY <1>8, <2>1, <2>3, <3>1 DEF Translates
  <2>6. tlb[cpu][s].dirty => \E seg \in {image.code, image.data, stack} :
          Writable(seg) /\ tlb[cpu][s].page \in PageOf(seg.vaddr)..PageOf(seg.vaddr + seg.memsz)
    BY <2>1, <2>3 DEF Translates
  <2> QED BY <1>1, <2>1, <2>4, <2>5, <2>6 DEF Translates
<1>14. FramesExclusive'
  <2>1. ASSUME NEW w \in Pages, NEW x \in Pages, w # x, pt_get_pa(pt', w) # 0
        PROVE  pt_get_pa(pt', w) # pt_get_pa(pt', x)
    BY <1>5, <2>1 DEF IInv, FramesExclusive
  <2>2. ASSUME NEW w \in Pages
        PROVE  pt_get_pa(pt', w) \notin pool' /\ (pt_get_offset(pt', w) # NotSwapped => pt_get_pa(pt', w) = 0)
    <3>1. 0 \notin pool'
      BY <1>1, <1>2, <1>4 DEF Types
    <3> QED BY <1>1, <1>5, <3>1 DEF IInv, FramesExclusive, Out
  <2>3. ASSUME NEW g \in Frames
        PROVE  g \in pool' \/ g = fault'.frame \/ \E w \in Pages : pt_get_pa(pt', w) = g
    <3>1. CASE g \in pool
      BY <1>1, <3>1
    <3>2. CASE g = fault.frame
      BY <1>6, <3>2
    <3>3. CASE g # fault.frame /\ \E w \in Pages : pt_get_pa(pt, w) = g
      <4>1. PICK w \in Pages : pt_get_pa(pt, w) = g
        BY <3>3
      <4>2. w # v /\ pt_get_pa(pt', w) = g
        BY <1>1, <1>5, <3>3, <4>1
      <4> QED BY <4>2
    <3> QED BY <1>1, <3>1, <3>2, <3>3 DEF IInv, FramesExclusive, Live
  <2> QED BY <2>1, <2>2, <2>3 DEF FramesExclusive, Out
<1>15. Counted'
  BY <1>1, <1>6 DEF IInv, Counted
<1> QED BY <1>9, <1>10, <1>12, <1>13, <1>14, <1>15 DEF IInv

\* The frame that waited becomes the faulting page's, and its slot is free.
LEMMA SwapInStep == ASSUME IInv, swap_in PROVE IInv'
<1>1. /\ Live /\ fault.pc = "swapin"
      /\ mem' = [mem EXCEPT ![fault.frame] = swapped[fault.page]]
      /\ swapped' = [swapped EXCEPT ![fault.page] = Zeroes]
      /\ pt' = pt_set_pa(pt_set_offset(pt, fault.page, NotSwapped), fault.page, fault.frame)
      /\ fault' = [fault EXCEPT !.pc = "tlb"]
      /\ Counts({"disk", "swapread"})
      /\ UNCHANGED <<image, pool, tlb, victim, cpu, access, badfault, stopped>>
  BY DEF swap_in
<1>2. Types /\ fault # NoFault
  BY <1>1 DEF IInv, NoFault
<1>3. /\ access # None /\ fault.page = Page /\ as_get_segment(image, access.va) # {}
      /\ \A s \in Slots : tlb[cpu][s].page # fault.page
      /\ pt_get_pa(pt, fault.page) = 0
      /\ fault.frame \in Frames /\ fault.frame \notin pool /\ Unmapped(fault.frame)
      /\ fault.page \in Pages
  BY <1>1, <1>2 DEF IInv, Faulting, Types
<1>4. /\ pt' \in Tables
      /\ \A w \in Pages :
           /\ pt_get_pa(pt', w) = IF w = fault.page THEN fault.frame ELSE pt_get_pa(pt, w)
           /\ pt_get_offset(pt', w) = IF w = fault.page THEN NotSwapped ELSE pt_get_offset(pt, w)
  BY <1>1, <1>2, <1>3, BothColumns DEF Types
<1>5. /\ fault' \in [pc : Pcs, page : Pages, frame : Frames \cup {0}]
      /\ fault'.pc = "tlb" /\ fault'.page = fault.page /\ fault'.frame = fault.frame
  <2>1. fault \in [pc : Pcs, page : Pages, frame : Frames \cup {0}]
    BY <1>2 DEF Types
  <2> QED BY <1>1, <2>1 DEF Pcs
<1>6. mem' \in [Frames -> Contents] /\ swapped' \in [Pages -> Contents]
  <2>1. Zeroes \in Contents
    BY DEF Contents, Zeroes
  <2>2. swapped[fault.page] \in Contents
    BY <1>2, <1>3 DEF Types
  <2> QED BY <1>1, <1>2, <2>1, <2>2 DEF Types
<1>7. /\ balance' \in [faults : Int, sources : Int, disk : Int]
      /\ balance'.faults = balance.faults /\ balance'.disk = balance.disk
      /\ balance'.sources = balance.sources - 1
  <2>1. balance \in [faults : Int, sources : Int, disk : Int]
    BY <1>2 DEF Types
  <2>2. balance' = [faults |-> balance.faults, sources |-> balance.sources - 1,
                    disk |-> balance.disk]
    BY <1>1, <1>2, Counting
  <2> QED BY <2>1, <2>2
<1>8. Types'
  BY <1>1, <1>2, <1>4, <1>5, <1>6, <1>7 DEF Types
<1>9. (Accessing /\ Recovering /\ Idle)'
  BY <1>1 DEF IInv, Accessing, Recovering, Idle, Live
<1>10. Faulting'
  <2>1. Page' = Page
    BY <1>1 DEF Page
  <2>2. pt_get_pa(pt', fault.page) = fault.frame
    BY <1>3, <1>4
  <2> QED BY <1>1, <1>3, <1>5, <2>1, <2>2 DEF Faulting
<1>11. Translating'
  <2>1. ASSUME NEW s \in Slots, tlb[cpu][s] # Invalid
        PROVE  tlb[cpu][s].page \in Pages /\ tlb[cpu][s].page # fault.page
    <3>1. tlb[cpu][s] \in Entries
      BY <1>2 DEF Types
    <3> QED BY <1>3, <2>1, <3>1 DEF Entries
  <2> QED BY <1>1, <1>4, <2>1 DEF IInv, Translating, Translates, Live
<1>12. FramesExclusive'
  <2>1. ASSUME NEW v \in Pages, NEW w \in Pages, v # w, pt_get_pa(pt', v) # 0
        PROVE  pt_get_pa(pt', v) # pt_get_pa(pt', w)
    <3>1. fault.frame # 0
      BY <1>3, VmAssumption
    <3> QED BY <1>3, <1>4, <2>1, <3>1 DEF IInv, FramesExclusive, Unmapped
  <2>2. ASSUME NEW v \in Pages
        PROVE  pt_get_pa(pt', v) \notin pool' /\ (pt_get_offset(pt', v) # NotSwapped => pt_get_pa(pt', v) = 0)
    BY <1>1, <1>3, <1>4 DEF IInv, FramesExclusive, Out
  <2>3. ASSUME NEW g \in Frames
        PROVE  g \in pool' \/ g = fault'.frame \/ \E v \in Pages : pt_get_pa(pt', v) = g
    <3>1. CASE \E v \in Pages : pt_get_pa(pt, v) = g
      <4>1. PICK v \in Pages : pt_get_pa(pt, v) = g
        BY <3>1
      <4>2. v # fault.page
        BY <1>3, <4>1, VmAssumption
      <4> QED BY <1>4, <4>1, <4>2
    <3> QED BY <1>1, <1>5, <3>1 DEF IInv, FramesExclusive, Live
  <2> QED BY <2>1, <2>2, <2>3 DEF FramesExclusive, Out
<1>13. Counted'
  BY <1>1, <1>5, <1>7 DEF IInv, Counted
<1> QED BY <1>8, <1>9, <1>10, <1>11, <1>12, <1>13 DEF IInv

\* seg_load_page, in its three outcomes.
LEMMA LoadStep == ASSUME IInv, seg_load_page PROVE IInv'
<1>1. /\ Live /\ fault.pc = "load"
      /\ UNCHANGED <<image, pt, swapped, pool, tlb, victim, cpu>>
  BY DEF seg_load_page
<1>2. Types /\ fault # NoFault
  BY <1>1 DEF IInv, NoFault
<1>3. /\ access # None /\ fault.page = Page /\ as_get_segment(image, access.va) # {}
      /\ \A s \in Slots : tlb[cpu][s].page # fault.page
      /\ fault.frame \in Frames /\ pt_get_pa(pt, fault.page) = fault.frame
      /\ Seg(access.va) # stack /\ fault.page \in Pages
  BY <1>1, <1>2 DEF IInv, Faulting, Types
<1>4. 0 \notin Frames
  BY VmAssumption
<1> DEFINE plan == LoadPlan(Seg(access.va), access.va)
<1>5. CASE /\ mem' = [mem EXCEPT ![fault.frame] = FreshContent(fault.page)]
           /\ Counts(IF plan.len = 0 THEN {"zero"} ELSE {"elf", "disk"})
           /\ fault' = [fault EXCEPT !.pc = "tlb"]
           /\ UNCHANGED <<access, badfault, stopped>>
  <2>1. /\ fault' \in [pc : Pcs, page : Pages, frame : Frames \cup {0}]
        /\ fault'.pc = "tlb" /\ fault'.page = fault.page /\ fault'.frame = fault.frame
    <3>1. fault \in [pc : Pcs, page : Pages, frame : Frames \cup {0}]
      BY <1>2 DEF Types
    <3> QED BY <1>5, <3>1 DEF Pcs
  <2>2. mem' \in [Frames -> Contents]
    <3>1. FreshContent(fault.page) \in Contents
      BY <1>3 DEF Contents, FreshContent
    <3> QED BY <1>2, <1>5, <3>1 DEF Types
  <2>3. /\ balance' \in [faults : Int, sources : Int, disk : Int]
        /\ balance'.faults = balance.faults /\ balance'.disk = balance.disk
        /\ balance'.sources = balance.sources - 1
    <3>1. balance \in [faults : Int, sources : Int, disk : Int]
      BY <1>2 DEF Types
    <3>2. balance' = [faults |-> balance.faults, sources |-> balance.sources - 1,
                      disk |-> balance.disk]
      <4> HIDE DEF plan
      <4>1. CASE plan.len = 0
        <5>1. Counts({"zero"})
          BY <1>5, <4>1
        <5> QED BY <1>2, <5>1, Counting
      <4>2. CASE plan.len # 0
        <5>1. Counts({"elf", "disk"})
          BY <1>5, <4>2
        <5> QED BY <1>2, <5>1, Counting
      <4> QED BY <4>1, <4>2
    <3> QED BY <3>1, <3>2
  <2>4. Types'
    BY <1>1, <1>2, <1>5, <2>1, <2>2, <2>3 DEF Types
  <2>5. (Accessing /\ Recovering /\ Idle)'
    BY <1>1, <1>5 DEF IInv, Accessing, Recovering, Idle, Live
  <2>6. Faulting'
    <3>1. Page' = Page
      BY <1>5 DEF Page
    <3> QED BY <1>1, <1>3, <1>5, <2>1, <3>1 DEF Faulting
  <2>7. Translating'
    BY <1>1, <1>5 DEF IInv, Translating, Translates, Live
  <2>8. FramesExclusive'
    BY <1>1, <1>5, <2>1 DEF IInv, FramesExclusive, Out
  <2>9. Counted'
    BY <1>1, <1>5, <2>1, <2>3 DEF IInv, Counted
  <2> QED BY <2>4, <2>5, <2>6, <2>7, <2>8, <2>9 DEF IInv
<1>6. CASE /\ badfault \in LoadFails
           /\ mem' = [mem EXCEPT ![fault.frame] = Zeroes]
           /\ Counts({"elf", "disk"})
           /\ EFAULT
  <2>1. mem' \in [Frames -> Contents]
    <3>1. Zeroes \in Contents
      BY DEF Contents, Zeroes
    <3> QED BY <1>2, <1>6, <3>1 DEF Types
  <2>2. balance' \in [faults : Int, sources : Int, disk : Int]
    <3>1. balance \in [faults : Int, sources : Int, disk : Int]
      BY <1>2 DEF Types
    <3>2. balance' = [faults |-> balance.faults, sources |-> balance.sources - 1,
                      disk |-> balance.disk]
      BY <1>2, <1>6, Counting
    <3> QED BY <3>1, <3>2
  <2>3. Types'
    BY <1>1, <1>2, <1>6, <2>1, <2>2, Refused DEF Types
  <2>4. Accessing' /\ Recovering'
    BY <1>1, <1>6, Refused
  <2>5. \/ fault' = NoFault /\ access' = None /\ stopped' = stopped /\ badfault
        \/ UNCHANGED <<fault, access, badfault>> /\ stopped' = TRUE /\ ~badfault
    BY <1>1, <1>6, Refused
  <2>6. Idle' /\ Translating'
    BY <1>1, <2>5 DEF IInv, Idle, Translating, Translates, Live
  <2>7. Faulting'
    <3>1. CASE fault' = NoFault
      BY <3>1 DEF Faulting
    <3>2. CASE UNCHANGED <<fault, access, badfault>>
      <4>1. Page' = Page /\ Seg(access.va)' = Seg(access.va)
        BY <1>1, <3>2 DEF Page, Seg
      <4> QED BY <1>1, <1>3, <3>2, <4>1 DEF Faulting
    <3> QED BY <2>5, <3>1, <3>2
  <2>8. FramesExclusive'
    <3>1. ASSUME NEW g \in Frames PROVE g \in pool \/ \E v \in Pages : pt_get_pa(pt, v) = g
      BY <1>1, <1>3 DEF IInv, FramesExclusive, Live
    <3>2. Frames \subseteq pool' \cup {pt_get_pa(pt', v) : v \in Pages} \cup {fault'.frame}
      BY <1>1, <3>1
    <3> QED BY <1>1, <3>2 DEF IInv, FramesExclusive, Out
  <2>9. Counted'
    <3>1. TRUE \notin LoadFails => stopped'
      BY <1>2, <1>6, <2>5 DEF Types
    <3> QED BY <3>1 DEF Counted
  <2> QED BY <2>3, <2>4, <2>6, <2>7, <2>8, <2>9 DEF IInv
<1>7. CASE /\ ~LoadAsserts(Seg(access.va), access.va)
           /\ stopped' = TRUE
           /\ UNCHANGED <<mem, balance, fault, access, badfault>>
  <2>1. Types'
    BY <1>1, <1>2, <1>7 DEF Types
  <2>2. (Accessing /\ Idle)'
    BY <1>1, <1>7 DEF IInv, Accessing, Idle
  <2>3. Faulting'
    <3>1. Page' = Page /\ Seg(access.va)' = Seg(access.va)
      BY <1>1, <1>7 DEF Page, Seg
    <3> QED BY <1>1, <1>3, <1>7, <3>1 DEF Faulting
  <2>4. Translating' /\ Counted'
    BY <1>7 DEF Translating, Counted, Live
  <2>5. FramesExclusive'
    BY <1>1, <1>7 DEF IInv, FramesExclusive, Out
  <2>6. ~ImagesFit
    <3>1. Seg(access.va) \in as_get_segment(image, access.va)
      BY <1>3, SegKnown
    <3>2. image \in Images /\ access.va \in 0..UserStack-1
      BY <1>1, <1>2 DEF Types, Live
    <3> QED BY <1>3, <1>7, <3>1, <3>2 DEF ImagesFit
  <2>7. Recovering'
    BY <2>6 DEF Recovering
  <2> QED BY <2>1, <2>2, <2>3, <2>4, <2>5, <2>7 DEF IInv
<1> QED BY <1>5, <1>6, <1>7 DEF seg_load_page

\* The entry the fault writes says what the page table says of its page, which
\* no other slot of this CPU maps.
LEMMA TlbWriteStep == ASSUME IInv, tlb_write PROVE IInv'
<1> DEFINE entry == [page |-> fault.page, frame |-> fault.frame, dirty |-> Writable(Seg(access.va))]
<1>1. /\ Live /\ fault.pc = "tlb"
      /\ tlb' = [tlb EXCEPT ![cpu][victim] = entry]
      /\ victim' = (victim + 1) % NumTlb
      /\ Counts({"fault", "slot"})
      /\ fault' = NoFault
      /\ UNCHANGED <<image, pt, swapped, mem, pool, cpu, access, badfault, stopped>>
  BY DEF tlb_write, tlb_get_rr_victim
<1>2. Types /\ fault # NoFault
  BY <1>1 DEF IInv, NoFault
<1>3. /\ fault.page = Page /\ as_get_segment(image, access.va) # {}
      /\ \A s \in Slots : tlb[cpu][s].page # fault.page
      /\ fault.frame \in Frames /\ pt_get_pa(pt, fault.page) = fault.frame
      /\ fault.page \in Pages
  BY <1>1, <1>2 DEF IInv, Faulting, Types
<1>4. entry \in Entries
  <2>1. Writable(Seg(access.va)) \in BOOLEAN
    BY DEF Writable
  <2> QED BY <1>3, <2>1 DEF Entries
<1>5. victim' \in Slots
  BY <1>1, <1>2, VmAssumption DEF Types, Slots
<1> HIDE DEF entry
<1>6. /\ tlb' \in [Cpus -> [Slots -> Entries]]
      /\ \A s \in Slots : tlb'[cpu][s] = IF s = victim THEN entry ELSE tlb[cpu][s]
  BY <1>1, <1>2, <1>4 DEF Types
<1>7. fault' \in [pc : Pcs, page : Pages, frame : Frames \cup {0}]
  <2>1. 0 \in Pages
    BY <1>3, VmAssumption DEF Pages, PageOf
  <2> QED BY <1>1, <2>1 DEF NoFault, Pcs
<1>8. /\ balance' \in [faults : Int, sources : Int, disk : Int]
      /\ balance'.faults = balance.faults /\ balance'.disk = balance.disk
      /\ balance'.sources = balance.sources + 1
  <2>1. balance \in [faults : Int, sources : Int, disk : Int]
    BY <1>2 DEF Types
  <2>2. balance' = [faults |-> balance.faults, sources |-> balance.sources + 1,
                    disk |-> balance.disk]
    BY <1>1, <1>2, Counting
  <2> QED BY <2>1, <2>2
<1>9. Types'
  BY <1>1, <1>2, <1>5, <1>6, <1>7, <1>8 DEF Types
<1>10. (Accessing /\ Recovering /\ Idle /\ Faulting)'
  BY <1>1 DEF IInv, Accessing, Recovering, Idle, Faulting, Live
<1>11. entry.dirty => \E seg \in {image.code, image.data, stack} :
         Writable(seg) /\ fault.page \in PageOf(seg.vaddr)..PageOf(seg.vaddr + seg.memsz)
  <2> DEFINE seg == Seg(access.va)
  <2>1. seg \in {image.code, image.data, stack} /\ seg.vaddr <= access.va
        /\ access.va <= seg.vaddr + seg.memsz
    BY <1>3, SegKnown
  <2>2. seg.vaddr \in Int /\ seg.memsz \in Int /\ access.va \in Int
    <3>1. image \in Images /\ access.va \in Int
      BY <1>1, <1>2, VmAssumption DEF Types, Live
    <3>2. stack.vaddr \in Int /\ stack.memsz \in Int
      BY VmAssumption DEF stack, Segment
    <3>3. \A x \in {image.code, image.data} : x.vaddr \in Int /\ x.memsz \in Int
      BY <3>1, VmAssumption
    <3> HIDE DEF seg
    <3> QED BY <2>1, <3>1, <3>2, <3>3
  <2>3. seg.vaddr \div PageSize <= access.va \div PageSize
        /\ access.va \div PageSize <= (seg.vaddr + seg.memsz) \div PageSize
    BY <2>1, <2>2, VmAssumption, QuotientMonotone
  <2>4. fault.page \in PageOf(seg.vaddr)..PageOf(seg.vaddr + seg.memsz)
    <3>1. seg.vaddr \div PageSize \in Int /\ (seg.vaddr + seg.memsz) \div PageSize \in Int
          /\ access.va \div PageSize \in Int
      BY <2>2, VmAssumption
    <3> QED BY <1>3, <2>3, <3>1 DEF Page, PageOf
  <2>5. entry.dirty => Writable(seg)
    BY DEF entry
  <2> QED BY <2>1, <2>4, <2>5
<1>12. Translating'
  <2> SUFFICES ASSUME NEW s \in Slots, tlb'[cpu][s] # Invalid
               PROVE  Translates(s)'
    BY <1>1 DEF Translating, Translates
  <2>1. entry.page = fault.page /\ entry.frame = fault.frame
    BY DEF entry
  <2>2. CASE s = victim
    <3>1. tlb'[cpu][s] = entry
      BY <1>6, <2>2
    <3>2. \A t \in Slots : tlb'[cpu][t].page = entry.page => t = s
      BY <1>3, <1>6, <2>1, <2>2
    <3> QED BY <1>1, <1>3, <1>11, <2>1, <3>1, <3>2 DEF Translates
  <2>3. CASE s # victim
    <3>1. tlb'[cpu][s] = tlb[cpu][s]
      BY <1>6, <2>3
    <3>2. Translates(s)
      BY <1>1 DEF IInv, Translating
    <3>3. \A t \in Slots : tlb'[cpu][t].page = tlb[cpu][s].page => t = s
      BY <1>3, <1>6, <2>1, <3>1, <3>2 DEF Translates
    <3> QED BY <1>1, <3>1, <3>2, <3>3 DEF Translates
  <2> QED BY <2>2, <2>3
<1>13. FramesExclusive'
  <2>1. ASSUME NEW g \in Frames PROVE g \in pool \/ \E v \in Pages : pt_get_pa(pt, v) = g
    BY <1>1, <1>3 DEF IInv, FramesExclusive, Live
  <2>2. Frames \subseteq pool' \cup {pt_get_pa(pt', v) : v \in Pages} \cup {fault'.frame}
    BY <1>1, <2>1
  <2> QED BY <1>1, <2>2 DEF IInv, FramesExclusive, Out
<1>14. Counted'
  BY <1>1, <1>8 DEF IInv, Counted, NoFault, Types
<1> QED BY <1>9, <1>10, <1>12, <1>13, <1>14 DEF IInv

\* Every step of the machine keeps the invariant.
LEMMA StepInv == ASSUME IInv, Next PROVE IInv'
<1>1. CASE \E img \in Images : runprogram(img)
  BY <1>1, RunprogramStep
<1>2. CASE \E c \in Cpus : thread_switch(c)
  BY <1>2, SwitchStep
<1>3. CASE Exit
  BY <1>3, ExitStep
<1>4. CASE \E va \in Addrs, kind \in {"load", "store"} : UserAccess(va, kind)
  BY <1>4, UserAccessStep
<1>5. CASE \E va \in Addrs, len \in Lengths, kind \in {"copyin", "copyout"} :
             copy(va, len, kind) \/ copystr(va, len, kind)
  BY <1>5, CopyStep, CopystrStep
<1>6. CASE \E s \in 0..NumTlb-1 : Hit(s) \/ ReadOnly(s)
  BY <1>6, HitStep, ReadOnlyStep DEF Slots
<1>7. CASE vm_fault
  BY <1>7, FaultStep
<1>8. CASE \E f \in Frames : page_alloc(f)
  BY <1>8, AllocStep
<1>9. CASE \E v \in Pages : swap_out(v) \/ Evicted(v)
  BY <1>9, SwapOutStep, EvictedStep
<1>10. CASE UseEvicted \/ swap_in \/ seg_load_page \/ tlb_write
  BY <1>10, UseEvictedStep, SwapInStep, LoadStep, TlbWriteStep
<1> QED BY <1>1, <1>2, <1>3, <1>4, <1>5, <1>6, <1>7, <1>8, <1>9, <1>10 DEF Next

\* The invariant holds in every state of every machine.
THEOREM Inductive == Spec => []IInv
<1>1. Init => IInv
  BY InitInv
<1>2. IInv /\ [Next]_vars => IInv'
  BY StepInv, StutterStep
<1> QED BY <1>1, <1>2, PTL DEF Spec

\* The invariant says of the translations and the frames what the run checks.
LEMMA InvSound == ASSUME IInv PROVE TypeOK /\ TlbSound /\ FramesExclusive
<1>1. Types
  BY DEF IInv
<1>2. TypeOK
  <2>1. \A v \in Pages : /\ pt_get_pa(pt, v) \in Frames \cup {PFN_NOT_USED}
                        /\ pt_get_offset(pt, v) \in Pages \cup {NotSwapped}
    BY <1>1, EntryType DEF Types
  <2>2. ASSUME NEW c \in Cpus, NEW s \in 0..NumTlb-1 PROVE tlb[c][s].page \in Pages \cup {-1}
    <3>1. tlb[c][s] \in Entries
      <4>1. tlb \in [Cpus -> [Slots -> Entries]] /\ s \in Slots
        BY <1>1 DEF Types, Slots
      <4> QED BY <4>1
    <3>2. CASE tlb[c][s] = Invalid
      BY <3>2 DEF Invalid
    <3>3. CASE tlb[c][s] \in [page : Pages, frame : Frames, dirty : BOOLEAN]
      BY <3>3
    <3> QED BY <3>1, <3>2, <3>3 DEF Entries
  <2>3. /\ access.kind \in {"none", "load", "store", "copyin", "copyout"}
        /\ access.va \in 0..UserStack-1 /\ access.end \in 0..UserStack
    BY <1>1 DEF Types
  <2>4. fault.pc \in {"none", "alloc", "swapout", "evicted", "swapin", "load", "tlb"}
    BY <1>1 DEF Types, Pcs
  <2> QED BY <1>1, <2>1, <2>2, <2>3, <2>4 DEF TypeOK, Types, Slots
<1>3. TlbSound
  <2> SUFFICES ASSUME Live, NEW s \in DOMAIN tlb[cpu], tlb[cpu][s] # Invalid
               PROVE  LET e == tlb[cpu][s] IN
                 /\ e.frame # 0 /\ e.frame \notin pool
                 /\ \/ e.frame = pt_get_pa(pt, e.page)
                    \/ fault.pc = "swapout" /\ e.frame = fault.frame
                 /\ \A t \in DOMAIN tlb[cpu] : tlb[cpu][t].page = e.page => t = s
                 /\ e.dirty => \E seg \in {image.code, image.data, stack} :
                      Writable(seg) /\ e.page \in PageOf(seg.vaddr)..PageOf(seg.vaddr + seg.memsz)
    BY DEF TlbSound
  <2>1. DOMAIN tlb[cpu] = Slots /\ tlb[cpu][s] \in Entries
    BY <1>1 DEF Types
  <2>2. tlb[cpu][s].page \in Pages /\ tlb[cpu][s].frame \in Frames
    BY <2>1 DEF Entries
  <2>3. Translates(s)
    BY <2>1 DEF IInv, Translating
  <2>4. tlb[cpu][s].frame # 0 /\ tlb[cpu][s].frame \notin pool
    BY <2>2, <2>3, VmAssumption DEF IInv, FramesExclusive, Translates
  <2> QED BY <2>1, <2>3, <2>4 DEF Translates
<1> QED BY <1>2, <1>3 DEF IInv

\* TypeOK, TlbSound and FramesExclusive: on the CPU the program runs on, the TLB
\* agrees with the page table, and no frame has two users, whatever fails.
THEOREM TranslationsSound == Spec => [](TypeOK /\ TlbSound /\ FramesExclusive)
BY Inductive, InvSound, PTL

\* PagingSound, with the balance of print_all_statistics: if no load fails in the
\* middle of a copy, the three identities hold whenever no fault is handled.  (One
\* that fails leaves the page entered and the fault uncounted: LoadFails.)
THEOREM PagingIsSound == ASSUME TRUE \notin LoadFails PROVE Spec => []PagingSound
<1>1. IInv => StatisticsConsistent
  <2> SUFFICES ASSUME IInv, fault = NoFault, ~stopped
               PROVE  balance = [faults |-> 0, sources |-> 0, disk |-> 0]
    BY DEF StatisticsConsistent
  <2>1. balance.faults = 0 /\ balance.sources = 0 /\ balance.disk = 0
    BY DEF IInv, Counted, NoFault
  <2>2. balance \in [faults : Int, sources : Int, disk : Int]
    BY DEF IInv, Types
  <2> QED BY <2>1, <2>2
<1>2. IInv => PagingSound
  BY <1>1, InvSound DEF PagingSound
<1> QED BY <1>2, Inductive, PTL

\* CopyRecovers: where seg_load_page's assertion holds for every address a segment
\* claims, a fault in a copy never stops the kernel.  ImagesFit says what
\* is asked of the executables; the inclusive ends of as_get_segment make it fail
\* for a segment that ends on a page boundary.
THEOREM CopiesRecover == ASSUME ImagesFit PROVE Spec => []CopyRecovers
<1>1. IInv => CopyRecovers
  BY DEF IInv, Accessing, Recovering, CopyRecovers
<1> QED BY <1>1, Inductive, PTL

\* ... what remains without that hypothesis.
THEOREM CopiesMarked ==
  Spec => [](badfault <=> access.kind \in {"copyin", "copyout"})
<1>1. IInv => (badfault <=> access.kind \in {"copyin", "copyout"})
  BY DEF IInv, Accessing
<1> QED BY <1>1, Inductive, PTL

-----------------------------------------------------------------------------
(* What the program sees.                                                  *)

\* The step does not change what the program sees of page v.
Keeps(v) == Content(v)' = Content(v)

\* A step that leaves the page's entry, its frame and its slot alone keeps what
\* the program sees of it, unless the page is being loaded.
LEMMA ContentKept ==
  ASSUME NEW v \in Pages, pt_get_pa(pt', v) = pt_get_pa(pt, v),
         pt_get_offset(pt', v) = pt_get_offset(pt, v), swapped'[v] = swapped[v],
         pt_get_pa(pt, v) # 0 => mem'[pt_get_pa(pt, v)] = mem[pt_get_pa(pt, v)],
         (fault'.page = v /\ fault'.pc = "load") <=> (fault.page = v /\ fault.pc = "load")
  PROVE  Keeps(v)
<1>1. CASE Out(v)
  BY <1>1 DEF Keeps, Content, Out
<1>2. CASE ~Out(v)
  BY <1>2 DEF Keeps, Content, Out
<1> QED BY <1>1, <1>2

\* So does a step of the fault handler that moves no content.
LEMMA FaultKeeps ==
  ASSUME IInv, NEW v \in Pages,
         UNCHANGED <<pt, swapped, mem>>, fault.pc # "load", fault'.pc # "load"
  PROVE  Keeps(v)
BY ContentKept

\* An access that hits changes a page only by storing into it.
LEMMA HitContent ==
  ASSUME IInv, NEW s \in Slots, Hit(s), NEW v \in Pages
  PROVE  Keeps(v) \/ (Writes /\ Page = v /\ Content(v)' = Stored(v))
<1>1. /\ Live /\ fault = NoFault /\ s \in Hits
      /\ UNCHANGED <<image, pt, swapped, pool, tlb, victim, cpu, fault, balance, stopped>>
  BY DEF Hit, Resting
<1>2. fault.pc = "none"
  BY <1>1 DEF NoFault
<1>3. CASE ~Writes
  <2>1. mem' = mem
    BY <1>3 DEF Hit
  <2> QED BY <1>1, <1>2, <2>1, ContentKept
<1>4. CASE Writes
  <2> DEFINE f == tlb[cpu][s].frame
  <2>1. mem' = [mem EXCEPT ![f] = Stored(Page)]
    BY <1>4 DEF Hit
  <2>2. Page \in Pages /\ tlb[cpu][s].page = Page /\ Types
    BY <1>1, PageInSpace DEF IInv, Hits
  <2>3. tlb[cpu][s] # Invalid /\ f \in Frames
    <3>1. tlb[cpu][s] \in Entries
      BY <2>2 DEF Types
    <3>2. Invalid.page # Page
      BY <2>2, VmAssumption DEF Invalid, Pages
    <3> QED BY <2>2, <3>1, <3>2 DEF Entries
  <2>4. f = pt_get_pa(pt, Page)
    BY <1>1, <2>2, <2>3 DEF IInv, Translating, Translates
  <2> HIDE DEF f
  <2>5. f # 0
    BY <2>3, VmAssumption
  <2>6. CASE v = Page
    <3>1. ~Out(v) /\ pt_get_pa(pt, v) # 0
      BY <2>4, <2>5, <2>6 DEF IInv, FramesExclusive
    <3>2. mem'[f] = Stored(Page)
      BY <2>1, <2>2, <2>3 DEF Types
    <3>3. Content(v)' = mem'[pt_get_pa(pt', v)]
      BY <1>1, <1>2, <3>1 DEF Content, Out
    <3> QED BY <1>1, <1>4, <2>4, <2>6, <3>2, <3>3
  <2>7. CASE v # Page
    <3>1. pt_get_pa(pt, v) # f
      BY <2>2, <2>4, <2>5, <2>7 DEF IInv, FramesExclusive
    <3>2. pt_get_pa(pt, v) # 0 => mem'[pt_get_pa(pt, v)] = mem[pt_get_pa(pt, v)]
      <4>1. pt_get_pa(pt, v) \in Frames \cup {0}
        BY <2>2, EntryType DEF Types, PFN_NOT_USED
      <4> QED BY <2>1, <2>2, <3>1, <4>1 DEF Types
    <3> QED BY <1>1, <3>2, ContentKept
  <2> QED BY <2>6, <2>7
<1> QED BY <1>3, <1>4

\* A frame taken for the faulting page held nobody's content.
LEMMA WithFrameContent ==
  ASSUME IInv, fault.pc \in {"alloc", "evicted"}, NEW f \in Frames, Unmapped(f),
         swapped' = swapped, access' = access, WithFrame(f), NEW v \in Pages
  PROVE  Keeps(v)
<1>1. Types /\ fault # NoFault
  BY DEF IInv, NoFault
<1>2. fault.page \in Pages /\ pt_get_pa(pt, fault.page) = 0
  BY <1>1 DEF IInv, Faulting, Types
<1>3. f # 0 /\ 0 \notin Frames
  BY VmAssumption
<1>4. fault \in [pc : Pcs, page : Pages, frame : Frames \cup {0}]
  BY <1>1 DEF Types
<1>5. \A g \in Frames : g # f => mem'[g] = mem[g]
  BY <1>1 DEF WithFrame, Types
<1>6. pt_get_pa(pt, v) # 0 => mem'[pt_get_pa(pt, v)] = mem[pt_get_pa(pt, v)]
  <2>1. pt_get_pa(pt, v) \in Frames \cup {0} /\ pt_get_pa(pt, v) # f
    BY <1>1, EntryType DEF Types, PFN_NOT_USED, Unmapped
  <2> QED BY <1>5, <2>1
<1>7. CASE Out(fault.page)
  <2>1. fault' = [fault EXCEPT !.pc = "swapin", !.frame = f] /\ UNCHANGED pt
    BY <1>7 DEF WithFrame
  <2>2. fault'.pc = "swapin"
    BY <1>4, <2>1 DEF Pcs
  <2> QED BY <1>6, <2>1, <2>2, ContentKept
<1>8. CASE ~Out(fault.page)
  <2>1. pt' = pt_set_pa(pt, fault.page, f)
    BY <1>8 DEF WithFrame
  <2>2. \A w \in Pages : /\ pt_get_pa(pt', w) = IF w = fault.page THEN f ELSE pt_get_pa(pt, w)
                         /\ pt_get_offset(pt', w) = pt_get_offset(pt, w)
    BY <1>1, <1>2, <2>1, SetPa DEF Types
  <2>3. fault'.page = fault.page /\ fault'.pc \in {"tlb", "load"}
        /\ (fault'.pc = "tlb" => Seg(access.va) = stack)
    <3>1. CASE Seg(access.va) = stack
      <4>1. fault' = [fault EXCEPT !.pc = "tlb", !.frame = f]
        BY <1>8, <3>1 DEF WithFrame
      <4> QED BY <1>4, <3>1, <4>1 DEF Pcs
    <3>2. CASE Seg(access.va) # stack
      <4>1. fault' = [fault EXCEPT !.pc = "load", !.frame = f]
        BY <1>8, <3>2 DEF WithFrame
      <4> QED BY <1>4, <4>1 DEF Pcs
    <3> QED BY <3>1, <3>2
  <2>4. CASE v # fault.page
    BY <1>6, <2>2, <2>3, <2>4, ContentKept
  <2>5. CASE v = fault.page
    <3>1. Content(v) = FreshContent(v)
      BY <1>2, <1>8, <2>5 DEF Content
    <3>2. CASE fault'.pc = "load"
      BY <1>2, <1>8, <2>2, <2>3, <2>5, <3>1, <3>2 DEF Content, Out, Keeps
    <3>3. CASE fault'.pc = "tlb"
      <4>1. mem'[f] = FreshContent(v)
        BY <1>1, <1>8, <2>3, <2>5, <3>3 DEF WithFrame, Types
      <4>2. Content(v)' = mem'[pt_get_pa(pt', v)]
        BY <1>2, <1>3, <1>8, <2>2, <2>5, <3>3 DEF Content, Out
      <4> QED BY <1>2, <2>2, <2>5, <3>1, <4>1, <4>2 DEF Keeps
    <3> QED BY <2>3, <3>2, <3>3
  <2> QED BY <2>4, <2>5
<1> QED BY <1>7, <1>8

\* page_alloc keeps what the program sees ...
LEMMA AllocContent ==
  ASSUME IInv, NEW f \in Frames, page_alloc(f), NEW v \in Pages PROVE Keeps(v)
<1>1. Unmapped(f)
  BY DEF IInv, FramesExclusive, Unmapped, page_alloc
<1> QED BY <1>1, WithFrameContent DEF page_alloc

\* ... and so does the use of the evicted frame.
LEMMA UseEvictedContent == ASSUME IInv, UseEvicted, NEW v \in Pages PROVE Keeps(v)
<1>1. fault.pc = "evicted" /\ WithFrame(fault.frame) /\ swapped' = swapped /\ access' = access
  BY DEF UseEvicted
<1>2. fault.frame \in Frames /\ Unmapped(fault.frame)
  BY <1>1 DEF IInv, Faulting, NoFault
<1> QED BY <1>1, <1>2, WithFrameContent

\* The slot takes what the frame held, while the page still has the frame ...
LEMMA SwapOutContent ==
  ASSUME IInv, NEW w \in Pages, swap_out(w), NEW v \in Pages PROVE Keeps(v)
<1>1. /\ fault.pc = "alloc" /\ pt_get_pa(pt, w) # 0
      /\ swapped' = [swapped EXCEPT ![w] = mem[pt_get_pa(pt, w)]]
      /\ fault' = [fault EXCEPT !.pc = "swapout", !.frame = pt_get_pa(pt, w)]
      /\ UNCHANGED <<pt, mem>>
  BY DEF swap_out
<1>2. Types
  BY DEF IInv
<1>3. fault'.pc = "swapout"
  <2>1. fault \in [pc : Pcs, page : Pages, frame : Frames \cup {0}]
    BY <1>2 DEF Types
  <2> QED BY <1>1, <2>1 DEF Pcs
<1>4. CASE v # w
  <2>1. swapped'[v] = swapped[v]
    BY <1>1, <1>2, <1>4 DEF Types
  <2> QED BY <1>1, <1>3, <2>1, ContentKept
<1>5. CASE v = w
  <2>1. ~Out(v)
    BY <1>1, <1>5 DEF IInv, FramesExclusive
  <2> QED BY <1>1, <1>3, <2>1 DEF Keeps, Content, Out
<1> QED BY <1>4, <1>5

\* ... so that nothing is lost when the page loses it.
LEMMA EvictedContent ==
  ASSUME IInv, NEW w \in Pages, Evicted(w), NEW v \in Pages PROVE Keeps(v)
<1>1. /\ fault.pc = "swapout" /\ pt_get_pa(pt, w) = fault.frame
      /\ fault' = [fault EXCEPT !.pc = "evicted"]
      /\ pt' = pt_set_pa(pt_set_offset(pt, w, Slot(w)), w, 0)
      /\ mem' = [mem EXCEPT ![fault.frame] = Junk]
      /\ swapped' = swapped
  BY DEF Evicted
<1>2. Types /\ fault # NoFault
  BY <1>1 DEF IInv, NoFault
<1>3. fault.frame \in Frames /\ fault.frame # 0
  BY <1>1, <1>2, VmAssumption DEF IInv, Faulting
<1>4. \A x \in Pages :
        /\ pt_get_pa(pt', x) = IF x = w THEN 0 ELSE pt_get_pa(pt, x)
        /\ pt_get_offset(pt', x) = IF x = w THEN w ELSE pt_get_offset(pt, x)
  BY <1>1, <1>2, BothColumns DEF Types, Slot, PFN_NOT_USED
<1>5. fault'.pc = "evicted"
  <2>1. fault \in [pc : Pcs, page : Pages, frame : Frames \cup {0}]
    BY <1>2 DEF Types
  <2> QED BY <1>1, <2>1 DEF Pcs
<1>6. CASE v # w
  <2>1. pt_get_pa(pt, v) \in Frames \cup {0} /\ pt_get_pa(pt, v) # fault.frame
    BY <1>1, <1>2, <1>3, <1>6, EntryType DEF IInv, FramesExclusive, Types, PFN_NOT_USED
  <2>2. pt_get_pa(pt, v) # 0 => mem'[pt_get_pa(pt, v)] = mem[pt_get_pa(pt, v)]
    BY <1>1, <1>2, <2>1 DEF Types
  <2> QED BY <1>1, <1>4, <1>5, <1>6, <2>2, ContentKept
<1>7. CASE v = w
  <2>1. PICK x \in Pages : pt_get_pa(pt, x) = fault.frame /\ swapped[x] = mem[fault.frame]
    BY <1>1, <1>2 DEF IInv, Faulting
  <2>2. x = w
    BY <1>1, <1>3, <2>1 DEF IInv, FramesExclusive
  <2>3. ~Out(v)
    BY <1>1, <1>3, <1>7 DEF IInv, FramesExclusive
  <2>4. Content(v) = mem[fault.frame]
    BY <1>1, <1>3, <1>7, <2>3 DEF Content
  <2>5. Out(v)'
    <3>1. w # NotSwapped
      BY VmAssumption DEF Pages, NotSwapped
    <3> QED BY <1>4, <1>7, <3>1 DEF Out
  <2>6. Content(v)' = swapped[v]
    BY <1>1, <2>5 DEF Content
  <2> QED BY <1>7, <2>1, <2>2, <2>4, <2>6 DEF Keeps
<1> QED BY <1>6, <1>7

\* What swap_in reads into the frame is what the slot held.
LEMMA SwapInContent == ASSUME IInv, swap_in, NEW v \in Pages PROVE Keeps(v)
<1>1. /\ fault.pc = "swapin"
      /\ mem' = [mem EXCEPT ![fault.frame] = swapped[fault.page]]
      /\ swapped' = [swapped EXCEPT ![fault.page] = Zeroes]
      /\ pt' = pt_set_pa(pt_set_offset(pt, fault.page, NotSwapped), fault.page, fault.frame)
      /\ fault' = [fault EXCEPT !.pc = "tlb"]
  BY DEF swap_in
<1>2. Types /\ fault # NoFault
  BY <1>1 DEF IInv, NoFault
<1>3. /\ fault.frame \in Frames /\ Unmapped(fault.frame) /\ fault.page \in Pages
      /\ Out(fault.page) /\ fault.frame # 0
  BY <1>1, <1>2, VmAssumption DEF IInv, Faulting, Types
<1>4. \A w \in Pages :
        /\ pt_get_pa(pt', w) = IF w = fault.page THEN fault.frame ELSE pt_get_pa(pt, w)
        /\ pt_get_offset(pt', w) = IF w = fault.page THEN NotSwapped ELSE pt_get_offset(pt, w)
  BY <1>1, <1>2, <1>3, BothColumns DEF Types
<1>5. fault'.pc = "tlb"
  <2>1. fault \in [pc : Pcs, page : Pages, frame : Frames \cup {0}]
    BY <1>2 DEF Types
  <2> QED BY <1>1, <2>1 DEF Pcs
<1>6. CASE v # fault.page
  <2>1. pt_get_pa(pt, v) \in Frames \cup {0} /\ pt_get_pa(pt, v) # fault.frame
    BY <1>2, <1>3, EntryType DEF Types, PFN_NOT_USED, Unmapped
  <2>2. pt_get_pa(pt, v) # 0 => mem'[pt_get_pa(pt, v)] = mem[pt_get_pa(pt, v)]
    BY <1>1, <1>2, <2>1 DEF Types
  <2>3. swapped'[v] = swapped[v]
    BY <1>1, <1>2, <1>6 DEF Types
  <2> QED BY <1>1, <1>4, <1>5, <1>6, <2>2, <2>3, ContentKept
<1>7. CASE v = fault.page
  <2>1. Content(v) = swapped[v]
    BY <1>3, <1>7 DEF Content
  <2>2. mem'[fault.frame] = swapped[v]
    BY <1>1, <1>2, <1>3, <1>7 DEF Types
  <2>3. Content(v)' = mem'[pt_get_pa(pt', v)]
    BY <1>3, <1>4, <1>5, <1>7 DEF Content, Out
  <2> QED BY <1>3, <1>4, <1>7, <2>1, <2>2, <2>3 DEF Keeps
<1> QED BY <1>6, <1>7

\* seg_load_page fills the frame with what the segment says.
LEMMA LoadContent ==
  ASSUME IInv, TRUE \notin LoadFails, seg_load_page, ~stopped', NEW v \in Pages
  PROVE  Keeps(v)
<1>1. /\ Live /\ fault.pc = "load" /\ UNCHANGED <<pt, swapped>>
  BY DEF seg_load_page
<1>2. Types /\ fault # NoFault
  BY <1>1 DEF IInv, NoFault
<1>3. /\ fault.frame \in Frames /\ pt_get_pa(pt, fault.page) = fault.frame
      /\ fault.page \in Pages /\ fault.frame # 0
  BY <1>1, <1>2, VmAssumption DEF IInv, Faulting, Types
<1>4. ~(badfault \in LoadFails /\ EFAULT)
  <2> SUFFICES ASSUME badfault \in LoadFails, EFAULT PROVE FALSE
    OBVIOUS
  <2>1. ~badfault
    BY <1>2 DEF Types
  <2> QED BY <2>1 DEF EFAULT
<1>5. /\ mem' = [mem EXCEPT ![fault.frame] = FreshContent(fault.page)]
      /\ fault' = [fault EXCEPT !.pc = "tlb"]
  BY <1>4 DEF seg_load_page
<1>6. fault'.pc = "tlb"
  <2>1. fault \in [pc : Pcs, page : Pages, frame : Frames \cup {0}]
    BY <1>2 DEF Types
  <2> QED BY <1>5, <2>1 DEF Pcs
<1>7. CASE v # fault.page
  <2>1. pt_get_pa(pt, v) \in Frames \cup {0} /\ pt_get_pa(pt, v) # fault.frame
    BY <1>2, <1>3, <1>7, EntryType DEF IInv, FramesExclusive, Types, PFN_NOT_USED
  <2>2. pt_get_pa(pt, v) # 0 => mem'[pt_get_pa(pt, v)] = mem[pt_get_pa(pt, v)]
    BY <1>2, <1>5, <2>1 DEF Types
  <2> QED BY <1>1, <1>6, <1>7, <2>2, ContentKept
<1>8. CASE v = fault.page
  <2>1. ~Out(v)
    BY <1>3, <1>8 DEF IInv, FramesExclusive
  <2>2. Content(v) = FreshContent(v)
    BY <1>1, <1>8, <2>1 DEF Content
  <2>3. mem'[fault.frame] = FreshContent(v)
    BY <1>2, <1>3, <1>5, <1>8 DEF Types
  <2>4. Content(v)' = mem'[pt_get_pa(pt, v)]
    BY <1>1, <1>3, <1>6, <1>8, <2>1 DEF Content, Out
  <2> QED BY <1>3, <1>8, <2>2, <2>3, <2>4 DEF Keeps
<1> QED BY <1>7, <1>8

\* PagingInvisible: whatever is evicted, read back, moved between CPUs or loaded,
\* a page changes for the program only when the program (or a copy) stores to it.
THEOREM PagingCannotBeSeen == ASSUME TRUE \notin LoadFails PROVE Spec => PagingInvisible
<1>1. ASSUME IInv, Next, Live, Live', NEW v \in Pages
      PROVE  Keeps(v) \/ (Writes /\ Page = v /\ Content(v)' = Stored(v))
  <2>1. CASE (\E img \in Images : runprogram(img)) \/ Exit
    BY <1>1, <2>1 DEF runprogram, Exit, as_destroy, Live
  <2>2. CASE \E c \in Cpus : thread_switch(c)
    BY <2>2, ContentKept DEF thread_switch
  <2>3. CASE \/ \E va \in Addrs, kind \in {"load", "store"} : UserAccess(va, kind)
             \/ \E va \in Addrs, len \in Lengths, kind \in {"copyin", "copyout"} :
                  copy(va, len, kind) \/ copystr(va, len, kind)
    BY <2>3, ContentKept DEF UserAccess, copy, copystr, machine
  <2>4. CASE \E s \in 0..NumTlb-1 : Hit(s) \/ ReadOnly(s)
    BY <1>1, <2>4, HitContent DEF ReadOnly, as_destroy, Live, Slots
  <2>5. CASE vm_fault
    <3>1. UNCHANGED <<pt, swapped, mem>> /\ fault = NoFault
      BY <2>5 DEF vm_fault, machine, Resting
    <3>2. fault'.pc # "load"
      <4>1. CASE as_get_segment(image, access.va) = {}
        <5>1. fault' = NoFault
          BY <2>5, <3>1, <4>1 DEF vm_fault, EFAULT
        <5> QED BY <5>1 DEF NoFault
      <4>2. CASE as_get_segment(image, access.va) # {}
        BY <2>5, <4>2 DEF vm_fault
      <4> QED BY <4>1, <4>2
    <3> QED BY <1>1, <3>1, <3>2, FaultKeeps DEF NoFault
  <2>6. CASE \E f \in Frames : page_alloc(f)
    BY <1>1, <2>6, AllocContent
  <2>7. CASE \E w \in Pages : swap_out(w) \/ Evicted(w)
    BY <1>1, <2>7, SwapOutContent, EvictedContent
  <2>8. CASE UseEvicted \/ swap_in \/ seg_load_page
    BY <1>1, <2>8, UseEvictedContent, SwapInContent, LoadContent DEF Live
  <2>9. CASE tlb_write
    BY <1>1, <2>9, FaultKeeps DEF tlb_write, NoFault
  <2> QED BY <1>1, <2>1, <2>2, <2>3, <2>4, <2>5, <2>6, <2>7, <2>8, <2>9 DEF Next
<1>2. IInv /\ [Next]_vars =>
        [Live /\ Live' => \A v \in Pages :
           Content(v)' = Content(v) \/ (Writes /\ Page = v /\ Content(v)' = Stored(v))]_vars
  BY <1>1 DEF Keeps
<1> QED BY <1>2, Inductive, PTL DEF Spec, PagingInvisible

\* Division with remainder.
LEMMA Division ==
  ASSUME NEW n \in Nat \ {0}, NEW a \in Nat
  PROVE  /\ a \div n \in Nat /\ a % n \in 0..n-1
         /\ a = (a \div n) * n + (a % n)
<1>1. a \div n \in Nat /\ a % n \in 0..n-1
  OBVIOUS
<1>2. a = n * (a \div n) + (a % n)
  OBVIOUS
<1> QED BY <1>1, <1>2

\* For a segment of any size that starts on a page boundary, any length of its file
\* part, and any address of it: the assertion of seg_load_page holds, the read stays
\* in the page's frame, and every byte of the page is the segment's byte or zero.
THEOREM LoadedExactly ==
  ASSUME NEW vaddr \in Nat, vaddr % PageSize = 0, NEW memsz \in Nat \ {0}, NEW filesz \in 0..memsz,
         NEW offset \in Nat, NEW perm, NEW va \in vaddr..vaddr+memsz-1
  PROVE  LET seg == Segment(vaddr, memsz, filesz, offset, perm)
             plan == LoadPlan(seg, va)
         IN /\ LoadAsserts(seg, va)
            /\ plan.dest + plan.len <= PageSize
            /\ \A o \in 0..PageSize-1 :
                 ByteLoaded(plan, o) = ByteWanted(seg, PageOf(va) * PageSize + o)
<1> DEFINE seg == Segment(vaddr, memsz, filesz, offset, perm)
           plan == LoadPlan(seg, va)
           index == page_index(seg, va)
           n == npages(seg, va)
           r == va % PageSize
           before == index * PageSize
<1>1. PageSize \in Nat \ {0} /\ va \in Nat
  BY VmAssumption
<1>2. /\ va \div PageSize \in Nat /\ r \in 0..PageSize-1 /\ vaddr \div PageSize \in Nat
      /\ va = (va \div PageSize) * PageSize + r /\ vaddr = (vaddr \div PageSize) * PageSize
  BY <1>1, Division
<1>3. index = va \div PageSize - vaddr \div PageSize /\ index \in Nat
  <2>1. index = va \div PageSize - vaddr \div PageSize
    BY DEF page_index, PageOf, Segment
  <2>2. vaddr \div PageSize <= va \div PageSize
    BY <1>1, QuotientMonotone
  <2> QED BY <1>2, <2>1, <2>2
<1>4. before \in Nat /\ PageOf(va) * PageSize = vaddr + before /\ va = vaddr + before + r
  <2> DEFINE x == va \div PageSize
             y == vaddr \div PageSize
  <2>1. x * PageSize = y * PageSize + (x - y) * PageSize
    BY <1>1, <1>2
  <2>2. before = (x - y) * PageSize
    BY <1>3
  <2>3. before \in Nat
    BY <1>1, <1>3
  <2> HIDE DEF before, index
  <2> QED BY <1>1, <1>2, <2>1, <2>2, <2>3 DEF PageOf
<1>5. n \in Nat /\ memsz + r <= n * PageSize /\ n * PageSize \in Nat
  <2> DEFINE x == memsz + r + PageSize - 1
  <2>1. n = x \div PageSize
    BY DEF npages, PageOffset, Segment
  <2>2. x \in Nat /\ x \div PageSize \in Nat /\ x % PageSize \in 0..PageSize-1
        /\ x = (x \div PageSize) * PageSize + (x % PageSize)
    <3>1. x \in Nat
      BY <1>1, <1>2
    <3> HIDE DEF x
    <3> QED BY <1>1, <3>1, Division
  <2>3. n * PageSize \in Nat
    BY <1>1, <2>1, <2>2
  <2> HIDE DEF n, r
  <2> QED BY <1>1, <1>2, <2>1, <2>2, <2>3
<1>6. n = index + 1 => n * PageSize = before + PageSize
  BY <1>1, <1>3
<1>7. index < n
  <2>1. before < n * PageSize
    <3> HIDE DEF before, n, r
    <3> QED BY <1>1, <1>2, <1>4, <1>5
  <2>2. n <= index => n * PageSize <= before
    BY <1>1, <1>3, <1>5
  <2> HIDE DEF before, n, index
  <2> QED BY <1>3, <1>4, <1>5, <2>1, <2>2
<1>8. /\ plan = LET Plan(dest, len, off) == [dest |-> dest, len |-> len, offset |-> off] IN
                CASE index = 0 -> Plan(0, LowerOf(filesz, PageSize), offset)
                  [] index > 0 /\ index = n - 1 ->
                       IF filesz > before THEN Plan(0, filesz - before, offset + before)
                       ELSE Plan(0, 0, filesz)
                  [] OTHER ->
                       IF filesz > before + PageSize THEN Plan(0, PageSize, offset + before)
                       ELSE IF filesz < before THEN Plan(0, 0, filesz)
                       ELSE Plan(0, filesz - before, offset + before)
  <2>1. PageOffset(seg.vaddr) = 0 /\ seg.filesz = filesz /\ seg.offset = offset
    BY DEF PageOffset, Segment
  <2>2. LowerOf(filesz, n * PageSize) = filesz
    <3> HIDE DEF n, r
    <3> QED BY <1>1, <1>2, <1>5 DEF LowerOf
  <2>3. index * PageSize - 0 = before /\ PageSize - 0 = PageSize
    BY <1>1, <1>4
  <2> HIDE DEF before, index, n, seg
  <2> QED BY <2>1, <2>2, <2>3 DEF LoadPlan, before, index, n
<1> HIDE DEF plan, index, n, r, before
<1>9. /\ plan.dest = 0 /\ plan.len \in 0..PageSize /\ plan.offset \in Nat
      /\ \A o \in 0..PageSize-1 : o < plan.len <=> before + o < filesz
      /\ plan.len > 0 => plan.offset = offset + before
  <2>1. CASE index = 0
    <3>1. before = 0
      BY <1>1, <2>1 DEF before
    <3>2. plan = [dest |-> 0, len |-> LowerOf(filesz, PageSize), offset |-> offset]
      BY <1>8, <2>1
    <3> QED BY <1>1, <3>1, <3>2 DEF LowerOf
  <2>2. CASE index > 0 /\ index = n - 1
    <3>1. filesz <= before + PageSize
      BY <1>1, <1>2, <1>3, <1>4, <1>5, <1>6, <2>2
    <3>2. CASE filesz > before
      <4>1. plan = [dest |-> 0, len |-> filesz - before, offset |-> offset + before]
        BY <1>3, <1>8, <2>2, <3>2
      <4> QED BY <1>1, <1>4, <3>1, <3>2, <4>1
    <3>3. CASE ~(filesz > before)
      <4>1. plan = [dest |-> 0, len |-> 0, offset |-> filesz]
        BY <1>3, <1>8, <2>2, <3>3
      <4> QED BY <1>1, <1>4, <3>3, <4>1
    <3> QED BY <3>2, <3>3
  <2>3. CASE index # 0 /\ index # n - 1
    <3>1. CASE filesz > before + PageSize
      <4>1. plan = [dest |-> 0, len |-> PageSize, offset |-> offset + before]
        BY <1>3, <1>8, <2>3, <3>1
      <4> QED BY <1>1, <1>4, <3>1, <4>1
    <3>2. CASE filesz < before
      <4>1. plan = [dest |-> 0, len |-> 0, offset |-> filesz]
        BY <1>1, <1>3, <1>4, <1>8, <2>3, <3>2
      <4> QED BY <1>1, <1>4, <3>2, <4>1
    <3>3. CASE filesz >= before /\ filesz <= before + PageSize
      <4>1. plan = [dest |-> 0, len |-> filesz - before, offset |-> offset + before]
        BY <1>1, <1>3, <1>4, <1>8, <2>3, <3>3
      <4> QED BY <1>1, <1>4, <3>3, <4>1
    <3> QED BY <1>1, <1>4, <3>1, <3>2, <3>3
  <2> QED BY <1>3, <1>5, <2>1, <2>2, <2>3
<1>10. LoadAsserts(seg, va)
  BY <1>7 DEF LoadAsserts, index, n
<1>11. plan.dest + plan.len <= PageSize
  BY <1>1, <1>9
<1>12. ASSUME NEW o \in 0..PageSize-1
       PROVE  ByteLoaded(plan, o) = ByteWanted(seg, PageOf(va) * PageSize + o)
  <2>1. ByteLoaded(plan, o) = IF o < plan.len THEN plan.offset + o - plan.dest ELSE -1
    BY <1>1, <1>9 DEF ByteLoaded
  <2>2. ByteWanted(seg, PageOf(va) * PageSize + o) =
          IF before + o < filesz THEN offset + before + o ELSE -1
    <3>1. ByteWanted(seg, vaddr + before + o) =
            IF before + o < filesz THEN offset + before + o ELSE -1
      BY <1>1, <1>4 DEF ByteWanted, Segment
    <3> QED BY <1>4, <3>1
  <2> QED BY <1>1, <1>4, <1>9, <2>1, <2>2
<1> QED BY <1>10, <1>11, <1>12 DEF plan

\* LoadExact, the sizes the run enumerates, is a case of it.
THEOREM LoadsAreExact == Spec => []LoadExact
<1>1. LoadExact
  <2> SUFFICES ASSUME NEW memsz \in 1..3*PageSize, NEW offset \in {0, 5}, NEW filesz \in 0..memsz
               PROVE  LET seg == Segment(2 * PageSize, memsz, filesz, offset, {"R", "W"}) IN
                      \A va \in seg.vaddr..seg.vaddr+memsz-1 :
                        LET plan == LoadPlan(seg, va) IN
                        /\ LoadAsserts(seg, va)
                        /\ plan.dest + plan.len <= PageSize
                        /\ \A o \in 0..PageSize-1 :
                             ByteLoaded(plan, o) = ByteWanted(seg, PageOf(va) * PageSize + o)
    BY DEF LoadExact
  <2>1. 2 * PageSize \in Nat /\ (2 * PageSize) % PageSize = 0 /\ memsz \in Nat \ {0} /\ offset \in Nat
    BY VmAssumption
  <2>2. Segment(2 * PageSize, memsz, filesz, offset, {"R", "W"}).vaddr = 2 * PageSize
    BY DEF Segment
  <2> QED BY <2>1, <2>2, LoadedExactly
<1> QED BY <1>1, PTL
=============================================================================
