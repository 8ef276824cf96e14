------------------------------ MODULE Kmalloc ------------------------------
(***************************************************************************)
(* The kernel heap of kern/vm/kmalloc.c as it is compiled (SLOW, GUARDS    *)
(* and LABELS are undefined): the subpage allocator with one free list per *)
(* page, the page references that keep the account of those pages, and     *)
(* the requests that go to alloc_kpages whole.                             *)
(*                                                                         *)
(* kmalloc_spinlock is held from one action's start to its end, so an      *)
(* action is the code between two operations on the lock; it is released   *)
(* around every alloc_kpages and free_kpages, and there the threads        *)
(* interleave.  Pages are numbered; an address is a page's number times    *)
(* PageSize plus an offset.  The page allocator is the one Coremap         *)
(* specifies, seen through its contract: some free run, or 0.              *)
(***************************************************************************)
EXTENDS Integers, FiniteSets, SequencesExt

CONSTANTS
  Threads,      \* the threads that call kmalloc and kfree
  NumPages,     \* pages alloc_kpages can give
  PageSize,     \* PAGE_SIZE
  BlockSizes,   \* sizes[]: the block sizes, ascending
  NumRoots,     \* NUM_PAGEREFPAGES
  RefsPerPage,  \* NPAGEREFS_PER_PAGE
  Requests,     \* the sizes the callers ask for
  MaxLive,      \* bound: blocks the callers hold at a time
  MaxFail       \* bound: how often alloc_kpages fails with a run free

ASSUME HeapAssumption ==
  /\ NumPages \in Nat /\ PageSize \in Nat \ {0} /\ NumRoots \in Nat /\ RefsPerPage \in Nat
  /\ BlockSizes \in Seq(1..PageSize) /\ BlockSizes # <<>>
  /\ \A i \in DOMAIN BlockSizes : PageSize % BlockSizes[i] = 0
  /\ \A i, j \in DOMAIN BlockSizes : i < j => BlockSizes[i] < BlockSizes[j]
  /\ Requests \subseteq Nat /\ MaxLive \in Nat /\ MaxFail \in Nat

VARIABLES
  pool,       \* the pages alloc_kpages may still give
  kheaproots, \* per root: its page (0: none yet) and the references in use
  ref,        \* per page reference: its page, block type and free list
  sizebases,  \* per block type: the references of its pages, first one first
  allbase,    \* all of them
  live,       \* the blocks the callers hold: address and requested size
  thr,        \* per thread: where it is in kmalloc or kfree, and its locals
  fails,      \* how often alloc_kpages has failed with a run free
  stopped     \* which KASSERT or panic has stopped the kernel, or "no"

heapvars == <<pool, kheaproots, ref, sizebases, allbase, live, thr, fails, stopped>>
lists == <<ref, sizebases, allbase>>

Pages == 1..NumPages
Types == DOMAIN BlockSizes
Roots == 0..NumRoots-1
Refs == Roots \X (0..RefsPerPage-1)
NoRef == <<NumRoots, 0>>
LargestSubpage == BlockSizes[Len(BlockSizes)]
OutOfHeap == [pc |-> "idle", sz |-> 0, page |-> 0, ref |-> NoRef, spare |-> 0]
NoPage == [page |-> 0, type |-> 1, free |-> <<>>]

\* The block type of a request: the first size it fits.
blocktype(sz) == SelectInSeq(BlockSizes, LAMBDA s : sz <= s)
NumBlocks(type) == PageSize \div BlockSizes[type]
PagesOf(sz) == (sz + PageSize - 1) \div PageSize
Run(p, n) == p..p+n-1
Addr(p, offset) == p * PageSize + offset
PageOf(addr) == addr \div PageSize

HeapInit ==
  /\ pool = Pages
  /\ kheaproots = [r \in Roots |-> [page |-> 0, inuse |-> {}]]
  /\ ref = [r \in Refs |-> NoPage]
  /\ sizebases = [s \in Types |-> <<>>]
  /\ allbase = <<>>
  /\ live = {}
  /\ thr = [t \in Threads |-> OutOfHeap]
  /\ fails = 0
  /\ stopped = "no"

At(t, pc) == stopped = "no" /\ thr[t].pc = pc
Goto(t, r) == thr' = [thr EXCEPT ![t] = r]
Return(t) == Goto(t, OutOfHeap)

\* alloc_kpages(n): a run of n free pages, or 0 with the pool unchanged.  It
\* may fail although there is a run: the user programs want the frames too.
alloc_kpages(n, va) ==
  \/ /\ va \in Pages /\ Run(va, n) \subseteq pool
     /\ pool' = pool \ Run(va, n)
     /\ UNCHANGED fails
  \/ /\ va = 0
     /\ LET run == \E p \in Pages : Run(p, n) \subseteq pool
        IN (run => fails < MaxFail) /\ fails' = IF run THEN fails + 1 ELSE fails
     /\ UNCHANGED pool

\* Takes the head of the free list of reference r for a request of sz bytes.
\* refs and the two lists are those the caller has just updated.
doalloc(t, sz, refs, r) ==
  /\ ref' = [refs EXCEPT ![r].free = Tail(@)]
  /\ live' = live \cup {[addr |-> Addr(refs[r].page, Head(refs[r].free)), size |-> sz]}
  /\ Return(t)

\* kmalloc: big requests go to alloc_kpages; small ones take a block of the
\* first page of their type that has one, else they need a page.
kmalloc(t, sz) ==
  /\ At(t, "idle")
  /\ Cardinality(live) + Cardinality({u \in Threads : thr[u].pc # "idle"}) < MaxLive
  /\ LET type == blocktype(sz)
         i == SelectInSeq(sizebases[type], LAMBDA r : ref[r].free # <<>>)
     IN \/ /\ sz >= LargestSubpage
           /\ Goto(t, [OutOfHeap EXCEPT !.pc = "big", !.sz = sz])
           /\ UNCHANGED <<ref, live>>
        \/ /\ sz < LargestSubpage /\ i # 0
           /\ doalloc(t, sz, ref, sizebases[type][i])
        \/ /\ sz < LargestSubpage /\ i = 0
           /\ Goto(t, [OutOfHeap EXCEPT !.pc = "page", !.sz = sz])
           /\ UNCHANGED <<ref, live>>
  /\ UNCHANGED <<pool, kheaproots, sizebases, allbase, fails, stopped>>

KmallocBig(t) ==
  /\ At(t, "big")
  /\ \E va \in Pages \cup {0} :
       /\ alloc_kpages(PagesOf(thr[t].sz), va)
       /\ live' = IF va = 0 THEN live
                  ELSE live \cup {[addr |-> Addr(va, 0), size |-> thr[t].sz]}
  /\ Return(t)
  /\ UNCHANGED <<lists, kheaproots, stopped>>

SubpageGetPage(t) ==
  /\ At(t, "page")
  /\ \E va \in Pages \cup {0} :
       /\ alloc_kpages(1, va)
       /\ IF va = 0 THEN Return(t)
          ELSE Goto(t, [thr[t] EXCEPT !.pc = "ref", !.page = va])
  /\ UNCHANGED <<lists, kheaproots, live, stopped>>

\* The page thread t brought gets reference r: all its blocks are free, the
\* last one first; it goes to the front of both lists and gives its first block.
NewPage(t, r) ==
  LET type == blocktype(thr[t].sz)
      n == NumBlocks(type)
  IN /\ doalloc(t, thr[t].sz,
          [ref EXCEPT ![r] = [page |-> thr[t].page, type |-> type,
                              free |-> [i \in 1..n |-> (n - i) * BlockSizes[type]]]], r)
     /\ sizebases' = [sizebases EXCEPT ![type] = <<r>> \o @]
     /\ allbase' = <<r>> \o allbase

\* allocpageref: the first reference free on the first root that is not full.
\* It is marked before the root has its page.
allocpageref(t) ==
  /\ At(t, "ref")
  /\ LET open == {r \in Refs : r[2] \notin kheaproots[r[1]].inuse}
         first == CHOOSE r \in open : \A q \in open :
                    r[1] < q[1] \/ (r[1] = q[1] /\ r[2] <= q[2])
     IN \/ /\ open = {}
           /\ Goto(t, [thr[t] EXCEPT !.pc = "undo"])
           /\ UNCHANGED <<lists, kheaproots, live>>
        \/ /\ open # {}
           /\ kheaproots' = [kheaproots EXCEPT ![first[1]].inuse = @ \cup {first[2]}]
           /\ IF kheaproots[first[1]].page = 0
              THEN /\ Goto(t, [thr[t] EXCEPT !.pc = "refpage", !.ref = first])
                   /\ UNCHANGED <<lists, live>>
              ELSE NewPage(t, first)
  /\ UNCHANGED <<pool, fails, stopped>>

\* allocpagerefpage, the call without the lock.
GetRefPage(t) ==
  /\ At(t, "refpage")
  /\ \E va \in Pages \cup {0} :
       /\ alloc_kpages(1, va)
       /\ Goto(t, [thr[t] EXCEPT !.pc = "install", !.spare = va])
  /\ UNCHANGED <<lists, kheaproots, live, stopped>>

\* ... and with the lock again: keep the page, give it back if another thread
\* was faster, or fail if there is none.
allocpagerefpage(t) ==
  /\ At(t, "install")
  /\ LET r == thr[t].ref
         have == kheaproots[r[1]].page
         va == thr[t].spare
     IN \/ /\ va = 0 /\ have = 0
           /\ Goto(t, [thr[t] EXCEPT !.pc = "undo"])
           /\ UNCHANGED <<lists, kheaproots, live>>
        \/ /\ va # 0 /\ have # 0
           /\ Goto(t, [thr[t] EXCEPT !.pc = "spare"])
           /\ UNCHANGED <<lists, kheaproots, live>>
        \/ /\ va # 0 /\ have = 0
           /\ kheaproots' = [kheaproots EXCEPT ![r[1]].page = va]
           /\ NewPage(t, r)
        \/ /\ va = 0 /\ have # 0
           /\ NewPage(t, r)
           /\ UNCHANGED kheaproots
  /\ UNCHANGED <<pool, fails, stopped>>

DropSpare(t) ==
  /\ At(t, "spare")
  /\ pool' = pool \cup {thr[t].spare}
  /\ NewPage(t, thr[t].ref)
  /\ UNCHANGED <<kheaproots, fails, stopped>>

\* Mutant: the failing path forgets the page it has.
SubpageUndo_Keeps(t) ==
  /\ At(t, "undo") /\ Return(t)
  /\ UNCHANGED <<pool, lists, kheaproots, live, fails, stopped>>

\* No reference for the page: it goes back and kmalloc returns NULL.
SubpageUndo(t) ==
  /\ At(t, "undo")
  /\ pool' = pool \cup {thr[t].page}
  /\ Return(t)
  /\ UNCHANGED <<lists, kheaproots, live, fails, stopped>>

remove_lists(r) ==
  /\ sizebases' = [sizebases EXCEPT ![ref[r].type] = RemoveFirst(@, r)]
  /\ allbase' = RemoveFirst(allbase, r)

\* The KASSERT of freepageref: a root it passes that has no page has no
\* reference in use.
PassedRootsEmpty(r) ==
  \A q \in 0..r[1]-1 : kheaproots[q].page = 0 => kheaproots[q].inuse = {}
freepageref(r) == kheaproots' = [kheaproots EXCEPT ![r[1]].inuse = @ \ {r[2]}]

\* What kfree refuses: no block starts there, or it heads the free list.
Misplaced(r, offset) ==
  \/ offset % BlockSizes[ref[r].type] # 0
  \/ ref[r].free # <<>> /\ Head(ref[r].free) = offset

\* kfree of a block a caller holds: push it on its page's free list; a page
\* that is all free leaves the lists and goes back without the lock.
kfree(t, b) ==
  /\ At(t, "idle")
  /\ live' = live \ {b}
  /\ LET i == SelectInSeq(allbase, LAMBDA q : ref[q].page = PageOf(b.addr))
         r == allbase[i]
         offset == b.addr % PageSize
         free == <<offset>> \o ref[r].free
         freepage == [OutOfHeap EXCEPT !.pc = "freepage", !.page = PageOf(b.addr)]
     IN \/ /\ i = 0
           /\ stopped' = IF offset = 0 THEN "no" ELSE "bad free"
           /\ Goto(t, [freepage EXCEPT !.sz = b.size])
           /\ UNCHANGED <<lists, kheaproots>>
        \/ /\ i # 0
           /\ Misplaced(r, offset)
           /\ stopped' = "bad free"
           /\ UNCHANGED <<lists, kheaproots, thr>>
        \/ /\ i # 0
           /\ ~Misplaced(r, offset)
           /\ ref' = [ref EXCEPT ![r].free = free]
           /\ IF Len(free) < NumBlocks(ref[r].type)
              THEN /\ Return(t)
                   /\ UNCHANGED <<kheaproots, sizebases, allbase, stopped>>
              ELSE /\ remove_lists(r)
                   /\ stopped' = IF PassedRootsEmpty(r) THEN "no" ELSE "lost references"
                   /\ freepageref(r)
                   /\ Goto(t, [freepage EXCEPT !.sz = 1])
  /\ UNCHANGED <<pool, fails>>

free_kpages(t) ==
  /\ At(t, "freepage")
  /\ pool' = pool \cup Run(thr[t].page, PagesOf(thr[t].sz))
  /\ Return(t)
  /\ UNCHANGED <<lists, kheaproots, live, fails, stopped>>

HeapNext == \E t \in Threads :
  \/ \E sz \in Requests : kmalloc(t, sz)
  \/ KmallocBig(t) \/ SubpageGetPage(t) \/ allocpageref(t)
  \/ GetRefPage(t) \/ allocpagerefpage(t) \/ DropSpare(t) \/ SubpageUndo(t)
  \/ \E b \in live : kfree(t, b)
  \/ free_kpages(t)

HeapSpec == HeapInit /\ [][HeapNext]_heapvars

-----------------------------------------------------------------------------
(* The checks kmalloc.c makes when it is compiled with SLOWER: here they    *)
(* are evaluated in every state.                                            *)

checksubpage(r) ==
  /\ ref[r].type \in Types
  /\ \A i \in DOMAIN ref[r].free :
       /\ ref[r].free[i] \in 0..PageSize-1
       /\ ref[r].free[i] % BlockSizes[ref[r].type] = 0
       /\ \A j \in 1..i-1 : ref[r].free[i] # ref[r].free[j]

checksubpages ==
  /\ \A s \in Types : \A i \in DOMAIN sizebases[s] : checksubpage(sizebases[s][i])
  /\ \A i \in DOMAIN allbase : checksubpage(allbase[i])
  /\ Cardinality(UNION {{s} \X DOMAIN sizebases[s] : s \in Types}) = Len(allbase)
-----------------------------------------------------------------------------
HeapTypeOK ==
  /\ pool \subseteq Pages
  /\ kheaproots \in [Roots -> [page : Pages \cup {0}, inuse : SUBSET (0..RefsPerPage-1)]]
  /\ \A r \in Refs : ref[r].page \in Pages \cup {0} /\ ref[r].type \in Types
  /\ \A i \in DOMAIN allbase : allbase[i] \in Refs
  /\ \A b \in live : b.size \in Requests /\ PageOf(b.addr) \in Pages
  /\ \A t \in Threads : thr[t].pc \in {"idle", "big", "page", "ref", "refpage",
       "install", "spare", "undo", "freepage"}
  /\ fails \in 0..MaxFail

Bytes(b) == b.addr..b.addr+b.size-1

\* No byte is given to two callers, and none of a caller's bytes lies in a
\* block that is on a free list: whatever the threads do while the lock is
\* released around alloc_kpages, kmalloc hands out memory only once.
BlocksDisjoint ==
  /\ \A a, b \in live : a # b => Bytes(a) \cap Bytes(b) = {}
  /\ \A b \in live, i \in DOMAIN allbase : LET r == allbase[i] IN
       \A k \in DOMAIN ref[r].free :
         LET a == Addr(ref[r].page, ref[r].free[k])
         IN Bytes(b) \cap (a..a+BlockSizes[ref[r].type]-1) = {}

\* Who has page p: the pool, the heap's lists, a root of page references, a big
\* block, or a thread, for the blocks, for the references or to give it back.
IsBig(b) == b.size >= LargestSubpage
Owners(p) ==
       {"pool"} \X (pool \cap {p})
  \cup {"heap"} \X {r \in Refs : r \in Range(allbase) /\ ref[r].page = p}
  \cup {"root"} \X {q \in Roots : kheaproots[q].page = p}
  \cup {"block"} \X {b \in live : IsBig(b) /\ p \in Run(PageOf(b.addr), PagesOf(b.size))}
  \cup {"page"} \X {t \in Threads : thr[t].pc # "freepage" /\ thr[t].page = p}
  \cup {"spare"} \X {t \in Threads : thr[t].spare = p}
  \cup {"freed"} \X {t \in Threads : thr[t].pc = "freepage" /\ p \in Run(thr[t].page, PagesOf(thr[t].sz))}

\* No page is lost or has two owners.  No path of kmalloc or kfree loses a page,
\* also not one that undoes half a request.
PagesAccounted == \A p \in Pages : \E o \in Owners(p) : Owners(p) = {o}

\* The two lists agree: each reference is on allbase once and on the list of
\* its block type, it is marked in use and its page is no other's; the heap
\* pages satisfy the checks of SLOWER, and only pages with a block in use stay.
ListsAgree ==
  /\ checksubpages
  /\ IsInjective(allbase)
  /\ \A i, j \in DOMAIN allbase : i # j => ref[allbase[i]].page # ref[allbase[j]].page
  /\ \A s \in Types : Range(sizebases[s]) = {r \in Range(allbase) : ref[r].type = s}
  /\ \A r \in Range(allbase) : /\ r[2] \in kheaproots[r[1]].inuse
                               /\ kheaproots[r[1]].page # 0
                               /\ Len(ref[r].free) < NumBlocks(ref[r].type)

\* kfree finds every block a caller holds on the page it came from, and takes
\* it.  The kernel stops only in freepageref's KASSERT, and only after so many
\* requests went without a page for their references that they filled a root.
NeverRefused ==
  stopped # "no" => /\ stopped = "lost references"
                    /\ \E q \in Roots : kheaproots[q] = [page |-> 0, inuse |-> 0..RefsPerPage-1]

\* The heap's accounts agree.
HeapSound == HeapTypeOK /\ PagesAccounted /\ ListsAgree /\ NeverRefused

\* kmalloc hands out no byte twice and loses no page, whatever its threads do
\* while the lock is released around alloc_kpages and whichever request fails.
HeapKept == BlocksDisjoint /\ HeapSound
=============================================================================
