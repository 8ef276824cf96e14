------------------------------ MODULE Coremap ------------------------------
(***************************************************************************)
(* The physical frame allocator: kern/vm/coremap.c on top of               *)
(* ram_stealmem (kern/arch/mips/vm/ram.c), with the column of the page     *)
(* tables (kern/vm/pt.c) that the allocator writes when it evicts a page.  *)
(*                                                                         *)
(* Grain: one step is one critical section of freemem_lock or              *)
(* stealmem_lock, or one access to shared data made outside any lock.  The *)
(* code between two steps may be interrupted (the kernel is preemptive and *)
(* swap_out sleeps in the file system).                                    *)
(*                                                                         *)
(* Three disciplines share the actions:                                    *)
(*   Spec        any thread may step at any time;                          *)
(*   AtomicSpec  one allocator call at a time, many address spaces;        *)
(*   SerialSpec  one call at a time and one populated address space, which *)
(*               is how the menu uses the kernel (menu.c: common_prog      *)
(*               starts one program and waits for it).                     *)
(***************************************************************************)
EXTENDS Integers, FiniteSets, TLC

CONSTANTS
    UserThreads,    \* threads of user processes; each stands for its addrspace
    KernelThreads,  \* threads whose proc_getas() is NULL
    NoAs,           \* the NULL address space
    Pages,          \* the user pages a program can fault on
    VaZero,         \* virtual address 0, the reset value of coremap[].vaddr
    NFrames,        \* nRamFrames
    FirstFree,      \* firstpaddr / PAGE_SIZE when coremap_init runs
    MaxReq          \* bound: the largest number of pages of a kernel request

(***************************************************************************)
(* The frame of the exception handlers (0) and at least one frame of the   *)
(* kernel image lie below the first allocatable frame, and there is one.   *)
(***************************************************************************)
ASSUME CoremapAssumption ==
    /\ NFrames \in Nat /\ FirstFree \in Nat
    /\ 2 <= FirstFree /\ FirstFree < NFrames
    /\ MaxReq \in Nat \ {0}
    /\ VaZero \notin Pages
    /\ NoAs \notin UserThreads
    /\ UserThreads \cap KernelThreads = {}

VARIABLES
    status,         \* coremap[].status
    as,             \* coremap[].as
    vaddr,          \* coremap[].vaddr
    alloc_size,     \* coremap[].alloc_size
    firstpaddr,     \* ram.c: first frame never handed out
    current_victim, \* coremap.c: the round-robin hand
    pfn,            \* pfn[t][v]: the frame in t's page-table entry of v
    kheld,          \* the blocks alloc_kpages returned and nobody freed yet
    call            \* call[t]: the allocator call t is executing

entries == <<status, as, vaddr, alloc_size>>
vars == <<status, as, vaddr, alloc_size, firstpaddr, current_victim, pfn,
          kheld, call>>

Threads == UserThreads \cup KernelThreads
Frames  == 0 .. NFrames - 1
Vas     == Pages \cup {VaZero}

PFN_NOT_USED == 0     \* a valid entry whose page was evicted
NotValid     == -1    \* the valid bit of the entry is 0

Run(first, n) == first .. first + n - 1
Block(first, n) == [first |-> first, n |-> n]
Frames_of(b) == Run(b.first, b.n)

IdleCall == [op |-> "none", pc |-> "idle", va |-> VaZero, npages |-> 0,
             pos |-> 0, len |-> 0, i |-> 0, victim_va |-> VaZero]

At(t, pc) == call[t].pc = pc
Becomes(t, c) == call' = [call EXCEPT ![t] = c]

(***************************************************************************)
(* coremap_init: every frame is `clean', also those below firstpaddr.      *)
(***************************************************************************)
Init ==
    /\ status = [f \in Frames |-> "clean"]
    /\ as = [f \in Frames |-> NoAs]
    /\ vaddr = [f \in Frames |-> VaZero]
    /\ alloc_size = [f \in Frames |-> 0]
    /\ firstpaddr = FirstFree
    /\ current_victim = 0
    /\ pfn = [t \in UserThreads |-> [v \in Vas |-> NotValid]]
    /\ kheld = {}
    /\ call = [t \in Threads |-> IdleCall]

-----------------------------------------------------------------------------
(***************************************************************************)
(* Allocation, first phase: a frame that was freed before, else a frame    *)
(* never used.                                                             *)
(***************************************************************************)
LeastFree(f) ==
    /\ f \in Frames \ {0}
    /\ status[f] = "free"
    /\ \A g \in 1 .. f - 1 : status[g] # "free"

\* Mutant: the fault handler does not look at the page table first.
Missing_Unchecked(t, v) == TRUE

\* vm_fault asks for a frame when the page has none.
Missing(t, v) == pfn[t][v] \in {NotValid, PFN_NOT_USED}

\* getppage_user: the search; the lock is released before the frame is taken.
UserSearch(t, v) ==
    /\ At(t, "idle") /\ Missing(t, v)
    /\ LET c == [IdleCall EXCEPT !.op = "page_alloc", !.va = v, !.npages = 1]
       IN  \/ \E f \in Frames :
                /\ LeastFree(f)
                /\ Becomes(t, [c EXCEPT !.pc = "claim", !.pos = f])
           \/ /\ \A f \in Frames : ~LeastFree(f)
              /\ Becomes(t, [c EXCEPT !.pc = "steal"])
    /\ UNCHANGED <<entries, firstpaddr, current_victim, pfn, kheld>>

(***************************************************************************)
(* getfreeppages looks for a run that starts after a frame that is not     *)
(* free.  (Frame 1 belongs to the kernel image and is never free, so its   *)
(* search never starts inside a run that reaches frame 0.)                 *)
(***************************************************************************)
FreeRunAt(f, n) ==
    /\ f >= 1 /\ f + n <= NFrames
    /\ status[f - 1] # "free"
    /\ \A g \in Run(f, n) : status[g] = "free"

FirstFreeRun(f, n) == FreeRunAt(f, n) /\ \A g \in 1 .. f - 1 : ~FreeRunAt(g, n)

Fix(run) == status' = [f \in Frames |-> IF f \in run THEN "fixed" ELSE status[f]]

KernSearch(t, n) ==
    /\ At(t, "idle")
    /\ LET c == [IdleCall EXCEPT !.op = "alloc_kpages", !.npages = n]
       IN  \/ \E f \in Frames :
                /\ FirstFreeRun(f, n)
                /\ Fix(Run(f, n))
                /\ alloc_size' = [alloc_size EXCEPT ![f] = n]
                /\ Becomes(t, [c EXCEPT !.pc = "mark", !.pos = f])
           \/ /\ \A f \in Frames : ~FirstFreeRun(f, n)
              /\ Becomes(t, [c EXCEPT !.pc = "steal"])
              /\ UNCHANGED <<status, alloc_size>>
    /\ UNCHANGED <<as, vaddr, firstpaddr, current_victim, pfn, kheld>>

\* Where a call goes once it knows its frames.
Take(c) == IF c.op = "page_alloc" THEN "claim" ELSE "mark"

\* ram_stealmem's bound: the memory ends with frame NFrames - 1.
CanSteal(n) == firstpaddr + n <= NFrames

Steal(t) ==
    /\ At(t, "steal")
    /\ \/ /\ CanSteal(call[t].npages)
          /\ firstpaddr' = firstpaddr + call[t].npages
          /\ Becomes(t, [call[t] EXCEPT !.pc = Take(call[t]), !.pos = firstpaddr])
       \/ /\ ~CanSteal(call[t].npages)
          /\ Becomes(t, [call[t] EXCEPT !.pc = "wrap"])
          /\ UNCHANGED firstpaddr
    /\ UNCHANGED <<entries, current_victim, pfn, kheld>>

-----------------------------------------------------------------------------
(***************************************************************************)
(* Allocation, second phase: get_victim_coremap, run without any lock.     *)
(* One iteration is three steps: the wrap test, the reading and advance of *)
(* the hand, the test of the frame.                                        *)
(***************************************************************************)
\* Mutants: a status is missing from the test of get_victim_coremap.
Evictable_Fixed(f) == status[f] # "clean"
Evictable_Clean(f) == status[f] # "fixed"

Evictable(f) == status[f] \notin {"fixed", "clean"}

\* Mutant: the comparison is inverted.
HandWrapped_Inverted(c) ==
    IF current_victim + (c.npages - c.len) < NFrames THEN 1 ELSE current_victim

HandWrapped(c) ==
    IF current_victim + (c.npages - c.len) >= NFrames THEN 1 ELSE current_victim

\* Mutant: the hand moves only past a frame it rejects.
NextHand_Stays(h) == IF Evictable(h) THEN h ELSE (h + 1) % NFrames

NextHand(h) == (h + 1) % NFrames

ScanWrap(t) ==
    /\ At(t, "wrap")
    /\ current_victim' = HandWrapped(call[t])
    /\ Becomes(t, [call[t] EXCEPT !.pc = "take"])
    /\ UNCHANGED <<entries, firstpaddr, pfn, kheld>>

ScanTake(t) ==
    /\ At(t, "take")
    /\ current_victim' = NextHand(current_victim)
    /\ Becomes(t, [call[t] EXCEPT !.pc = "test", !.pos = current_victim])
    /\ UNCHANGED <<entries, firstpaddr, pfn, kheld>>

\* What getppages / getppage_user does with a complete run of victims: a
\* kernel thread has no address space to evict from and gets 0.
Chosen(t, c) ==
    IF t \in KernelThreads
    THEN IdleCall
    ELSE [c EXCEPT !.pc = "evict", !.pos = c.pos - (c.npages - 1), !.len = 0]

Restart(c) == [c EXCEPT !.pc = "wrap", !.len = 0]

ScanTest(t) ==
    /\ At(t, "test")
    /\ LET c == call[t]
       IN  \/ /\ ~Evictable(c.pos)
              /\ Becomes(t, Restart(c))
           \/ /\ Evictable(c.pos) /\ c.len + 1 < c.npages
              /\ Becomes(t, [c EXCEPT !.pc = "wrap", !.len = c.len + 1])
           \/ /\ Evictable(c.pos) /\ c.len + 1 >= c.npages
              /\ Becomes(t, Chosen(t, c))
    /\ UNCHANGED <<entries, firstpaddr, current_victim, pfn, kheld>>

(***************************************************************************)
(* Allocation, third phase: the victims go to the swap file one by one and *)
(* leave the page table OF THE CALLER, whoever they belong to.             *)
(***************************************************************************)
Evict(t) ==
    /\ At(t, "evict")
    /\ LET c == call[t]
       IN  Becomes(t, [c EXCEPT !.pc = "unmap", !.victim_va = vaddr[c.pos + c.i]])
    /\ UNCHANGED <<entries, firstpaddr, current_victim, pfn, kheld>>

\* Mutant: pt_set_pa(victim_va, 0) is forgotten.
Unmap_KeepsEntry(t) ==
    /\ At(t, "unmap")
    /\ LET c == call[t]
       IN  \/ /\ c.i + 1 < c.npages
              /\ Becomes(t, [c EXCEPT !.pc = "evict", !.i = c.i + 1])
           \/ /\ c.i + 1 >= c.npages
              /\ Becomes(t, [c EXCEPT !.pc = Take(c), !.i = 0])
    /\ UNCHANGED <<entries, firstpaddr, current_victim, pfn, kheld>>

Unmap(t) ==
    /\ At(t, "unmap")
    /\ LET c == call[t]
       IN  /\ pfn' = [pfn EXCEPT ![t][c.victim_va] = PFN_NOT_USED]
           /\ \/ /\ c.i + 1 < c.npages
                 /\ Becomes(t, [c EXCEPT !.pc = "evict", !.i = c.i + 1])
              \/ /\ c.i + 1 >= c.npages
                 /\ Becomes(t, [c EXCEPT !.pc = Take(c), !.i = 0])
    /\ UNCHANGED <<entries, firstpaddr, current_victim, kheld>>

(***************************************************************************)
(* Allocation, last phase: the frames are recorded under freemem_lock; a   *)
(* user frame then enters the page table (vm_fault).                       *)
(***************************************************************************)
Claim(t) ==
    /\ At(t, "claim")
    /\ LET c == call[t]
       IN  /\ status' = [status EXCEPT ![c.pos] = "dirty"]
           /\ as' = [as EXCEPT ![c.pos] = t]
           /\ vaddr' = [vaddr EXCEPT ![c.pos] = c.va]
           /\ alloc_size' = [alloc_size EXCEPT ![c.pos] = 1]
           /\ Becomes(t, [c EXCEPT !.pc = "map"])
    /\ UNCHANGED <<firstpaddr, current_victim, pfn, kheld>>

Map(t) ==
    /\ At(t, "map")
    /\ pfn' = [pfn EXCEPT ![t][call[t].va] = call[t].pos]
    /\ Becomes(t, IdleCall)
    /\ UNCHANGED <<entries, firstpaddr, current_victim, kheld>>

\* The other entries of the run keep as, vaddr and alloc_size.
Mark(t) ==
    /\ At(t, "mark")
    /\ LET c == call[t]
       IN  /\ Fix(Run(c.pos, c.npages))
           /\ alloc_size' = [alloc_size EXCEPT ![c.pos] = c.npages]
           /\ kheld' = kheld \cup {Block(c.pos, c.npages)}
    /\ Becomes(t, IdleCall)
    /\ UNCHANGED <<as, vaddr, firstpaddr, current_victim, pfn>>

-----------------------------------------------------------------------------
(***************************************************************************)
(* Release.  free_kpages trusts alloc_size and leaves vaddr as it was;     *)
(* page_free resets the whole entry.                                       *)
(***************************************************************************)
FreeEntries(run) ==
    /\ status' = [f \in Frames |-> IF f \in run THEN "free" ELSE status[f]]
    /\ as' = [f \in Frames |-> IF f \in run THEN NoAs ELSE as[f]]
    /\ alloc_size' = [f \in Frames |-> IF f \in run THEN 0 ELSE alloc_size[f]]

\* Mutant: free_kpages returns one frame only.
Recorded_One(f) == Run(f, 1)

Recorded(f) == Run(f, alloc_size[f])

FreeKpages(t, b) ==
    /\ At(t, "idle") /\ b \in kheld
    /\ FreeEntries(Recorded(b.first))
    /\ kheld' = kheld \ {b}
    /\ UNCHANGED <<vaddr, firstpaddr, current_victim, pfn, call>>

page_free(f) ==
    /\ status[f] # "fixed"          \* KASSERT
    /\ FreeEntries({f})
    /\ vaddr' = [vaddr EXCEPT ![f] = VaZero]

(***************************************************************************)
(* as_destroy -> pt_destroy: every valid entry gives its frame back.  An   *)
(* evicted page has frame number 0, and frame 0 is "freed" for it.  The    *)
(* table is not read again, so a visited entry is NotValid here.           *)
(***************************************************************************)
ExitBegin(t) ==
    /\ At(t, "idle") /\ \E v \in Vas : pfn[t][v] # NotValid
    /\ Becomes(t, [IdleCall EXCEPT !.op = "as_destroy", !.pc = "exit"])
    /\ UNCHANGED <<entries, firstpaddr, current_victim, pfn, kheld>>

ExitFree(t, v) ==
    /\ At(t, "exit") /\ pfn[t][v] # NotValid
    /\ page_free(pfn[t][v])
    /\ pfn' = [pfn EXCEPT ![t][v] = NotValid]
    /\ UNCHANGED <<firstpaddr, current_victim, kheld, call>>

ExitEnd(t) ==
    /\ At(t, "exit") /\ \A v \in Vas : pfn[t][v] = NotValid
    /\ Becomes(t, IdleCall)
    /\ UNCHANGED <<entries, firstpaddr, current_victim, pfn, kheld>>

-----------------------------------------------------------------------------
(***************************************************************************)
(* The three disciplines.                                                  *)
(***************************************************************************)
Continue(t) ==
    \/ Steal(t) \/ ScanWrap(t) \/ ScanTake(t) \/ ScanTest(t) \/ Evict(t)
    \/ Claim(t) \/ Mark(t)
    \/ t \in UserThreads /\ (Unmap(t) \/ Map(t) \/ ExitEnd(t)
                             \/ \E v \in Vas : ExitFree(t, v))

Release(t) ==
    \/ \E b \in kheld : FreeKpages(t, b)
    \/ t \in UserThreads /\ ExitBegin(t)

Allocate(t) ==
    \/ \E n \in 1 .. MaxReq : KernSearch(t, n)
    \/ t \in UserThreads /\ \E v \in Pages : UserSearch(t, v)

Next == \E t \in Threads : Allocate(t) \/ Release(t) \/ Continue(t)

Spec == Init /\ [][Next]_vars

Quiet == \A t \in Threads : At(t, "idle")

AtomicNext ==
    \E t \in Threads : (Quiet /\ (Allocate(t) \/ Release(t))) \/ Continue(t)

AtomicSpec == Init /\ [][AtomicNext]_vars

Populated(t) == \E v \in Vas : pfn[t][v] # NotValid
Alone(t) == \A u \in UserThreads \ {t} : ~Populated(u)

SerialNext ==
    \E t \in Threads :
        \/ Quiet /\ (t \in UserThreads => Alone(t)) /\ Allocate(t)
        \/ Quiet /\ Release(t)
        \/ Continue(t)

SerialSpec == Init /\ [][SerialNext]_vars

\* A thread that is running in the allocator is scheduled again and again.
Fairness == \A t \in Threads : WF_vars(Continue(t))

SerialFairSpec == SerialSpec /\ Fairness

-----------------------------------------------------------------------------
Status == {"fixed", "free", "dirty", "clean"}
Ops == {"none", "page_alloc", "alloc_kpages", "as_destroy"}
Pcs == {"idle", "claim", "steal", "mark", "wrap", "take", "test", "evict",
        "unmap", "map", "exit"}

Calls == [op : Ops, pc : Pcs, va : Vas, npages : 0 .. MaxReq,
          pos : Frames, len : Nat, i : Nat, victim_va : Vas]

(* Type invariant. *)
TypeOK ==
    /\ status \in [Frames -> Status]
    /\ as \in [Frames -> Threads \cup {NoAs}]
    /\ vaddr \in [Frames -> Vas]
    /\ alloc_size \in [Frames -> 0 .. MaxReq]
    /\ firstpaddr \in FirstFree .. NFrames
    /\ current_victim \in Frames
    /\ pfn \in [UserThreads -> [Vas -> Frames \cup {NotValid}]]
    /\ kheld \subseteq [first : Frames, n : 1 .. MaxReq]
    /\ call \in [Threads -> Calls]

\* The frames a call has taken but not yet recorded, or is recording.
InFlight(t) ==
    IF call[t].pc \in {"claim", "mark"}
    THEN Run(call[t].pos, call[t].npages) ELSE {}

(* A page-table entry that names a frame is confirmed by the coremap: the    *)
(* frame is a user frame, recorded for that page of that address space.  So  *)
(* two entries never share a frame and none points into kernel memory.       *)
PageFrameSound ==
    \A t \in UserThreads, v \in Vas :
        pfn[t][v] > 0 => /\ status[pfn[t][v]] = "dirty"
                         /\ as[pfn[t][v]] = t
                         /\ vaddr[pfn[t][v]] = v

(* Conversely, a user frame recorded for a page is the frame of that page:   *)
(* unless a call is moving it, no page is lost while its frame stays in use. *)
NoLostPage ==
    Quiet => \A f \in Frames :
                status[f] = "dirty" => pfn[as[f]][vaddr[f]] = f

(* A block that alloc_kpages returned stays reserved, whole, away from the   *)
(* kernel image and from the other blocks, until free_kpages; and its        *)
(* alloc_size is still the one free_kpages will need.                        *)
KernelBlocksIntact ==
    /\ \A b \in kheld :
          /\ b.first >= FirstFree /\ b.first + b.n <= NFrames
          /\ alloc_size[b.first] = b.n
          /\ \A f \in Frames_of(b) : status[f] = "fixed"
    /\ \A b, c \in kheld : b # c => Frames_of(b) \cap Frames_of(c) = {}

(* No frame is lost to the kernel: what is `fixed` belongs to a held block   *)
(* or to one that getppages is marking.                                      *)
NoFixedLeak ==
    \A f \in Frames :
        status[f] = "fixed" =>
            \/ \E b \in kheld : f \in Frames_of(b)
            \/ \E t \in Threads : f \in InFlight(t)

(* `clean` and firstpaddr agree: every frame above the boot frontier that    *)
(* ram_stealmem still has is clean, a frame it handed out is clean only      *)
(* until the call that got it records it, and the kernel image below the     *)
(* frontier is never touched.                                                *)
StealFrontier ==
    /\ \A f \in 1 .. FirstFree - 1 : status[f] = "clean"
    /\ \A f \in firstpaddr .. NFrames - 1 : status[f] = "clean"
    /\ \A f \in FirstFree .. firstpaddr - 1 :
          status[f] = "clean" => \E t \in Threads : f \in InFlight(t)

(* The KASSERTs of getfreeppages (coremap.c:292) and page_free (coremap.c:   *)
(* 311) hold: a free frame has no alloc_size left, and as_destroy never      *)
(* releases a frame that the kernel holds.                                   *)
NoPanic ==
    /\ \A f \in Frames : status[f] = "free" => alloc_size[f] = 0 /\ as[f] = NoAs
    /\ \A t \in UserThreads, v \in Vas :
          At(t, "exit") /\ pfn[t][v] # NotValid => status[pfn[t][v]] # "fixed"

(* What get_victim_coremap hands over is a contiguous run of frames in use,  *)
(* inside the allocatable memory: the wrap of the hand never joins the end   *)
(* of memory to its beginning.                                               *)
VictimRunSound ==
    \A t \in Threads :
        At(t, "evict") /\ call[t].i = 0 =>
            \A f \in Run(call[t].pos, call[t].npages) :
                f \in FirstFree .. NFrames - 1 /\ Evictable(f)

Scanning(t) == call[t].pc \in {"wrap", "take", "test"}

\* A run that the scan can return; the last frame never is part of one.
EvictableRun(n) ==
    \E s \in 1 .. NFrames - 1 - n : \A f \in Run(s, n) : Evictable(f)

(* The scan finds a run when there is one to find.                           *)
ScanTerminates ==
    \A t \in Threads :
        Scanning(t) /\ EvictableRun(call[t].npages) ~> ~Scanning(t)

\* get_victim_coremap is about to return f (a one-frame request).
Selects(f) == \E t \in Threads : At(t, "test") /\ call[t].pos = f /\ Evictable(f)

OneFrameRequests == \A t \in Threads : call[t].npages <= 1

FairTo(f) ==
    /\ []<>(\E g \in Frames : Selects(g))
    /\ <>[](status[f] = "dirty" /\ OneFrameRequests)
    => []<>Selects(f)

(* Round robin (one-frame requests): a frame that stays in use is selected   *)
(* again and again, as long as there are selections.  Every frame but the    *)
(* last takes its turn.                                                      *)
RoundRobin == \A f \in FirstFree .. NFrames - 2 : FairTo(f)

-----------------------------------------------------------------------------
\* The pool a caller sees: the frames in page tables and the held blocks.
Home(s) == IF pfn[s[1]][s[2]] > 0 THEN pfn[s[1]][s[2]] ELSE 0

homes == [s \in UserThreads \X Vas |-> Home(s)]

Pool == INSTANCE FramePool WITH
            Slots <- UserThreads \X Vas,
            FirstFrame <- FirstFree,
            home <- homes,
            blocks <- kheld

(* Every step of the allocator is a step of the pool: frames are only given  *)
(* when nobody uses them, whatever path the search took.                     *)
PoolSpec == Pool!Spec

-----------------------------------------------------------------------------
(* The inductive invariant of SerialSpec: what must be true at every program  *)
(* point of a call for the properties above to survive the next step.       *)
Mapped(f) == \E t \in UserThreads, v \in Vas : pfn[t][v] = f
InBlock(f) == \E b \in kheld : f \in Frames_of(b)

\* The frames that ram_stealmem has given to the coremap.
Managed == FirstFree .. firstpaddr - 1
Unused(run) == \A f \in run : ~Mapped(f) /\ ~InBlock(f)

Victims(c) == Run(c.pos, c.npages)
AllEvictable(run) == \A f \in run : Evictable(f)

\* One call at a time, and allocation only with the other tables empty.
OneCall == \A t, u \in Threads : t # u => At(t, "idle") \/ At(u, "idle")

AllocPcs == {"claim", "steal", "mark", "wrap", "take", "test", "evict",
             "unmap", "map"}

\* Which operation is at which program point, with which arguments.
CallShape(t) ==
    LET c == call[t] IN
    /\ c.pc = "idle" => c = IdleCall
    /\ c.pc = "exit" => t \in UserThreads
    /\ c.pc \in AllocPcs =>
         /\ \/ /\ c.op = "page_alloc" /\ c.npages = 1 /\ c.va \in Pages
               /\ t \in UserThreads /\ c.pc # "mark" /\ Missing(t, c.va)
            \/ /\ c.op = "alloc_kpages" /\ c.npages \in 1 .. MaxReq
               /\ c.pc \notin {"claim", "map"}
         /\ t \in UserThreads => Alone(t)
         /\ c.len < c.npages /\ c.i < c.npages
         /\ ~Scanning(t) => c.len = 0
         /\ c.pc \notin {"evict", "unmap"} => c.i = 0
         /\ c.pc \in {"evict", "unmap"} => t \in UserThreads

\* The hand h is far enough from the end of memory for the rest of the run.
Room(c, h) == h + (c.npages - c.len) < NFrames

\* The scan: the last len frames before the hand are victims so far, and the
\* hand has room for the rest.  (Frame 0 is looked at only by the first scan.)
ScanState(t) ==
    LET c == call[t] IN
    /\ c.pc \in {"wrap", "take"} /\ c.len > 0 =>
         /\ Room(c, current_victim) /\ current_victim - c.len >= 1
         /\ AllEvictable(Run(current_victim - c.len, c.len))
    /\ c.pc = "take" => Room(c, current_victim) \/ (c.len = 0 /\ current_victim = 1)
    /\ c.pc = "test" =>
         /\ c.pos \in Frames /\ current_victim = c.pos + 1 /\ c.pos <= NFrames - 2
         /\ Room(c, c.pos) \/ (c.len = 0 /\ c.pos = 1)
         /\ \/ c.pos - c.len >= 1
            \/ c.len = 0 /\ c.pos = 0 /\ status[0] = "clean"
         /\ AllEvictable(Run(c.pos - c.len, c.len))

\* The eviction: the victims stay victims, and those done are out of the table.
EvictState(t) ==
    LET c == call[t] IN
    c.pc \in {"evict", "unmap"} =>
        /\ Victims(c) \subseteq Managed /\ AllEvictable(Victims(c))
        /\ \A f \in Run(c.pos, c.i) : ~Mapped(f)
        /\ c.pc = "unmap" => c.victim_va = vaddr[c.pos + c.i]

\* The frames a call is about to record have no other user.
TakeState(t) ==
    LET c == call[t] IN
    /\ c.pc \in {"claim", "mark"} => Victims(c) \subseteq Managed /\ Unused(Victims(c))
    /\ c.pc = "claim" => status[c.pos] # "fixed"
    /\ c.pc = "map" =>
         /\ c.pos \in Managed /\ ~Mapped(c.pos)
         /\ status[c.pos] = "dirty" /\ as[c.pos] = t /\ vaddr[c.pos] = c.va

\* Until the first scan moves the hand, nothing was ever evicted.
HandState ==
    current_victim = 0 =>
        /\ status[0] = "clean" /\ ~Mapped(0)
        /\ \A t \in Threads : call[t].pc \notin {"test", "evict", "unmap"}

FrameZero == status[0] \in {"clean", "free"}

FreeReset == \A f \in Frames : status[f] = "free" => alloc_size[f] = 0 /\ as[f] = NoAs

IInv ==
    /\ TypeOK /\ OneCall /\ HandState /\ FrameZero /\ FreeReset
    /\ PageFrameSound /\ KernelBlocksIntact /\ NoFixedLeak /\ StealFrontier
    /\ \A t \in Threads : CallShape(t) /\ ScanState(t) /\ EvictState(t) /\ TakeState(t)

\* User pages are interchangeable: no definition above names one.
PageSymmetry == Permutations(Pages)
=============================================================================
