------------------------------ MODULE Swapfile ------------------------------
(***************************************************************************)
(* The swap file: kern/vm/swapfile.c, with the column of the page tables   *)
(* (pt.c: swap_offset) that remembers where a page went, and the calls of  *)
(* as_create and as_destroy (addrspace.c) that touch the slots.            *)
(*                                                                         *)
(* Grain: one step is one critical section of filelock, one transfer       *)
(* (which sleeps in the file system), or one access outside the lock.      *)
(* A slot is named by its index; the offset of slot s is s * PAGE_SIZE.    *)
(* Which page is evicted and in which frame it lies is left open: mem is   *)
(* the content of a page wherever it is resident.                          *)
(***************************************************************************)
EXTENDS Integers, FiniteSets

CONSTANTS
    Procs,      \* user processes, one thread each
    Pages,      \* the pages of an address space
    NumPages,   \* NUM_PAGES, the number of slots
    Contents,   \* what a page can hold
    Fresh,      \* Fresh[v]: content of page v before the first store
    NoPage,     \* the argument of no call
    MaxOpens    \* bound: the address spaces created in a behaviour

ASSUME SwapfileAssumption ==
    /\ NumPages \in Nat \ {0}
    /\ Fresh \in [Pages -> Contents]
    /\ NoPage \notin Pages
    /\ IsFiniteSet(Procs) /\ IsFiniteSet(Pages)
    /\ MaxOpens \in Nat

VARIABLES
    free,           \* swap_list[].free
    swap_offset,    \* swap_list[].swap_offset
    file,           \* the pages of emu0:/SWAPFILE
    live,           \* the processes that have an address space
    offset,         \* offset[p][v]: swap_offset in p's page-table entry of v
    mem,            \* mem[p][v]: the content of v in p's memory
    io,             \* io[p]: the swap call that p is executing
    opens,          \* references to the swap file's vnode v; 0: v is NULL
    stopped,        \* why the kernel stopped, or "no"
    event           \* the last store or exit of a program

slots == <<free, swap_offset>>
pages == <<offset, mem>>
rest == <<opens, stopped, event>>
vars == <<slots, file, live, pages, io, rest>>

Slots == 0 .. NumPages - 1
Resident == -1

IdleIo == [pc |-> "idle", va |-> NoPage, slot |-> 0]

At(p, pc) == io[p].pc = pc
Goes(p, c) == io' = [io EXCEPT ![p] = c]

\* Static data is zero: no slot is free before the first as_create.
Init ==
    /\ free = [s \in Slots |-> FALSE]
    /\ swap_offset = [s \in Slots |-> 0]
    /\ file \in [Slots -> Contents]
    /\ live = {}
    /\ offset = [p \in Procs |-> [v \in Pages |-> Resident]]
    /\ mem = [p \in Procs |-> Fresh]
    /\ io = [p \in Procs |-> IdleIo]
    /\ opens = 0
    /\ stopped = "no"
    /\ event = <<"boot">>

Stop(why) == stopped' = why /\ UNCHANGED <<slots, file, live, pages, io, opens, event>>

-----------------------------------------------------------------------------
(***************************************************************************)
(* swap_out: a free slot is found, the page is written, and only then is   *)
(* the slot taken; the offset returned is read after the lock is released. *)
(***************************************************************************)
\* Mutant: the search may stop at a used slot.
FirstFree_Any(s) == s \in Slots

FirstFree(s) == s \in Slots /\ free[s] /\ \A r \in 0 .. s - 1 : ~free[r]

OutFind(p, v) ==
    /\ At(p, "idle") /\ offset[p][v] = Resident
    /\ \/ \E s \in Slots :
             /\ FirstFree(s)
             /\ Goes(p, [pc |-> "write", va |-> v, slot |-> s])
             /\ UNCHANGED <<slots, file, live, pages, rest>>
       \/ /\ \A s \in Slots : ~free[s]
          /\ Stop("full")

OutWrite(p) ==
    /\ At(p, "write")
    /\ \/ /\ file' = [file EXCEPT ![io[p].slot] = mem[p][io[p].va]]
          /\ Goes(p, [io[p] EXCEPT !.pc = "mark"])
          /\ UNCHANGED <<slots, live, pages, rest>>
       \/ Stop("io")

\* Mutant: the slot is not marked.
OutMark_Forgets(p) ==
    /\ At(p, "mark")
    /\ swap_offset' = [swap_offset EXCEPT ![io[p].slot] = io[p].slot]
    /\ Goes(p, [io[p] EXCEPT !.pc = "return"])
    /\ UNCHANGED <<free, file, live, pages, rest>>

OutMark(p) ==
    /\ At(p, "mark")
    /\ free' = [free EXCEPT ![io[p].slot] = FALSE]
    /\ swap_offset' = [swap_offset EXCEPT ![io[p].slot] = io[p].slot]
    /\ Goes(p, [io[p] EXCEPT !.pc = "return"])
    /\ UNCHANGED <<file, live, pages, rest>>

\* The caller stores what it got: pt_set_offset(as->pt, victim_va, ...).
OutReturn(p) ==
    /\ At(p, "return")
    /\ offset' = [offset EXCEPT ![p][io[p].va] = swap_offset[io[p].slot]]
    /\ Goes(p, IdleIo)
    /\ UNCHANGED <<slots, file, live, mem, rest>>

-----------------------------------------------------------------------------
(***************************************************************************)
(* swap_in, called by vm_fault: the slot is given up before it is read,    *)
(* and looked at once more after the unlock, for the result that vm_fault  *)
(* expects to be 0.                                                        *)
(***************************************************************************)
\* Mutant: the slot stays used.
InFree_KeepsSlot(p, v) ==
    /\ At(p, "idle") /\ offset[p][v] # Resident
    /\ swap_offset' = [swap_offset EXCEPT ![offset[p][v]] = 0]
    /\ Goes(p, [pc |-> "read", va |-> v, slot |-> offset[p][v]])
    /\ UNCHANGED <<free, file, live, pages, rest>>

InFree(p, v) ==
    /\ At(p, "idle") /\ offset[p][v] # Resident
    /\ LET s == offset[p][v]
       IN  /\ free' = [free EXCEPT ![s] = TRUE]
           /\ swap_offset' = [swap_offset EXCEPT ![s] = 0]
           /\ Goes(p, [pc |-> "read", va |-> v, slot |-> s])
    /\ UNCHANGED <<file, live, pages, rest>>

InRead(p) ==
    /\ At(p, "read")
    /\ \/ /\ mem' = [mem EXCEPT ![p][io[p].va] = file[io[p].slot]]
          /\ Goes(p, [io[p] EXCEPT !.pc = "check"])
          /\ UNCHANGED <<slots, file, live, offset, rest>>
       \/ Stop("io")

InReturn(p) ==
    /\ At(p, "check")
    /\ \/ /\ swap_offset[io[p].slot] = 0
          /\ offset' = [offset EXCEPT ![p][io[p].va] = Resident]
          /\ Goes(p, IdleIo)
          /\ UNCHANGED <<slots, file, live, mem, rest>>
       \/ /\ swap_offset[io[p].slot] # 0
          /\ Stop("assert")

-----------------------------------------------------------------------------
(***************************************************************************)
(* The life of an address space.  as_create resets the whole list, for     *)
(* everybody; as_destroy gives no slot back.  A process stores only to     *)
(* resident pages (any other access faults and goes through swap_in).      *)
(***************************************************************************)
ResetList ==
    /\ free' = [s \in Slots |-> TRUE]
    /\ swap_offset' = [s \in Slots |-> 0]

\* The file is opened again each time.
swapfile_init == ResetList /\ opens' = opens + 1

as_create(p) ==
    /\ p \notin live /\ opens < MaxOpens
    /\ live' = live \cup {p}
    /\ swapfile_init
    /\ UNCHANGED <<file, pages, io, stopped, event>>

as_destroy(p) ==
    /\ p \in live /\ At(p, "idle")
    /\ live' = live \ {p}
    /\ offset' = [offset EXCEPT ![p] = [v \in Pages |-> Resident]]
    /\ mem' = [mem EXCEPT ![p] = Fresh]
    /\ event' = <<"exit", p>>
    /\ UNCHANGED <<slots, file, io, opens, stopped>>

UserStore(p, v, d) ==
    /\ p \in live /\ At(p, "idle") /\ offset[p][v] = Resident
    /\ mem' = [mem EXCEPT ![p][v] = d]
    /\ event' = <<"store", p, v, d>>
    /\ UNCHANGED <<slots, file, live, offset, io, opens, stopped>>

\* vm_shutdown; vfs_close asserts that there is a vnode.
swap_shutdown ==
    \/ /\ opens > 0
       /\ opens' = opens - 1
       /\ ResetList
       /\ stopped' = "off"
       /\ UNCHANGED <<file, live, pages, io, event>>
    \/ opens = 0 /\ Stop("null")

-----------------------------------------------------------------------------
(***************************************************************************)
(* The disciplines: SerialSpec has one address space at a time (the menu   *)
(* waits for each program); ForkSpec creates address spaces at any time,   *)
(* one swap call at a time; OverlapSpec creates them only while nothing is *)
(* swapped out, but lets the calls interleave.                             *)
(***************************************************************************)
Continue(p) == OutWrite(p) \/ OutMark(p) \/ OutReturn(p) \/ InRead(p) \/ InReturn(p)

Begin(p) ==
    \/ as_destroy(p)
    \/ p \in live /\ \E v \in Pages : OutFind(p, v) \/ InFree(p, v)
    \/ \E v \in Pages, d \in Contents : UserStore(p, v, d)

Running == stopped = "no"
Quiet == \A p \in Procs : At(p, "idle")

SerialNext ==
    /\ Running
    /\ \/ \E p \in Procs : Begin(p) \/ Continue(p) \/ (live = {} /\ as_create(p))
       \/ Quiet /\ swap_shutdown

ForkNext ==
    /\ Running
    /\ \E p \in Procs : (Quiet /\ (Begin(p) \/ as_create(p))) \/ Continue(p)

NothingSwapped == Quiet /\ \A p \in Procs, v \in Pages : offset[p][v] = Resident

OverlapNext ==
    /\ Running
    /\ \E p \in Procs : Begin(p) \/ Continue(p) \/ (NothingSwapped /\ as_create(p))

SerialSpec  == Init /\ [][SerialNext]_vars
ForkSpec    == Init /\ [][ForkNext]_vars
OverlapSpec == Init /\ [][OverlapNext]_vars

-----------------------------------------------------------------------------
Calls == [pc : {"idle", "write", "mark", "return", "read", "check"},
          va : Pages \cup {NoPage}, slot : Slots]

(* Type invariant. *)
TypeOK ==
    /\ free \in [Slots -> BOOLEAN]
    /\ swap_offset \in [Slots -> Slots]
    /\ file \in [Slots -> Contents]
    /\ live \subseteq Procs
    /\ offset \in [Procs -> [Pages -> Slots \cup {Resident}]]
    /\ mem \in [Procs -> [Pages -> Contents]]
    /\ io \in [Procs -> Calls]
    /\ opens \in 0 .. MaxOpens
    /\ stopped \in {"no", "full", "io", "assert", "off", "null"}

Swapped == {x \in Procs \X Pages : offset[x[1]][x[2]] # Resident}

\* The slot of a swapped page that no swap_in has given up yet.
Owned(p, v) == offset[p][v] # Resident /\ ~(io[p].pc \in {"read", "check"} /\ io[p].va = v)

(* Two pages that are out never share a slot, and the slot of each is marked *)
(* used and remembers its own offset until the page comes back.              *)
SlotsDistinct ==
    Running => \A p, q \in Procs, v, w \in Pages :
        /\ Owned(p, v) => ~free[offset[p][v]] /\ swap_offset[offset[p][v]] = offset[p][v]
        /\ Owned(p, v) /\ Owned(q, w) /\ <<p, v>> # <<q, w>> => offset[p][v] # offset[q][w]

(* No slot is lost while a process runs: a used slot belongs to one of its   *)
(* pages or to the swap_out that is returning it.  (The slots of a process   *)
(* that ended stay used until the next as_create.)                           *)
NoSlotLeak ==
    live # {} =>
        \A s \in Slots : ~free[s] =>
            \/ \E p \in Procs, v \in Pages : Owned(p, v) /\ offset[p][v] = s
            \/ \E p \in Procs : At(p, "return") /\ io[p].slot = s

(* The kernel stops for lack of swap space only when every slot holds a page *)
(* of the process, and the KASSERT on the result of swap_in (vmc1.c:184)     *)
(* never fails.                                                              *)
PanicsHonest ==
    /\ stopped = "full" => Cardinality(Swapped) >= NumPages
    /\ stopped # "assert"

-----------------------------------------------------------------------------
\* What a process finds in its pages.
content == [p \in Procs |-> [v \in Pages |->
                IF offset[p][v] = Resident THEN mem[p][v] ELSE file[offset[p][v]]]]

Memory == INSTANCE UserMemory

(* Swapping cannot be seen: whatever goes out and comes back, a page holds   *)
(* what was stored in it last.                                               *)
MemorySpec == Memory!Spec

-----------------------------------------------------------------------------
(* The inductive invariant of SerialSpec.  The properties above do not       *)
(* follow from themselves: whether a slot may be written or given up depends *)
(* on where the call that uses it stands and on who else is alive.           *)
\* One address space at a time, and a process without one has no call, and
\* no page in the swap file.
OneAlive ==
    /\ \A p, q \in live : p = q
    /\ \A p \in Procs : p \notin live =>
           At(p, "idle") /\ \A v \in Pages : offset[p][v] = Resident

\* A page is in a call until the call ends.
CallHasPage == \A p \in Procs : ~At(p, "idle") => io[p].va \in Pages

\* swap_out: its page is still resident; the slot it found stays free until
\* it is marked, and holds the page from the transfer on.
OutCall(p) ==
    LET s == io[p].slot
        v == io[p].va
    IN  /\ io[p].pc \in {"write", "mark", "return"} => offset[p][v] = Resident
        /\ io[p].pc \in {"write", "mark"} => free[s]
        /\ io[p].pc \in {"mark", "return"} => file[s] = mem[p][v]
        /\ At(p, "return") =>
               /\ ~free[s] /\ swap_offset[s] = s
               /\ \A w \in Pages : offset[p][w] # s

\* swap_in: the slot given up still holds the page until it has been read.
InCall(p) ==
    LET s == io[p].slot
        v == io[p].va
    IN  /\ io[p].pc \in {"read", "check"} =>
               offset[p][v] = s /\ free[s] /\ swap_offset[s] = 0
        /\ At(p, "check") => mem[p][v] = file[s]

CallsSound == \A p \in live : OutCall(p) /\ InCall(p)

(* The inductive invariant: what the calls have done so far, and what they   *)
(* rely on, besides the properties themselves (swapfile.c:43-126 in one      *)
(* program at a time).                                                       *)
IInv ==
    /\ TypeOK
    /\ OneAlive
    /\ CallHasPage
    /\ Running => CallsSound
    /\ SlotsDistinct
    /\ NoSlotLeak
    /\ PanicsHonest
=============================================================================
