-------------------------------- MODULE Semfs --------------------------------
(***************************************************************************)
(* The semaphore file system: user semaphores with names, which reading a  *)
(* file waits on and writing it signals.  A step is what one thread does   *)
(* between two points where another can be seen to come in: a lock taken   *)
(* or given back, or an unlocked access to what another lock protects.     *)
(***************************************************************************)
EXTENDS Naturals, FiniteSets, Sequences, SequencesExt

CONSTANTS
  Threads,     \* of different processes, with at most one file open each
  Names,
  MaxCount,    \* largest unsigned
  Amounts,     \* lengths of reads and writes
  MaxFaults,   \* bound: allocations that fail
  MaxOps       \* bound: system calls

ROOT == 0                  \* SEMFS_ROOTDIR; semaphores are numbered from 1 here
None == "none"             \* no thread, no name

\* unsigned is not negative, and neither is a length.
ASSUME SemfsAssumption ==
  /\ IsFiniteSet(Threads) /\ None \notin Threads /\ None \notin Names
  /\ MaxCount \in Nat /\ Amounts \subseteq Nat

NoEntry == [name |-> None, num |-> 0]

VARIABLES
  sems,        \* semfs_sems: the semaphore of each number, 0 where none is left
  obj,         \* the semaphores in memory: sems_count, _hasvnode, _linked, who holds sems_lock, who sleeps on sems_cv
  dents,       \* semfs_dents; removed entries stay as null pointers
  vnodes,      \* semfs_vnodes: the reference count of each number's vnode
  dirlock, tablelock,
  th,          \* per thread: where it is, its call, the number and semaphore at hand, the open file, what is left to read
  stopped,     \* None, "unmounted", or why the kernel stops
  faults, ops

vars == <<sems, obj, dents, vnodes, dirlock, tablelock, th, stopped, faults, ops>>

Idle == [pc |-> "idle", op |-> None, name |-> None, num |-> 0, sem |-> 0, hdl |-> 0, left |-> 0]

At(t, pc) == stopped = None /\ th[t].pc = pc
Go(t, pc) == th' = [th EXCEPT ![t].pc = pc]
Fails == faults < MaxFaults /\ faults' = faults + 1

\* A path operation ends by giving the root directory back.
PutRoot(t) == th' = [th EXCEPT ![t].pc = "put", ![t].num = ROOT]

\* What follows a reference given back.
AfterPut(t) == IF th[t].op = "open" THEN "opened" ELSE "idle"

First(s, x) == IF x \in Range(s) THEN CHOOSE k \in DOMAIN s : s[k] = x /\ \A j \in 1..k-1 : s[j] # x ELSE Len(s) + 1
Put(s, k, x) == IF k > Len(s) THEN Append(s, x) ELSE [s EXCEPT ![k] = x]
Without(f, x) == [y \in DOMAIN f \ {x} |-> f[y]]
-----------------------------------------------------------------------------
(* System calls begin: vfs_open, vfs_remove, vfs_close, VOP_READ.           *)

Begin(t) ==
  /\ At(t, "idle") /\ ops < MaxOps /\ ops' = ops + 1
  /\ \/ \E n \in Names, op \in {"lookup", "creat", "excl", "remove"} :
          /\ op = "remove" \/ th[t].hdl = 0
          /\ th' = [th EXCEPT ![t].pc = "root", ![t].op = op, ![t].name = n]
     \/ th[t].hdl # 0 /\ th' = [th EXCEPT ![t].pc = "put", ![t].op = "close", ![t].num = th[t].hdl, ![t].hdl = 0]
     \/ th[t].hdl # 0 /\ \E n \in Amounts : th' = [th EXCEPT ![t].pc = "read", ![t].op = "read", ![t].left = n]
  /\ UNCHANGED <<sems, obj, dents, vnodes, dirlock, tablelock, stopped, faults>>

\* semfs_getvnode: another reference, or a vnode if one can be made.
GetVnode(x) ==
  /\ tablelock = None
  /\ vnodes' = IF x \in DOMAIN vnodes THEN [vnodes EXCEPT ![x] = @ + 1] ELSE [y \in DOMAIN vnodes \union {x} |-> IF y = x THEN 1 ELSE vnodes[y]]
  /\ UNCHANGED faults
NoVnode(x) == tablelock = None /\ x \notin DOMAIN vnodes /\ Fails /\ UNCHANGED vnodes

semfs_getroot(t) ==
  /\ At(t, "root")
  /\ \/ GetVnode(ROOT) /\ Go(t, "dir")
     \/ NoVnode(ROOT) /\ Go(t, "idle")
  /\ UNCHANGED <<sems, obj, dents, dirlock, tablelock, stopped, ops>>
-----------------------------------------------------------------------------
(* Directory operations.                                                    *)

\* Mutant: the lock is kept where the search ends the call.
Search_Keeps(t) ==
  /\ At(t, "dir") /\ dirlock = None /\ dirlock' = t
  /\ LET K == {k \in DOMAIN dents : dents[k].name = th[t].name}  op == th[t].op
         To(pc, x) == th' = [th EXCEPT ![t].pc = pc, ![t].num = x, ![t].sem = IF x = 0 THEN 0 ELSE sems[x]]
         x == IF K # {} THEN dents[CHOOSE k \in K : TRUE].num ELSE 0
     IN  \/ K # {} /\ op \in {"lookup", "creat"} /\ To("get", x)
         \/ K # {} /\ op = "remove" /\ To("unlink", x)
         \/ K = {} /\ op \in {"creat", "excl"} /\ To("make", 0)
         \/ (IF K # {} THEN op = "excl" ELSE op \in {"lookup", "remove"}) /\ PutRoot(t)
  /\ UNCHANGED <<sems, obj, dents, vnodes, tablelock, stopped, faults, ops>>

\* The directory is locked and searched.
Search(t) ==
  /\ At(t, "dir") /\ dirlock = None
  /\ LET K == {k \in DOMAIN dents : dents[k].name = th[t].name}  op == th[t].op
         found == K # {}
         To(pc, x) == /\ dirlock' = t
                      /\ th' = [th EXCEPT ![t].pc = pc, ![t].num = x, ![t].sem = IF x = 0 THEN 0 ELSE sems[x]]
         x == IF found THEN dents[CHOOSE k \in K : TRUE].num ELSE 0
     IN  \/ found /\ op \in {"lookup", "creat"} /\ To("get", x)
         \/ found /\ op = "remove" /\ To("unlink", x)
         \/ ~found /\ op \in {"creat", "excl"} /\ To("make", 0)
         \/ (IF found THEN op = "excl" ELSE op \in {"lookup", "remove"}) /\ PutRoot(t) /\ UNCHANGED dirlock
  /\ UNCHANGED <<sems, obj, dents, vnodes, tablelock, stopped, faults, ops>>

\* semfs_sem_create, semfs_sem_insert: the first free number, or a new one.
Make(t) ==
  /\ At(t, "make") /\ tablelock = None
  /\ \/ LET o == CHOOSE o \in 1..Cardinality(DOMAIN obj) + 1 : o \notin DOMAIN obj
            k == First(sems, 0)
        IN  /\ obj' = [p \in DOMAIN obj \union {o} |->
                         IF p = o THEN [count |-> 0, hasvnode |-> FALSE, linked |-> FALSE, lock |-> None, q |-> <<>>] ELSE obj[p]]
            /\ sems' = Put(sems, k, o)
            /\ th' = [th EXCEPT ![t].pc = "enter", ![t].num = k, ![t].sem = o]
            /\ UNCHANGED <<dirlock, faults>>
     \/ Fails /\ dirlock' = None /\ PutRoot(t) /\ UNCHANGED <<sems, obj>>
  /\ UNCHANGED <<dents, vnodes, tablelock, stopped, ops>>

\* The directory entry, in the first free place or a new one.  Where there is
\* no memory for the entry itself, the call undoes all but reports success.
Enter(t) ==
  /\ At(t, "enter")
  /\ \/ dents' = Put(dents, First(dents, NoEntry), [name |-> th[t].name, num |-> th[t].num]) /\ Go(t, "get") /\ UNCHANGED faults
     \/ Fails /\ th' = [th EXCEPT ![t].pc = "undo", ![t].op = "open"] /\ UNCHANGED dents
     \/ First(dents, NoEntry) > Len(dents) /\ Fails /\ Go(t, "undo") /\ UNCHANGED dents
  /\ UNCHANGED <<sems, obj, vnodes, dirlock, tablelock, stopped, ops>>

\* The vnode of the name found or made; a semaphore just made is linked last.
Get(t) ==
  LET x == th[t].num  o == th[t].sem IN
  /\ At(t, "get")
  /\ \/ /\ GetVnode(x)
        /\ obj' = [obj EXCEPT ![o].hasvnode = TRUE, ![o].linked = TRUE]
        /\ th' = [th EXCEPT ![t].pc = "put", ![t].op = "open", ![t].num = ROOT, ![t].hdl = x]
        /\ dirlock' = None
     \/ /\ NoVnode(x) /\ UNCHANGED obj
        /\ IF obj[o].linked THEN dirlock' = None /\ PutRoot(t) ELSE Go(t, "undo") /\ UNCHANGED dirlock
  /\ UNCHANGED <<sems, dents, tablelock, stopped, ops>>

\* A semaphore that could not be made: its entry, its number and itself go.
Undo(t) ==
  /\ At(t, "undo") /\ tablelock = None
  /\ dents' = [k \in DOMAIN dents |-> IF dents[k].num = th[t].num THEN NoEntry ELSE dents[k]]
  /\ sems' = [sems EXCEPT ![th[t].num] = 0]
  /\ obj' = Without(obj, th[t].sem)
  /\ dirlock' = None /\ PutRoot(t)
  /\ UNCHANGED <<vnodes, tablelock, stopped, faults, ops>>

\* semfs_remove, under the semaphore's lock and the directory's: not linked any more.
Unlink(t) ==
  /\ At(t, "unlink") /\ obj[th[t].sem].lock = None
  /\ obj' = [obj EXCEPT ![th[t].sem].lock = t, ![th[t].sem].linked = FALSE]
  /\ Go(t, "drop")
  /\ UNCHANGED <<sems, dents, vnodes, dirlock, tablelock, stopped, faults, ops>>

\* The entry is emptied and the directory unlocked.
Unenter(t) ==
  /\ dents' = [k \in DOMAIN dents |-> IF dents[k].num = th[t].num THEN NoEntry ELSE dents[k]]
  /\ dirlock' = None /\ PutRoot(t)

\* sems_hasvnode is read, without the table's lock.
Drop(t) ==
  LET o == th[t].sem IN
  /\ At(t, "drop")
  /\ IF obj[o].hasvnode THEN obj' = [obj EXCEPT ![o].lock = None] /\ Unenter(t)
     ELSE Go(t, "destroy") /\ UNCHANGED <<obj, dents, dirlock>>
  /\ UNCHANGED <<sems, vnodes, tablelock, stopped, faults, ops>>

Destroy(t) ==
  /\ At(t, "destroy") /\ tablelock = None
  /\ sems' = [sems EXCEPT ![th[t].num] = 0]
  /\ obj' = Without(obj, th[t].sem)
  /\ Unenter(t)
  /\ UNCHANGED <<vnodes, tablelock, stopped, faults, ops>>
-----------------------------------------------------------------------------
(* References given back.                                                   *)

VOP_DECREF(t) ==
  LET x == th[t].num IN
  /\ At(t, "put")
  /\ IF vnodes[x] > 1 THEN vnodes' = [vnodes EXCEPT ![x] = @ - 1] /\ Go(t, AfterPut(t)) ELSE Go(t, "reclaim") /\ UNCHANGED vnodes
  /\ UNCHANGED <<sems, obj, dents, dirlock, tablelock, stopped, faults, ops>>

\* The vnode leaves the table unless somebody found it meanwhile; its
\* semaphore is told.
semfs_reclaim(t) ==
  LET x == th[t].num IN
  /\ At(t, "reclaim") /\ tablelock = None
  /\ IF vnodes[x] > 1 THEN vnodes' = [vnodes EXCEPT ![x] = @ - 1] /\ Go(t, AfterPut(t)) /\ UNCHANGED <<obj, tablelock>>
     ELSE /\ vnodes' = Without(vnodes, x)
          /\ IF x = ROOT THEN Go(t, AfterPut(t)) /\ UNCHANGED <<obj, tablelock>>
             ELSE obj' = [obj EXCEPT ![sems[x]].hasvnode = FALSE] /\ tablelock' = t /\ Go(t, "unhook")
  /\ UNCHANGED <<sems, dents, dirlock, stopped, faults, ops>>

\* Mutant: a semaphore without a name stays.
Unhook_Keeps(t) ==
  /\ At(t, "unhook") /\ tablelock' = None /\ Go(t, "idle")
  /\ UNCHANGED <<sems, obj, dents, vnodes, dirlock, stopped, faults, ops>>

\* A semaphore without a name goes with its vnode.  Where its remover is between
\* its two looks at it, it is destroyed under its hands.
Unhook(t) ==
  LET x == th[t].num  o == sems[x] IN
  /\ At(t, "unhook") /\ tablelock' = None
  /\ IF obj[o].linked THEN Go(t, "idle") /\ UNCHANGED <<sems, obj, stopped>>
     ELSE IF obj[o].lock # None THEN stopped' = "destroyed twice" /\ UNCHANGED <<sems, obj, th>>
     ELSE sems' = [sems EXCEPT ![x] = 0] /\ obj' = Without(obj, o) /\ Go(t, "idle") /\ UNCHANGED stopped
  /\ UNCHANGED <<dents, vnodes, dirlock, faults, ops>>
-----------------------------------------------------------------------------
(* Semaphores.                                                              *)

Sem(t) == sems[th[t].hdl]
Free(t) == obj[Sem(t)].lock = None

\* P: takes what there is and sleeps for the rest.
semfs_read(t) ==
  /\ At(t, "read") /\ Free(t)
  /\ LET s == obj[Sem(t)] IN
     IF s.count >= th[t].left
     THEN obj' = [obj EXCEPT ![Sem(t)].count = @ - th[t].left] /\ th' = [th EXCEPT ![t].pc = "idle", ![t].left = 0]
     ELSE /\ obj' = [obj EXCEPT ![Sem(t)].count = 0, ![Sem(t)].q = Append(@, t)]
          /\ th' = [th EXCEPT ![t].pc = "asleep", ![t].left = @ - s.count]
  /\ UNCHANGED <<sems, dents, vnodes, dirlock, tablelock, stopped, faults, ops>>

\* Who sleeps on: all if there was something left, all but the first for one unit, else none.
semfs_wakeup(s, newcount) ==
  IF s.count > 0 \/ newcount = 0 \/ s.q = <<>> THEN s.q
  ELSE IF newcount = 1 THEN Tail(s.q) ELSE <<>>

\* The count is set, after the wakeup.
Set(t, newcount) ==
  LET s == obj[Sem(t)]  q == semfs_wakeup(s, newcount)  woken == Range(s.q) \ Range(q) IN
  /\ obj' = [obj EXCEPT ![Sem(t)].count = newcount, ![Sem(t)].q = q]
  /\ th' = [u \in Threads |-> IF u \in woken THEN [th[u] EXCEPT !.pc = "read"]
                              ELSE IF u = t THEN [th[u] EXCEPT !.pc = "idle", !.op = "set"] ELSE th[u]]

\* V: an overflow is refused.
semfs_write(t, n) ==
  /\ At(t, "idle") /\ ops < MaxOps /\ ops' = ops + 1
  /\ th[t].hdl # 0 /\ Free(t)
  /\ LET newcount == (obj[Sem(t)].count + n) % (MaxCount + 1) IN
     IF newcount < obj[Sem(t)].count THEN UNCHANGED <<obj, th>> ELSE Set(t, newcount)
  /\ UNCHANGED <<sems, dents, vnodes, dirlock, tablelock, stopped, faults>>

\* vfs_open ends; with O_TRUNC the count is reset.  It asserts that there is a vnode.
Opened(t) ==
  /\ At(t, "opened")
  /\ \/ th[t].hdl = 0 /\ stopped' = "no vnode" /\ UNCHANGED <<th, obj>>
     \/ th[t].hdl # 0 /\ Go(t, "idle") /\ UNCHANGED <<obj, stopped>>
     \/ th[t].hdl # 0 /\ Free(t) /\ Set(t, 0) /\ UNCHANGED stopped
  /\ UNCHANGED <<sems, dents, vnodes, dirlock, tablelock, faults, ops>>

\* Refused while there are vnodes.  The destructors do not expect null pointers.
semfs_unmount ==
  /\ stopped = None /\ tablelock = None /\ DOMAIN vnodes = {}
  /\ stopped' = IF 0 \in Range(sems) \/ NoEntry \in Range(dents) THEN "null pointer" ELSE "unmounted"
  /\ UNCHANGED <<sems, obj, dents, vnodes, dirlock, tablelock, th, faults, ops>>

Init ==
  /\ sems = <<>> /\ obj = <<>> /\ dents = <<>> /\ vnodes = <<>>
  /\ dirlock = None /\ tablelock = None /\ stopped = None /\ faults = 0 /\ ops = 0
  /\ th = [t \in Threads |-> Idle]

\* What a thread that has begun goes on with.
Work(t) ==
  \/ semfs_getroot(t) \/ Search(t) \/ Make(t) \/ Enter(t) \/ Get(t) \/ Undo(t)
  \/ Unlink(t) \/ Drop(t) \/ Destroy(t)
  \/ VOP_DECREF(t) \/ semfs_reclaim(t) \/ Unhook(t)
  \/ semfs_read(t) \/ Opened(t)

Next == semfs_unmount \/ \E t \in Threads : Begin(t) \/ Work(t) \/ \E n \in Amounts : semfs_write(t, n)

\* A thread that can run does, sooner or later; nobody has to call or write.
Spec == Init /\ [][Next]_vars /\ \A t \in Threads : WF_vars(Work(t))
-----------------------------------------------------------------------------
(* Properties. *)

TypeOK ==
  /\ \A k \in DOMAIN sems : sems[k] \in DOMAIN obj \union {0}
  /\ \A o \in DOMAIN obj : obj[o].count \in 0..MaxCount /\ \A t \in Range(obj[o].q) : th[t].pc = "asleep" /\ Sem(t) = o
  /\ dirlock \in Threads \union {None} /\ tablelock \in Threads \union {None}
  /\ \A t \in Threads : th[t].pc = "asleep" => \E o \in DOMAIN obj : t \in Range(obj[o].q)

\* A vnode has as many references as threads hold (semfs_getvnode,
\* semfs_reclaim), however a last close and a new open overlap, and stays in
\* the table while it has any.  A thread that closes has no handle any more.
Holds(t, x) ==
  \/ th[t].hdl = x /\ x # ROOT
  \/ th[t].pc \in {"put", "reclaim"} /\ th[t].num = x
  \/ x = ROOT /\ th[t].pc \in {"dir", "make", "enter", "get", "undo", "unlink", "drop", "destroy"}
RefsExact ==
  /\ \A x \in DOMAIN vnodes : vnodes[x] = Cardinality({t \in Threads : Holds(t, x)})
  /\ \A t \in Threads, x \in 0..Len(sems) : Holds(t, x) => x \in DOMAIN vnodes

\* A semaphore (semfs_sem) exists while it has a name or somebody has it open,
\* under one number, and no longer, whatever removes, closes, opens and failed
\* allocations overlap; only a remove and a last close at the same time may
\* destroy it twice.
SemsExact ==
  stopped # "destroyed twice" =>
  /\ \A o \in DOMAIN obj :
       /\ Cardinality({k \in DOMAIN sems : sems[k] = o}) = 1
       /\ \/ obj[o].linked \/ obj[o].hasvnode
          \/ \E t \in Threads : th[t].sem = o /\ th[t].pc \in {"enter", "get", "undo", "drop", "destroy"}
          \/ \E t \in Threads : th[t].pc = "unhook" /\ sems[th[t].num] = o
  /\ \A t \in Threads : th[t].hdl # 0 => sems[th[t].hdl] # 0 /\ obj[sems[th[t].hdl]].hasvnode

\* With the directory unlocked, the names are those of the linked semaphores,
\* each once (semfs_creat, semfs_remove).
NamesExact ==
  dirlock = None =>
  LET E == {k \in DOMAIN dents : dents[k] # NoEntry} IN
  /\ {dents[k].num : k \in E} = {x \in DOMAIN sems : sems[x] # 0 /\ obj[sems[x]].linked}
  /\ \A j, k \in E : dents[j].name = dents[k].name \/ dents[j].num = dents[k].num => j = k

\* "We only need to wake up if there are sleepers, which should only be the
\* case if the old count is 0" (semfs_wakeup): nobody sleeps on a semaphore with
\* units left unless one who was woken is still on the way to them.
NoSleeperLeft ==
  \A o \in DOMAIN obj : obj[o].count > 0 /\ obj[o].q # <<>> => \E t \in Threads : th[t].pc = "read" /\ Sem(t) = o

\* No call waits for locks forever (semfs_dirlock, sems_lock, semfs_tablelock,
\* in this order): each ends, or sleeps for units, unless the kernel stops.
CallsEnd == \A t \in Threads : th[t].pc # "idle" ~> th[t].pc \in {"idle", "asleep"} \/ stopped # None

\* Names, numbers, semaphores and vnodes agree with each other and with who
\* uses them.
SemaphoresExact == TypeOK /\ RefsExact /\ SemsExact /\ NamesExact
=============================================================================
