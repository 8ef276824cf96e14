------------------------------- MODULE Procs -------------------------------
(***************************************************************************)
(* Processes: the process table and its pids, the menu's commands that run *)
(* a program and wait for it, runprogram and load_elf, fork, waitpid and   *)
(* _exit, with the files of OpenFiles.  A process has one thread.  A       *)
(* process structure is memory: it is freed when the process is collected  *)
(* and may serve the next one, while a waiter keeps the pointer it had.    *)
(* The address space is represented by the executable it keeps open; what  *)
(* fork does to the pages is in Swapfile.                                  *)
(***************************************************************************)
EXTENDS OpenFiles, Integers, Sequences, SequencesExt

CONSTANTS
  kproc,     \* the kernel's process, in Proc
  MaxProc,   \* MAX_PROC
  Dir,       \* the vnodes of directories (the menu's is one, and stays so here)
  Images,    \* executables: vnode, whether the header is good, types of the program headers
  Codes,     \* arguments of _exit
  MaxRefs,   \* bound: references to a file (raced opens lose some for good)
  MaxFail    \* bound: allocations and reads that fail

VARIABLES
  proc,      \* the process structures
  table,     \* processTable.proc
  last_i,    \* processTable.last_i
  thread,    \* per process: what its thread is doing
  menu,      \* the menu's thread: at the prompt, or waiting for a process
  kids,      \* ghost: the pids a process has forked and not waited for
  ended,     \* ghost: the code its program gave to _exit, or NotYet
  foreign,   \* ghost: a program waited for what was not its child, or twice
  forked,    \* ghost: a program has forked
  fails,     \* failures so far
  stopped    \* why the kernel stopped, or ""

own == <<proc, table, last_i, thread, menu, kids, ended, foreign, forked, fails, stopped>>
vars == <<own, files>>

User == Proc \ {kproc}
Vnodes == Dir \cup File \cup {im.vnode : im \in Images}
Pids == 1..MaxProc
NoProc == "no process"
NoVnode == NoFile
NotYet == -1

\* The kernel's process is one of finitely many structures; a count that can
\* wrap counts something; programs end with the bit pattern of an int; and a
\* vnode is a directory's, an executable's or that of a file programs open.
ASSUME ProcsAssumption ==
  /\ IsFiniteSet(Proc) /\ kproc \in Proc /\ NoProc \notin Proc
  /\ MaxProc \in Nat \ {0} /\ NumEntries \in Nat /\ OpenMax \in Nat
  /\ CountMod \in Nat /\ CountMod > 1 /\ Codes \subseteq Nat
  /\ NoVnode \notin Vnodes
  /\ \A im \in Images : im.vnode \notin Dir \cup File
  /\ Dir \cap File = {}
Gone == [at |-> "none"]
At(a) == [at |-> a]
Dead == [live |-> FALSE, pid |-> 0, numthreads |-> 0, sem |-> 0, status |-> 0, cwd |-> NoVnode, exe |-> NoVnode]
Waiters(q) == {p \in User : thread[p].at = "wait" /\ thread[p].tgt = q} \cup (IF menu = q THEN {kproc} ELSE {})

Stop(why) == stopped' = why /\ UNCHANGED <<proc, table, last_i, thread, menu, kids, ended, foreign, forked, fails, files>>
-----------------------------------------------------------------------------
(* The process table. *)

\* The slots proc_init_waitpid's loop visits: from the one after last_i round
\* to the one before it.
Visited == [k \in 1..MaxProc-1 |-> ((last_i - 1 + k) % MaxProc) + 1]

\* The pid proc_init_waitpid gives, 0 when it panics.
proc_init_waitpid ==
  LET free == {k \in DOMAIN Visited : table[Visited[k]] = NoProc}
  IN  IF free = {} THEN 0 ELSE Visited[Min(free)]

\* proc_create: the fields of a new structure.
proc_create(pid, cwd, n, exe) ==
  [live |-> TRUE, pid |-> pid, numthreads |-> n, sem |-> 0, status |-> 0, cwd |-> cwd, exe |-> exe]

\* proc_search_pid: the process of a pid, and why it, or the KASSERT of
\* proc_wait on the kernel's process, stops the kernel.
proc_search_pid(pid) == table[pid]

search_panics(pid) ==
  CASE pid >= MaxProc -> "pid out of range"
    [] pid < MaxProc /\ table[pid] = NoProc -> "no such process"
    [] pid < MaxProc /\ table[pid] = kproc -> "kernel process"
    [] OTHER -> ""

\* Mutant: the working directory's reference is kept.
Released_KeepsCwd(q) == [v \in Vnodes |-> Cardinality({x \in {"exe"} : proc[q][x] = v})]

\* References proc_destroy gives up: the working directory's, and the
\* executable's (as_destroy closes code->vnode).
Released(q) == [v \in Vnodes |-> Cardinality({x \in {"cwd", "exe"} : proc[q][x] = v})]

\* Why proc_destroy(q) out of proc_wait stops the kernel, if it does; others
\* are the waiters left on its semaphore.
destroy_panics(q, others) ==
  IF \E v \in Vnodes : Released(q)[v] > refs[v] THEN "closed twice"
  ELSE IF proc[q].numthreads # 0 THEN "thread left"
  ELSE IF others # {} THEN "semaphore in use"
  ELSE ""

proc_end_waitpid(q) == [table EXCEPT ![proc[q].pid] = NoProc]

\* A structure out of use has an empty table of files here: proc_create
\* clears it.
proc_destroy(q) ==
  /\ table' = proc_end_waitpid(q)
  /\ fileTable' = [fileTable EXCEPT ![q] = NoFiles]
  /\ moved' = [moved EXCEPT ![q] = [fd \in Fd |-> 0]]
  /\ proc' = [proc EXCEPT ![q] = Dead]
  /\ refs' = [v \in Vnodes |-> refs[v] - Released(q)[v]]
  /\ kids' = [kids EXCEPT ![q] = {}]
  /\ ended' = [ended EXCEPT ![q] = NotYet]

\* A structure p becomes a process of pid with a thread that starts at a; or
\* the failure of a later step destroys it again.
Born(p, pid, cwd, exe, a) ==
  /\ table' = [table EXCEPT ![pid] = p]
  /\ last_i' = pid
  /\ proc' = [proc EXCEPT ![p] = proc_create(pid, cwd, 1, exe)]
  /\ thread' = [thread EXCEPT ![p] = At(a)]
  /\ refs' = [refs EXCEPT ![cwd] = @ + 1]

Stillborn(pid) ==
  /\ last_i' = pid
  /\ fails < MaxFail /\ fails' = fails + 1
  /\ UNCHANGED <<proc, table, thread, menu, kids, ended, foreign, stopped>>
-----------------------------------------------------------------------------
(* The menu. *)

\* common_prog: the menu's p and s commands.  If thread_fork fails the new
\* process is destroyed, which leaves only last_i moved.
common_prog ==
  /\ menu = NoProc
  /\ IF proc_init_waitpid = 0 THEN Stop("process table full")
     ELSE \/ \E p \in User :
               /\ ~proc[p].live /\ thread[p] = Gone
               /\ Born(p, proc_init_waitpid, proc[kproc].cwd, NoVnode, "start")
               /\ menu' = p
               /\ UNCHANGED <<kids, ended, foreign, forked, fails, stopped, fileTable, entry, moved, raced>>
          \/ Stillborn(proc_init_waitpid) /\ UNCHANGED <<files, forked>>
-----------------------------------------------------------------------------
(* Programs. *)

\* load_elf's walk over the program headers: "ok", an error, or the KASSERT
\* of as_define_region on a third segment.
Skipped == {"NULL", "PHDR", "REGINFO"}
load_elf(im) ==
  LET bad == {k \in DOMAIN im.types : im.types[k] \notin Skipped \cup {"LOAD"}}
      read == IF bad = {} THEN im.types ELSE SubSeq(im.types, 1, Min(bad) - 1)
  IN  CASE ~im.header -> "ENOEXEC"
        [] Len(SelectSeq(read, LAMBDA t : t = "LOAD")) > 2 -> "third segment"
        [] bad # {} -> "ENOEXEC"
        [] OTHER -> "ok"

\* proc_setas, as the executable the new address space keeps open; proc_remthread.
proc_setas(p, v) == [proc EXCEPT ![p].exe = v]
proc_remthread(p) == [proc EXCEPT ![p].numthreads = @ - 1]

\* runprogram: the file is opened and stays open for the pages to come from it.
runprogram(p) ==
  /\ thread[p] = At("start")
  /\ \E im \in Images :
       /\ load_elf(im) = "ok"
       /\ proc' = proc_setas(p, im.vnode)
       /\ refs' = [refs EXCEPT ![im.vnode] = @ + 1]
       /\ thread' = [thread EXCEPT ![p] = At("user")]
  /\ UNCHANGED <<table, last_i, menu, kids, ended, foreign, forked, fails, stopped, fileTable, entry, moved, raced>>

\* cmd_progthread when runprogram has failed, and closed the file: the thread
\* just ends, and nobody is told.
cmd_progthread(p) ==
  /\ thread[p] = At("start")
  /\ \/ \E im \in Images : load_elf(im) = "ENOEXEC" /\ UNCHANGED fails
     \/ fails < MaxFail /\ fails' = fails + 1
  /\ proc' = proc_remthread(p)
  /\ thread' = [thread EXCEPT ![p] = Gone]
  /\ UNCHANGED <<table, last_i, menu, kids, ended, foreign, forked, stopped, files>>

ThirdSegment(p) ==
  /\ thread[p] = At("start")
  /\ \E im \in Images : load_elf(im) = "third segment"
  /\ Stop("third segment")

\* sys_fork.  The child's structure and address space first; then
\* proc_file_table_copy(newp, curproc); then what may still fail, and destroys
\* the child, which closes the executable it did not open.
sys_fork(p) ==
  LET pid == proc_init_waitpid
      exe == proc[p].exe
      cwd == proc[p].cwd
  IN  /\ thread[p] = At("user")
      /\ IF pid = 0 THEN Stop("process table full")
         ELSE \E c \in User :
           /\ ~proc[c].live /\ thread[c] = Gone
           /\ \/ /\ Born(c, pid, cwd, exe, "forked")
                 /\ forked' = TRUE
                 /\ kids' = [kids EXCEPT ![p] = @ \cup {pid}]
                 /\ proc_file_table_copy(c, p)
                 /\ UNCHANGED <<menu, ended, foreign, fails, stopped, raced>>
              \/ /\ Stillborn(pid)   \* kmalloc of the trapframe, thread_fork
                 /\ forked' = TRUE
                 /\ refs[exe] > 0
                 /\ refs' = [refs EXCEPT ![exe] = @ - 1]
                 /\ proc_file_table_copy(c, p)
                 /\ UNCHANGED raced
              \/ refs[exe] = 0 /\ fails < MaxFail /\ Stop("closed twice")
              \/ Stillborn(pid) /\ UNCHANGED <<files, forked>>   \* as_copy

\* enter_forked_process: the child's return from the call, with 0.
enter_forked_process(p) ==
  /\ thread[p] = At("forked")
  /\ thread' = [thread EXCEPT ![p] = At("user")]
  /\ UNCHANGED <<proc, table, last_i, menu, kids, ended, foreign, forked, fails, stopped, files>>

\* sys__exit: the status, out of the process, and only then the signal.
low8(code) == code % 256

sys__exit(p) ==
  /\ thread[p] = At("user")
  /\ \E code \in Codes :
       /\ proc' = [proc_remthread(p) EXCEPT ![p].status = low8(code)]
       /\ ended' = [ended EXCEPT ![p] = code]
  /\ thread' = [thread EXCEPT ![p] = At("signal")]
  /\ UNCHANGED <<table, last_i, menu, kids, foreign, forked, fails, stopped, files>>

\* Mutant: the signal goes nowhere.
proc_signal_end_Lost(p) ==
  /\ thread[p] = At("signal")
  /\ thread' = [thread EXCEPT ![p] = Gone]
  /\ UNCHANGED <<proc, table, last_i, menu, kids, ended, foreign, forked, fails, stopped, files>>

proc_signal_end(p) ==
  /\ thread[p] = At("signal")
  /\ proc' = [proc EXCEPT ![p].sem = @ + 1]
  /\ thread' = [thread EXCEPT ![p] = Gone]
  /\ UNCHANGED <<table, last_i, menu, kids, ended, foreign, forked, fails, stopped, files>>

\* sys_waitpid up to the P of proc_wait.
sys_waitpid(p, pid) ==
  /\ thread[p] = At("user")
  /\ foreign' = (foreign \/ pid \notin kids[p])
  /\ kids' = [kids EXCEPT ![p] = @ \ {pid}]
  /\ stopped' = search_panics(pid)
  /\ thread' = IF search_panics(pid) # "" THEN thread
               ELSE [thread EXCEPT ![p] = [at |-> "wait", tgt |-> proc_search_pid(pid)]]
  /\ UNCHANGED <<proc, table, last_i, menu, ended, forked, fails, files>>

\* Mutant: the status is read after the structure was freed.
return_status_Freed(q) == Dead.status

\* proc_wait from the end of its P: the status is return_status(q), and the
\* process is destroyed.  w is a process whose thread waits, or kproc for the
\* menu, which drops the status.
return_status(q) == proc[q].status

proc_wait(w) ==
  LET q == IF w = kproc THEN menu ELSE thread[w].tgt
      why == destroy_panics(q, Waiters(q) \ {w})
  IN  /\ IF w = kproc THEN menu # NoProc ELSE thread[w].at = "wait"
      /\ proc[q].sem > 0
      /\ IF why # "" THEN Stop(why)
         ELSE /\ proc_destroy(q)
              /\ menu' = IF w = kproc THEN NoProc ELSE menu
              /\ thread' = IF w = kproc THEN thread ELSE [thread EXCEPT ![w] = At("user")]
              /\ UNCHANGED <<last_i, foreign, forked, fails, stopped, entry, raced>>
-----------------------------------------------------------------------------
(* Files. *)

MoveTo(p, a) ==
  /\ thread' = [thread EXCEPT ![p] = a]
  /\ UNCHANGED <<proc, table, last_i, menu, kids, ended, foreign, forked, fails, stopped>>

\* sys_open: vfs_open, the search of the system table, and the rest.
OpenSearch(p, v) ==
  /\ thread[p] = At("user")
  /\ refs[v] < MaxRefs
  /\ MoveTo(p, [at |-> "open", vn |-> v, i |-> free_entry])
  /\ refs' = [refs EXCEPT ![v] = @ + 1]
  /\ UNCHANGED <<fileTable, entry, moved, raced>>

OpenTake(p) ==
  /\ thread[p].at = "open"
  /\ IF open_overcloses(p, thread[p].vn, thread[p].i) THEN Stop("closed twice")
     ELSE sys_open(p, thread[p].vn, thread[p].i) /\ MoveTo(p, At("user"))

Close(p, fd) ==
  /\ thread[p] = At("user")
  /\ IF overclosed(p, fd) THEN Stop("closed twice")
     ELSE sys_close(p, fd) /\ UNCHANGED own

\* file_read and file_write up to the sleep in the file system, and from it.
BeginIO(p, fd) ==
  /\ thread[p] = At("user")
  /\ fileTable[p][fd] # Null /\ entry[fileTable[p][fd]].vn # NoFile
  /\ MoveTo(p, [at |-> "io", u |-> [of |-> fileTable[p][fd], fd |-> fd, offset |-> entry[fileTable[p][fd]].offset]])
  /\ UNCHANGED files

EndIO(p) ==
  /\ thread[p].at = "io"
  /\ \/ thread[p].u.offset < MaxOffset /\ moved[p][thread[p].u.fd] < MaxOffset /\ file_io(p, thread[p].u, 1)
     \/ UNCHANGED files   \* an error, or the end of the file
  /\ MoveTo(p, At("user"))
-----------------------------------------------------------------------------
Init ==
  /\ InitFiles
  /\ \E d \in Dir :
       /\ proc = [p \in Proc |-> IF p = kproc THEN proc_create(1, d, 0, NoVnode) ELSE Dead]
       /\ refs = [v \in Vnodes |-> IF v = d THEN 1 ELSE 0]
  /\ table = [i \in 0..MaxProc |-> IF i = 1 THEN kproc ELSE NoProc]
  /\ last_i = 1
  /\ thread = [p \in Proc |-> Gone]
  /\ menu = NoProc
  /\ kids = [p \in Proc |-> {}]
  /\ ended = [p \in Proc |-> NotYet]
  /\ foreign = FALSE /\ forked = FALSE
  /\ fails = 0
  /\ stopped = ""

\* The system calls that do more than print or answer: syscall.
Calls(p) ==
  \/ sys_fork(p) \/ sys__exit(p)
  \/ \E pid \in 0..MaxProc : sys_waitpid(p, pid)
  \/ \E v \in File : OpenSearch(p, v)
  \/ \E fd \in Fd : Close(p, fd) \/ BeginIO(p, fd)

\* What the kernel does of itself once a call is under way.
Progress(p) ==
  \/ runprogram(p) \/ cmd_progthread(p) \/ ThirdSegment(p) \/ enter_forked_process(p)
  \/ proc_signal_end(p) \/ OpenTake(p) \/ EndIO(p)

Next ==
  /\ stopped = ""
  /\ \/ common_prog
     \/ \E w \in Proc : proc_wait(w)
     \/ \E p \in User : Calls(p) \/ Progress(p)

Spec == Init /\ [][Next]_vars

\* The scheduler runs every thread that is ready; what programs call is theirs.
FairSpec ==
  /\ Spec
  /\ \A p \in User : WF_vars(stopped = "" /\ Progress(p))
  /\ \A w \in Proc : WF_vars(stopped = "" /\ proc_wait(w))
-----------------------------------------------------------------------------
\* The types of the process structures, of what threads do and of the menu.
TypeOK ==
  /\ \A p \in Proc :
       /\ proc[p].pid \in 0..MaxProc /\ proc[p].numthreads \in 0..1 /\ proc[p].sem \in 0..1
       /\ proc[p].status \in 0..255 /\ proc[p].cwd \in Dir \cup {NoVnode}
       /\ proc[p].live <=> proc[p].pid # 0
       /\ thread[p].at \in {"none", "start", "forked", "user", "wait", "signal", "open", "io"}
       /\ fileTable[p] \in [Fd -> Entries \cup {Null}]
  /\ table \in [0..MaxProc -> Proc \cup {NoProc}] /\ last_i \in Pids
  /\ menu \in User \cup {NoProc}
  /\ \A i \in Entries : entry[i].countRef \in 0..CountMod-1 /\ entry[i].vn \in File \cup {NoFile}
  /\ \A v \in Vnodes : refs[v] \in Nat

\* A process has a pid of its own as long as its structure lives, and the
\* table leads from the pid to it and to nothing that was freed
\* (proc_init_waitpid, proc_end_waitpid, the failures of sys_fork and
\* common_prog).
PidsExact ==
  /\ \A p \in Proc : proc[p].live => table[proc[p].pid] = p
  /\ \A i \in 0..MaxProc : table[i] # NoProc => proc[table[i]].live /\ proc[table[i]].pid = i

\* The kernel stops for the reasons it has: a full table when every slot but
\* the last one given out is taken; a bad wait only if some program waited
\* for what was not its child, or for a child with the last pid; a vnode
\* closed too often only after a fork or a raced open; and never because a
\* process is destroyed with its thread in it (proc_init_waitpid,
\* proc_search_pid, proc_wait, proc_destroy, sys__exit).
StopsHonest ==
  /\ stopped = "process table full" => \A i \in Pids \ {last_i} : table[i] # NoProc
  /\ stopped \in {"no such process", "kernel process", "semaphore in use"} => foreign
  /\ stopped = "pid out of range" => foreign \/ table[MaxProc] # NoProc
  /\ stopped = "closed twice" => forked \/ raced
  /\ stopped # "thread left"

\* A wait that is about to return returns the low eight bits of what the
\* process it waits for gave to _exit, whoever has had its structure or its
\* pid before (proc_wait, sys__exit).
StatusDelivered ==
  \A q \in User : (Waiters(q) # {} /\ proc[q].sem > 0) => ended[q] # NotYet /\ return_status(q) = ended[q] % 256

\* The references to a directory are those of the processes whose working
\* directory it is; the references to an executable are those of the programs
\* that run it, until a fork shares one (proc_create_runprogram,
\* runprogram, proc_destroy).
VnodesCounted ==
  /\ \A d \in Dir : refs[d] = Cardinality({p \in Proc : proc[p].cwd = d})
  /\ forked \/ \A v \in Vnodes \ (Dir \cup File) : refs[v] = Cardinality({p \in Proc : proc[p].exe = v})

\* A wait for a process that has left returns, if it is the only one: the
\* signal is neither lost nor taken before the thread is out (sys__exit,
\* proc_signal_end, proc_wait).
ExitReported ==
  \A p \in User :
    (thread[p].at = "signal" /\ Waiters(p) # {}) ~> (stopped # "" \/ Waiters(p) = {} \/ Cardinality(Waiters(p)) > 1)

\* Processes, their pids and their open files agree, whatever forks, exits,
\* waits and failures came before, and nothing else stops the kernel.
ProcessesSound == TypeOK /\ PidsExact /\ DescriptorsSound /\ StopsHonest
=============================================================================
