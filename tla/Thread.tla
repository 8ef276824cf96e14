------------------------------- MODULE Thread -------------------------------
(***************************************************************************)
(* Threads, CPUs and wait channels (thread.c), with what they stand on:    *)
(* spinlocks and interrupt levels (spinlock.c, spl.c), the interrupt part  *)
(* of mips_trap, the clock, and the interrupts one CPU sends another.      *)
(*                                                                         *)
(* What a thread has still to do is the sequence todo[t] of operations; a  *)
(* step of CPU c is the first operation of its current thread, which may   *)
(* put others in front of the rest, and an interrupt puts its handler's    *)
(* there.  An operation is one critical section.  A spinlock is held from  *)
(* one step to another only where the code does other things under it:     *)
(* the run queue's across a context switch, a wait channel's while a       *)
(* thread goes to sleep or is being woken.  Waiting for a spinlock is a    *)
(* step that is not enabled.                                               *)
(***************************************************************************)
EXTENDS Naturals, FiniteSets, Sequences, SequencesExt

CONSTANTS
  N,         \* CPUs, numbered from 0
  Threads,   \* thread structures
  Wchans,    \* wait channels, each with the spinlock that protects it
  Boot,      \* function: the thread each CPU starts with
  Script,    \* function: what each thread does, ending in thread_exit
  MaxTicks,  \* bound: timer interrupts
  MaxMoves   \* bound: of those, the ones that consider migration

CPU == 0..N-1
None == "none"
Nobody == N    \* no CPU

VARIABLES
  cur,       \* c_curthread
  isidle,    \* c_isidle
  power,     \* per CPU: running, in cpu_idle, or halted
  runq,      \* c_runqueue
  rqlock,    \* the CPU that holds c_runqueue_lock
  zombies,   \* c_zombies
  ipi,       \* c_ipi_pending
  line,      \* lamebus: the CPU's interprocessor interrupt is asserted
  state,     \* t_state, or None where there is no thread
  tcpu,      \* t_cpu
  curspl,    \* t_curspl: 1 is IPL_HIGH
  iplhigh,   \* t_iplhigh_count
  todo,      \* what the thread has still to do
  wchan,     \* wc_threads
  lk,        \* the CPU that holds the spinlock of a wait channel
  ticks,     \* timer interrupts so far, and migrations considered
  stopped    \* why the kernel stopped, or ""

cpuvars == <<cur, isidle, power, runq, rqlock, zombies, ipi, line>>
tvars == <<cpuvars, state, tcpu, curspl, iplhigh, todo, wchan, lk, ticks, stopped>>

op(c) == todo[cur[c]][1]
At(c, name) == stopped = "" /\ power[c] = "on" /\ todo[cur[c]] # <<>> /\ op(c)[1] = name

\* The first operation of c's thread is done, with others in its place.
Do(c, ops) == todo' = [todo EXCEPT ![cur[c]] = ops \o Tail(@)]

Stop(why) == stopped' = why /\ UNCHANGED <<cpuvars, state, tcpu, curspl, iplhigh, todo, wchan, lk, ticks>>

\* c_spinlocks
spinlocks(c) == Cardinality({w \in Wchans : lk[w] = c}) + Cardinality({k \in CPU : rqlock[k] = c})

\* spinlock_acquire of a lock with this holder, and what is done then.
spinlock_acquire(c, holder, Then) ==
  \/ holder = Nobody /\ Then
  \/ holder = c /\ Stop("Deadlock on spinlock")

\* t_in_interrupt
in_interrupt(t) == \E i \in DOMAIN todo[t] : todo[t][i][1] = "irqexit"
-----------------------------------------------------------------------------
(* Interprocessor interrupts. *)

\* Mutant: the interrupt is recorded and not raised.
ipi_send_NoLine(ks, code) ==
  /\ ipi' = [k \in CPU |-> IF k \in ks THEN ipi[k] \cup {code} ELSE ipi[k]]
  /\ line' = line

\* ipi_send to the CPUs ks: what becomes of c_ipi_pending and of the line.
ipi_send(ks, code) ==
  /\ ipi' = [k \in CPU |-> IF k \in ks THEN ipi[k] \cup {code} ELSE ipi[k]]
  /\ line' = [k \in CPU |-> line[k] \/ k \in ks]

\* interprocessor_interrupt: told to go offline the CPU halts where it is.
interprocessor_interrupt(c) ==
  /\ At(c, "ipi")
  /\ \/ /\ "OFFLINE" \in ipi[c]
        /\ spinlock_acquire(c, rqlock[c],
             power' = [power EXCEPT ![c] = "off"] /\ UNCHANGED <<ipi, todo, stopped, state, tcpu, curspl, iplhigh, wchan, lk, ticks, cur, isidle, runq, rqlock, zombies, line>>)
     \/ /\ "OFFLINE" \notin ipi[c]
        /\ ipi' = [ipi EXCEPT ![c] = {}]
        /\ Do(c, <<>>)
        /\ UNCHANGED <<cur, isidle, power, runq, rqlock, zombies, line, state, tcpu, curspl, iplhigh, wchan, lk, ticks, stopped>>

\* lamebus_clear_ipi
clear_ipi(c) ==
  /\ At(c, "clear_ipi")
  /\ line' = [line EXCEPT ![c] = FALSE]
  /\ Do(c, <<>>)
  /\ UNCHANGED <<cur, isidle, power, runq, rqlock, zombies, ipi, state, tcpu, curspl, iplhigh, wchan, lk, ticks, stopped>>

\* thread_shutdown and the splhigh that follows it in shutdown.
thread_shutdown(c) ==
  /\ At(c, "shutdown")
  /\ ipi_send(CPU \ {c}, "OFFLINE")
  /\ Do(c, <<>>)
  /\ curspl' = [curspl EXCEPT ![cur[c]] = 1]
  /\ iplhigh' = [iplhigh EXCEPT ![cur[c]] = @ + 1]
  /\ UNCHANGED <<cur, isidle, power, runq, rqlock, zombies, state, tcpu, wchan, lk, ticks, stopped>>
-----------------------------------------------------------------------------
(* Making threads, switching between them, and their end. *)

\* thread_make_runnable when the run queue is not locked already.
thread_make_runnable(c) ==
  LET t == op(c)[2]
      k == tcpu[t]
  IN  /\ At(c, "runnable")
      /\ spinlock_acquire(c, rqlock[k],
           /\ state' = [state EXCEPT ![t] = "READY"]
           /\ runq' = [runq EXCEPT ![k] = Append(@, t)]
           /\ ipi_send(IF isidle[k] /\ k # c THEN {k} ELSE {}, "UNIDLE")
           /\ Do(c, <<>>)
           /\ UNCHANGED <<cur, isidle, power, rqlock, zombies, tcpu, curspl, iplhigh, wchan, lk, ticks, stopped>>)

\* A new thread: thread_create's one level of splhigh, and one for the run
\* queue's lock it will release (thread_fork).
new_iplhigh == 1 + 1

thread_fork(c) ==
  LET t == op(c)[2]
  IN  /\ At(c, "fork")
      /\ state' = [state EXCEPT ![t] = "READY"]
      /\ tcpu' = [tcpu EXCEPT ![t] = tcpu[cur[c]]]
      /\ curspl' = [curspl EXCEPT ![t] = 1]
      /\ iplhigh' = [iplhigh EXCEPT ![t] = new_iplhigh]
      /\ todo' = [todo EXCEPT ![cur[c]] = <<<<"runnable", t>>>> \o Tail(@),
                              ![t] = <<<<"startup">>>> \o Script[t]]
      /\ UNCHANGED <<cpuvars, wchan, lk, ticks, stopped>>

\* wchan_sleep's KASSERTs.
MaySleep(c, w) == ~in_interrupt(cur[c]) /\ lk[w] = c /\ spinlocks(c) = 1

\* thread_switch up to the first look for another thread.  The spinlock of
\* the wait channel is released only when the thread is on the channel.
thread_switch(c) ==
  LET t == cur[c]
      new == op(c)[2]
      w == op(c)[3]
      spl == curspl[t]
      sleeps == new = "SLEEP"
      returns == isidle[c] \/ (rqlock[c] = Nobody /\ new = "READY" /\ runq[c] = <<>>)
  IN  /\ At(c, "switch")
      /\ \/ sleeps /\ ~MaySleep(c, w) /\ Stop("KASSERT in wchan_sleep")
         \/ ~sleeps /\ returns /\ Do(c, <<>>)
            /\ UNCHANGED <<cpuvars, state, tcpu, curspl, iplhigh, wchan, lk, ticks, stopped>>
         \/ /\ ~returns /\ (sleeps => MaySleep(c, w))
            /\ spinlock_acquire(c, rqlock[c],
                 /\ rqlock' = [rqlock EXCEPT ![c] = c]
                 /\ runq' = IF new = "READY" THEN [runq EXCEPT ![c] = Append(@, t)] ELSE runq
                 /\ zombies' = IF new = "ZOMBIE" THEN [zombies EXCEPT ![c] = Append(@, t)] ELSE zombies
                 /\ wchan' = IF sleeps THEN [wchan EXCEPT ![w] = Append(@, t)] ELSE wchan
                 /\ lk' = IF sleeps THEN [lk EXCEPT ![w] = Nobody] ELSE lk
                 /\ state' = [state EXCEPT ![t] = new]
                 /\ isidle' = [isidle EXCEPT ![c] = TRUE]
                 /\ curspl' = [curspl EXCEPT ![t] = 1]
                 /\ iplhigh' = [iplhigh EXCEPT ![t] = @ + (1 - spl) + (IF sleeps THEN 0 ELSE 1)]
                 /\ Do(c, <<<<"pick">>, <<"resume", spl>>>>)
                 /\ UNCHANGED <<cur, power, ipi, line, tcpu, ticks, stopped>>)

\* The loop over the run queue and cpu_idle.  The lock is held the first time
\* round and is taken again after each interrupt.
pick(c) ==
  LET t == cur[c]
      held == IF rqlock[c] = c THEN 1 ELSE 0
  IN  /\ At(c, "pick") /\ rqlock[c] \in {Nobody, c}
      /\ \/ /\ runq[c] = <<>>
            /\ rqlock' = [rqlock EXCEPT ![c] = Nobody]
            /\ iplhigh' = [iplhigh EXCEPT ![t] = @ - held]
            /\ power' = [power EXCEPT ![c] = "idle"]
            /\ UNCHANGED <<cur, isidle, runq, todo>>
         \/ /\ runq[c] # <<>>
            /\ rqlock' = [rqlock EXCEPT ![c] = c]
            /\ iplhigh' = [iplhigh EXCEPT ![t] = @ + 1 - held]
            /\ runq' = [runq EXCEPT ![c] = Tail(@)]
            /\ isidle' = [isidle EXCEPT ![c] = FALSE]
            /\ cur' = [cur EXCEPT ![c] = Head(runq[c])]
            /\ Do(c, <<>>)
            /\ UNCHANGED power
      /\ UNCHANGED <<zombies, ipi, line, state, tcpu, curspl, wchan, lk, ticks, stopped>>

\* The threads exorcise destroys, and its KASSERTs and thread_destroy's.
exorcised(c) == {zombies[c][i] : i \in DOMAIN zombies[c]}

\* The end of thread_switch, which thread_startup repeats: the run queue's
\* lock, dead threads, then interrupts back to what they were.
Resumed(c, spl) ==
  LET t == cur[c]
  IN  IF \/ rqlock[c] # c
         \/ \E z \in exorcised(c) : z = t \/ state[z] # "ZOMBIE"
      THEN Stop("KASSERT in thread_switch")
      ELSE /\ rqlock' = [rqlock EXCEPT ![c] = Nobody]
           /\ state' = [x \in Threads |-> IF x = t THEN "RUN" ELSE IF x \in exorcised(c) THEN None ELSE state[x]]
           /\ zombies' = [zombies EXCEPT ![c] = <<>>]
           /\ curspl' = [curspl EXCEPT ![t] = spl]
           /\ iplhigh' = [iplhigh EXCEPT ![t] = @ - 1 - (1 - spl)]
           /\ Do(c, <<>>)
           /\ UNCHANGED <<cur, isidle, power, runq, ipi, line, tcpu, wchan, lk, ticks, stopped>>

resume(c) == At(c, "resume") /\ Resumed(c, op(c)[2])
thread_startup(c) == At(c, "startup") /\ Resumed(c, 0)

\* thread_exit, after proc_remthread.
thread_exit(c) ==
  /\ At(c, "exit")
  /\ curspl' = [curspl EXCEPT ![cur[c]] = 1]
  /\ iplhigh' = [iplhigh EXCEPT ![cur[c]] = @ + 1]
  /\ Do(c, <<<<"switch", "ZOMBIE", None>>>>)
  /\ UNCHANGED <<cpuvars, state, tcpu, wchan, lk, ticks, stopped>>
-----------------------------------------------------------------------------
(* thread_consider_migration. *)

\* The run queues are counted one after the other, each under its lock.
CountQueue(c) ==
  LET i == op(c)[2]
      total == op(c)[4] + Len(runq[i])
      mine == IF i = c THEN Len(runq[c]) ELSE op(c)[3]
      one_share == (total + N - 1) \div N
  IN  /\ At(c, "count")
      /\ spinlock_acquire(c, rqlock[i],
           /\ Do(c, IF i < N - 1 THEN <<<<"count", i + 1, mine, total>>>>
                    ELSE IF mine <= one_share THEN <<>>
                    ELSE <<<<"take", mine - one_share, one_share>>>>)
           /\ UNCHANGED <<cpuvars, state, tcpu, curspl, iplhigh, wchan, lk, ticks, stopped>>)

\* The victims come off the tail of our own queue.
TakeVictims(c) ==
  LET n == op(c)[2]
      rest == Len(runq[c]) - n
  IN  /\ At(c, "take")
      /\ spinlock_acquire(c, rqlock[c],
           /\ runq' = [runq EXCEPT ![c] = SubSeq(@, 1, rest)]
           /\ Do(c, <<<<"send", 0, SubSeq(runq[c], rest + 1, rest + n), n, op(c)[3]>>>>)
           /\ UNCHANGED <<cur, isidle, power, rqlock, zombies, ipi, line, state, tcpu, curspl, iplhigh, wchan, lk, ticks, stopped>>)

\* Mutant: the current thread goes too.
Movable_All(c, victims, n) == SubSeq(victims, 1, n)

\* Of the first n victims, the ones that may go: not the thread we run as,
\* which is among them when the CPU is idle and its thread was woken.
Movable(c, victims, n) == SelectSeq(SubSeq(victims, 1, n), LAMBDA t : t # cur[c])

SendVictims(c) ==
  LET i == op(c)[2]
      victims == op(c)[3]
      to_send == op(c)[4]
      one_share == op(c)[5]
      seen == Min({n \in 0..to_send : Len(runq[i]) + Len(Movable(c, victims, n)) >= one_share} \cup {to_send})
      go == Movable(c, victims, seen)
      left == SubSeq(victims, seen + 1, Len(victims))
              \o SelectSeq(SubSeq(victims, 1, seen), LAMBDA t : t = cur[c])
  IN  /\ At(c, "send")
      /\ IF i = N \/ to_send = 0
         THEN /\ Do(c, IF victims = <<>> THEN <<>> ELSE <<<<"putback", victims>>>>)
              /\ UNCHANGED <<cpuvars, state, tcpu, curspl, iplhigh, wchan, lk, ticks, stopped>>
         ELSE IF i = c
         THEN /\ Do(c, <<<<"send", i + 1, victims, to_send, one_share>>>>)
              /\ UNCHANGED <<cpuvars, state, tcpu, curspl, iplhigh, wchan, lk, ticks, stopped>>
         ELSE spinlock_acquire(c, rqlock[i],
              /\ runq' = [runq EXCEPT ![i] = @ \o go]
              /\ tcpu' = [t \in Threads |-> IF \E j \in DOMAIN go : go[j] = t THEN i ELSE tcpu[t]]
              /\ ipi_send(IF isidle[i] /\ go # <<>> THEN {i} ELSE {}, "UNIDLE")
              /\ Do(c, <<<<"send", i + 1, left, to_send - seen, one_share>>>>)
              /\ UNCHANGED <<cur, isidle, power, rqlock, zombies, state, curspl, iplhigh, wchan, lk, ticks, stopped>>)

PutBack(c) ==
  /\ At(c, "putback")
  /\ spinlock_acquire(c, rqlock[c],
       /\ runq' = [runq EXCEPT ![c] = @ \o op(c)[2]]
       /\ Do(c, <<>>)
       /\ UNCHANGED <<cur, isidle, power, rqlock, zombies, ipi, line, state, tcpu, curspl, iplhigh, wchan, lk, ticks, stopped>>)
-----------------------------------------------------------------------------
(* Wait channels. *)

\* Mutant: the last sleeper is not woken.
One_OffByOne(w) == SubSeq(wchan[w], 1, IF Len(wchan[w]) <= 1 THEN 0 ELSE 1)

\* The threads wchan_wakeone and wchan_wakeall take off a channel.
One(w) == SubSeq(wchan[w], 1, IF wchan[w] = <<>> THEN 0 ELSE 1)
All(w) == wchan[w]

\* With the channel's spinlock: ts leave it, and each is made runnable before
\* the spinlock is released.
Waking(c, w, ts) ==
  /\ wchan' = [wchan EXCEPT ![w] = SubSeq(@, Len(ts) + 1, Len(@))]
  /\ IF ts = <<>>
     THEN Do(c, <<>>) /\ UNCHANGED <<lk, iplhigh>>
     ELSE /\ lk' = [lk EXCEPT ![w] = c]
          /\ iplhigh' = [iplhigh EXCEPT ![cur[c]] = @ + 1]
          /\ Do(c, [i \in DOMAIN ts |-> <<"runnable", ts[i]>>] \o <<<<"unlock", w>>>>)
  /\ UNCHANGED <<cpuvars, state, tcpu, curspl, ticks, stopped>>

\* The channel's spinlock is kept and the thread goes to sleep on the channel;
\* then the operations of next.
Sleep(c, w, next) ==
  /\ lk' = [lk EXCEPT ![w] = c]
  /\ iplhigh' = [iplhigh EXCEPT ![cur[c]] = @ + 1]
  /\ Do(c, <<<<"switch", "SLEEP", w>>>> \o next)
  /\ UNCHANGED <<cpuvars, state, tcpu, curspl, wchan, ticks, stopped>>

unlock(c) ==
  LET w == op(c)[2]
  IN  /\ At(c, "unlock")
      /\ IF lk[w] # c THEN Stop("KASSERT in spinlock_release")
         ELSE /\ lk' = [lk EXCEPT ![w] = Nobody]
              /\ iplhigh' = [iplhigh EXCEPT ![cur[c]] = @ - 1]
              /\ Do(c, <<>>)
              /\ UNCHANGED <<cpuvars, state, tcpu, curspl, wchan, ticks, stopped>>

\* timerclock wakes everything on lbolt; clocksleep waits n times for it.
timerclock(c) == At(c, "timerclock") /\ spinlock_acquire(c, lk["lbolt"], Waking(c, "lbolt", All("lbolt")))

clocksleep(c) ==
  LET n == op(c)[2]
  IN  /\ At(c, "clocksleep")
      /\ spinlock_acquire(c, lk["lbolt"],
           IF n > 0 THEN Sleep(c, "lbolt", <<<<"clocksleep", n - 1>>>>)
           ELSE Do(c, <<>>) /\ UNCHANGED <<cpuvars, state, tcpu, curspl, iplhigh, wchan, lk, ticks, stopped>>)
-----------------------------------------------------------------------------
(* Interrupts: mips_trap with code EX_IRQ. *)

mips_trap(c, handler) ==
  LET t == cur[c]
      doadjust == curspl[t] = 0
  IN  /\ stopped = "" /\ (power[c] = "idle" \/ (power[c] = "on" /\ iplhigh[t] = 0))
      /\ power' = [power EXCEPT ![c] = "on"]
      /\ curspl' = [curspl EXCEPT ![t] = 1]
      /\ iplhigh' = [iplhigh EXCEPT ![t] = IF doadjust THEN @ + 1 ELSE @]
      /\ todo' = [todo EXCEPT ![t] = handler \o <<<<"irqexit", doadjust>>>> \o @]
      /\ UNCHANGED <<cur, isidle, runq, rqlock, zombies, ipi, line, state, tcpu, wchan, lk, stopped>>

irqexit(c) ==
  LET t == cur[c]
      doadjust == op(c)[2]
  IN  /\ At(c, "irqexit")
      /\ IF doadjust /\ (curspl[t] # 1 \/ iplhigh[t] # 1) THEN Stop("KASSERT in mips_trap")
         ELSE /\ curspl' = [curspl EXCEPT ![t] = IF doadjust THEN 0 ELSE @]
              /\ iplhigh' = [iplhigh EXCEPT ![t] = IF doadjust THEN @ - 1 ELSE @]
              /\ Do(c, <<>>)
              /\ UNCHANGED <<cpuvars, state, tcpu, wchan, lk, ticks, stopped>>

\* The CPU's timer: hardclock yields, and every MIGRATE_HARDCLOCKS considers
\* migration first.
hardclock(c) ==
  LET yield == <<"switch", "READY", None>>
  IN  \/ /\ ticks[1] < MaxTicks /\ ticks' = <<ticks[1] + 1, ticks[2]>>
         /\ mips_trap(c, <<yield>>)
      \/ /\ ticks[1] < MaxTicks /\ ticks[2] < MaxMoves /\ ticks' = <<ticks[1] + 1, ticks[2] + 1>>
         /\ mips_trap(c, <<<<"count", 0, 0, 0>>, yield>>)

IpiArrives(c) == line[c] /\ mips_trap(c, <<<<"ipi">>, <<"clear_ipi">>>>) /\ UNCHANGED ticks

\* Once a second, on CPU 0.  With nobody on lbolt it changes nothing.
Lbolt == wchan["lbolt"] # <<>> /\ mips_trap(0, <<<<"timerclock">>>>) /\ UNCHANGED ticks
-----------------------------------------------------------------------------
\* The CPUs have come up; each runs its first thread with interrupts on.
ThreadInit ==
  /\ cur = Boot
  /\ isidle = [c \in CPU |-> FALSE] /\ power = [c \in CPU |-> "on"]
  /\ runq = [c \in CPU |-> <<>>] /\ rqlock = [c \in CPU |-> Nobody] /\ zombies = [c \in CPU |-> <<>>]
  /\ ipi = [c \in CPU |-> {}] /\ line = [c \in CPU |-> FALSE]
  /\ state = [t \in Threads |-> IF \E c \in CPU : Boot[c] = t THEN "RUN" ELSE None]
  /\ tcpu = [t \in Threads |-> IF \E c \in CPU : Boot[c] = t THEN CHOOSE c \in CPU : Boot[c] = t ELSE 0]
  /\ curspl = [t \in Threads |-> 0] /\ iplhigh = [t \in Threads |-> 0]
  /\ todo = [t \in Threads |-> IF \E c \in CPU : Boot[c] = t THEN Script[t] ELSE <<>>]
  /\ wchan = [w \in Wchans |-> <<>>] /\ lk = [w \in Wchans |-> Nobody]
  /\ ticks = <<0, 0>> /\ stopped = ""

ThreadStep(c) ==
  \/ interprocessor_interrupt(c) \/ clear_ipi(c) \/ thread_shutdown(c)
  \/ thread_make_runnable(c) \/ thread_fork(c)
  \/ thread_switch(c) \/ pick(c) \/ resume(c) \/ thread_startup(c) \/ thread_exit(c)
  \/ CountQueue(c) \/ TakeVictims(c) \/ SendVictims(c) \/ PutBack(c)
  \/ unlock(c) \/ timerclock(c) \/ clocksleep(c) \/ irqexit(c)

Interrupt(c) == hardclock(c) \/ IpiArrives(c) \/ (c = 0 /\ Lbolt)
=============================================================================
