------------------------------- MODULE Synch --------------------------------
(***************************************************************************)
(* Semaphores, locks and condition variables (synch.c) over the wait       *)
(* channels of Thread, and the programs of kern/test/synchtest.c that use  *)
(* them.  A semaphore, a lock or a condition variable is named by its wait *)
(* channel, which its spinlock protects.                                   *)
(***************************************************************************)
EXTENDS Thread

CONSTANTS
  Sems, Locks,       \* the wait channels of semaphores and locks (the others are condition variables and lbolt)
  Turns              \* cvtest: the values testval1 takes

VARIABLES
  count,     \* sem_count
  owner,     \* lk_owner
  testval1   \* synchtest.c: whose turn it is

svars == <<count, owner, testval1>>
vars == <<tvars, svars>>

\* A step of c that changes only what its thread does next.
Only(c, ops) == Do(c, ops) /\ UNCHANGED <<cpuvars, state, tcpu, curspl, iplhigh, wchan, lk, ticks, stopped>>
-----------------------------------------------------------------------------
(* Semaphores. *)

\* P: a thread woken here finds the spinlock taken again and tests again.
P(c) ==
  LET s == op(c)[2]
  IN  /\ At(c, "P")
      /\ \/ in_interrupt(cur[c]) /\ Stop("KASSERT in P") /\ UNCHANGED svars
         \/ /\ ~in_interrupt(cur[c])
            /\ spinlock_acquire(c, lk[s],
                 IF count[s] = 0 THEN Sleep(c, s, <<<<"P", s>>>>) ELSE Only(c, <<>>))
            /\ count' = IF lk[s] = Nobody /\ count[s] > 0 THEN [count EXCEPT ![s] = @ - 1] ELSE count
            /\ UNCHANGED <<owner, testval1>>

V(c) ==
  LET s == op(c)[2]
  IN  /\ At(c, "V")
      /\ spinlock_acquire(c, lk[s], Waking(c, s, One(s)))
      /\ count' = IF lk[s] = Nobody THEN [count EXCEPT ![s] = @ + 1] ELSE count
      /\ UNCHANGED <<owner, testval1>>
-----------------------------------------------------------------------------
(* Locks. *)

lock_do_i_hold(c, l) == owner[l] = cur[c]

lock_acquire(c) ==
  LET l == op(c)[2]
  IN  /\ At(c, "lock_acquire")
      /\ \/ (lock_do_i_hold(c, l) \/ in_interrupt(cur[c])) /\ Stop("KASSERT in lock_acquire") /\ UNCHANGED svars
         \/ /\ ~lock_do_i_hold(c, l) /\ ~in_interrupt(cur[c])
            /\ spinlock_acquire(c, lk[l],
                 IF owner[l] # None THEN Sleep(c, l, <<<<"lock_acquire", l>>>>) ELSE Only(c, <<>>))
            /\ owner' = IF lk[l] = Nobody /\ owner[l] = None THEN [owner EXCEPT ![l] = cur[c]] ELSE owner
            /\ UNCHANGED <<count, testval1>>

lock_release(c) ==
  LET l == op(c)[2]
  IN  /\ At(c, "lock_release")
      /\ \/ ~lock_do_i_hold(c, l) /\ Stop("KASSERT in lock_release") /\ UNCHANGED svars
         \/ /\ lock_do_i_hold(c, l)
            /\ spinlock_acquire(c, lk[l], Waking(c, l, One(l)))
            /\ owner' = IF lk[l] = Nobody THEN [owner EXCEPT ![l] = None] ELSE owner
            /\ UNCHANGED <<count, testval1>>
-----------------------------------------------------------------------------
(* Condition variables. *)

\* cv_wait: the lock is released and the thread put to sleep under the
\* spinlock of the condition variable.
cv_wait(c) ==
  LET v == op(c)[2]
      l == op(c)[3]
  IN  /\ At(c, "cv_wait")
      /\ \/ ~lock_do_i_hold(c, l) /\ Stop("KASSERT in cv_wait")
         \/ /\ lock_do_i_hold(c, l)
            /\ spinlock_acquire(c, lk[v],
                 /\ lk' = [lk EXCEPT ![v] = c]
                 /\ iplhigh' = [iplhigh EXCEPT ![cur[c]] = @ + 1]
                 /\ Do(c, <<<<"lock_release", l>>, <<"switch", "SLEEP", v>>, <<"relock", v>>, <<"lock_acquire", l>>>>)
                 /\ UNCHANGED <<cpuvars, state, tcpu, curspl, wchan, ticks, stopped>>)
      /\ UNCHANGED svars

\* Woken, wchan_sleep takes the spinlock and cv_wait releases it.
relock(c) == At(c, "relock") /\ spinlock_acquire(c, lk[op(c)[2]], Only(c, <<>>)) /\ UNCHANGED svars

\* cv_signal and cv_broadcast wake under the condition variable's spinlock.
CvWakes(c, v, l, ts) ==
  /\ \/ ~lock_do_i_hold(c, l) /\ Stop("KASSERT in cv_signal")
     \/ lock_do_i_hold(c, l) /\ spinlock_acquire(c, lk[v], Waking(c, v, ts))
  /\ UNCHANGED svars

cv_signal(c) == At(c, "cv_signal") /\ CvWakes(c, op(c)[2], op(c)[3], One(op(c)[2]))
cv_broadcast(c) == At(c, "cv_broadcast") /\ CvWakes(c, op(c)[2], op(c)[3], All(op(c)[2]))
-----------------------------------------------------------------------------
(* synchtest.c.  inititems makes testsem with count 2 and donesem with 0. *)

\* One round of cvtestthread(num): wait for one's turn, pass it on.
cvtestthread(num) ==
  <<<<"lock_acquire", "testlock">>, <<"turn", num>>, <<"cv_broadcast", "testcv", "testlock">>,
    <<"lock_release", "testlock">>>>

turn(c) ==
  LET num == op(c)[2]
  IN  /\ At(c, "turn")
      /\ Only(c, IF testval1 # num THEN <<<<"cv_wait", "testcv", "testlock">>, op(c)>> ELSE <<>>)
      /\ testval1' = IF testval1 = num THEN (testval1 + Turns - 1) % Turns ELSE testval1
      /\ UNCHANGED <<count, owner>>

\* semtestthread, and one round of cvtest2's sleepthread and wakethread.
semtestthread == <<<<"P", "testsem">>, <<"V", "donesem">>>>
sleepthread == <<<<"lock_acquire", "testlock">>, <<"V", "gatesem">>, <<"cv_wait", "testcv", "testlock">>,
                 <<"lock_release", "testlock">>, <<"V", "exitsem">>>>
wakethread == <<<<"P", "gatesem">>, <<"lock_acquire", "testlock">>, <<"cv_signal", "testcv", "testlock">>,
                <<"lock_release", "testlock">>, <<"V", "exitsem">>>>

\* cpu_hatch, which ends the thread a secondary CPU comes up with, and
\* thread_start_cpus, which waits for one.
cpu_hatch == <<<<"V", "cpu_hatch">>, <<"exit">>>>
thread_start_cpus == [i \in 1..N-1 |-> <<"P", "cpu_hatch">>]
-----------------------------------------------------------------------------
Init ==
  /\ ThreadInit
  /\ count = [s \in Sems |-> 0]
  /\ owner = [l \in Locks |-> None]
  /\ testval1 = Turns - 1

Step(c) ==
  \/ ThreadStep(c) /\ UNCHANGED svars
  \/ P(c) \/ V(c) \/ lock_acquire(c) \/ lock_release(c)
  \/ cv_wait(c) \/ relock(c) \/ cv_signal(c) \/ cv_broadcast(c) \/ turn(c)

Next == \E c \in CPU : Step(c) \/ (Interrupt(c) /\ UNCHANGED svars)

Spec == Init /\ [][Next]_vars

\* A CPU executes, takes the interrupts sent to it, and CPU 0's second timer
\* goes off; other timer interrupts may never come.
FairSpec ==
  /\ Spec
  /\ \A c \in CPU : WF_vars(Step(c)) /\ WF_vars(IpiArrives(c) /\ UNCHANGED svars)
  /\ WF_vars(Lbolt /\ UNCHANGED svars)
-----------------------------------------------------------------------------
(* Properties. *)
Live == {t \in Threads : state[t] # None}

\* The threads an operation has in its hands, and the places a thread is in.
Hand(o) == IF o[1] = "runnable" THEN <<o[2]>> ELSE IF o[1] = "send" THEN o[3] ELSE IF o[1] = "putback" THEN o[2] ELSE <<>>
Times(s, t) == Cardinality({i \in DOMAIN s : s[i] = t})
Places(t) ==
    MapThenSumSet(LAMBDA c : Times(runq[c], t) + Times(zombies[c], t) + (IF cur[c] = t /\ ~isidle[c] THEN 1 ELSE 0), CPU)
  + MapThenSumSet(LAMBDA w : Times(wchan[w], t), Wchans)
  + MapThenSumSet(LAMBDA x : MapThenSumSet(LAMBDA i : Times(Hand(todo[x][i]), t), DOMAIN todo[x]), Threads)

\* The threads, off w's channel, that will look at w before anything else of
\* their own; what comes before is the system's.
System == {"pick", "resume", "startup", "irqexit", "switch", "count", "take", "send", "putback", "ipi", "clear_ipi",
           "timerclock", "runnable", "unlock"}
Looking(w) ==
  {t \in Live : /\ Times(wchan[w], t) = 0
                /\ \E i \in DOMAIN todo[t] : /\ todo[t][i] \in {<<"P", w>>, <<"lock_acquire", w>>}
                                             /\ \A j \in 1..i-1 : todo[t][j][1] \in System}
-----------------------------------------------------------------------------
TypeOK ==
  /\ cur \in [CPU -> Threads] /\ isidle \in [CPU -> BOOLEAN] /\ power \in [CPU -> {"on", "idle", "off"}]
  /\ rqlock \in [CPU -> CPU \cup {Nobody}] /\ lk \in [Wchans -> CPU \cup {Nobody}]
  /\ \A c \in CPU : Range(runq[c]) \subseteq Threads /\ Range(zombies[c]) \subseteq Threads
  /\ \A w \in Wchans : Range(wchan[w]) \subseteq Threads
  /\ ipi \in [CPU -> SUBSET {"UNIDLE", "OFFLINE"}] /\ line \in [CPU -> BOOLEAN]
  /\ state \in [Threads -> {None, "READY", "RUN", "SLEEP", "ZOMBIE"}]
  /\ tcpu \in [Threads -> CPU] /\ curspl \in [Threads -> 0..1] /\ iplhigh \in [Threads -> 0..5]
  /\ count \in [Sems -> 0..Cardinality(Threads)] /\ owner \in [Locks -> Threads \cup {None}]
  /\ testval1 \in 0..Turns-1

\* A thread is in one place: running on one CPU, on one run queue, wait
\* channel or list of zombies, or in the hands of whoever is moving it
\* (a migration's victims, threads a wake-up has taken off a channel).
OnePlace == \A t \in Live : Places(t) = 1

\* No CPU runs a thread another CPU is still using the stack of, and t_cpu is
\* the CPU whose run queue or processor has the thread.
RightCpu ==
  /\ \A c, k \in CPU : cur[c] = cur[k] => c = k
  /\ \A c \in CPU : /\ cur[c] \in Live /\ tcpu[cur[c]] = c
                    /\ \A i \in DOMAIN runq[c] : tcpu[runq[c][i]] = c

\* Interrupts come back on when they should, on whatever CPU: a thread's count
\* of reasons for having them off is its level and the spinlocks of its CPU,
\* or the run queue's lock it will release when it is switched to.
SplBalanced ==
  \A t \in Live : iplhigh[t] = curspl[t] + (IF \E c \in CPU : cur[c] = t
                                            THEN spinlocks(CHOOSE c \in CPU : cur[c] = t) ELSE 1)

\* No KASSERT of the thread system or of synch.c fails, and no CPU takes a
\* spinlock it has.
NoPanic == stopped = ""

\* A wake-up is not lost: while threads sleep on a semaphore, each unit of its
\* count has a thread on its way to take it; the same for a lock that is free.
NoLostWakeup ==
  /\ \A s \in Sems : wchan[s] # <<>> => count[s] <= Cardinality(Looking(s))
  /\ \A l \in Locks : wchan[l] # <<>> /\ owner[l] = None => Looking(l) # {}

\* An idle CPU with something to run has been sent an interrupt.
IdleCalled == \A c \in CPU : power[c] = "idle" /\ runq[c] # <<>> => line[c]

\* The tests end without a timer interrupt: the first thread gets to shut the
\* system down.
Finishes == <>(todo[Boot[0]] = <<>>)

\* The CPUs and their threads are where they say they are, with the interrupts
\* as they should be, and no assertion fails on the way.
CpusSound == TypeOK /\ OnePlace /\ RightCpu /\ SplBalanced /\ NoPanic

\* Who is woken gets to run: neither a unit of a semaphore, nor a free lock, nor
\* a thread on the run queue of an idle CPU waits for somebody else to pass by.
WakeupsArrive == NoLostWakeup /\ IdleCalled
=============================================================================
