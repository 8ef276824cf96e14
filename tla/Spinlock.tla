------------------------------ MODULE Spinlock ------------------------------
(***************************************************************************)
(* Spinlocks, the interrupt level of the thread that takes them, interrupt *)
(* handlers that take them too, and the deadlock detector (hangman) that   *)
(* watches who waits for whom.                                             *)
(***************************************************************************)
EXTENDS Naturals, FiniteSets

CONSTANTS
  Cpus, Locks,
  Handled,    \* locks that interrupt handlers take
  Taken,      \* processors that take interrupts
  Null

ASSUME SpinlockAssumption ==
  /\ Handled \subseteq Locks /\ Taken \subseteq Cpus
  /\ IsFiniteSet(Locks) /\ IsFiniteSet(Cpus) /\ Null \notin Cpus \union Locks

VARIABLES
  data, holder,       \* splk_lock and splk_holder of every lock
  l_holding,          \* of every lock: the detector's idea of its holder
  a_waiting,          \* of every processor: the lock it waits for, to the detector
  curspl, iplhigh,    \* t_curspl (is it IPL_HIGH) and t_iplhigh_count of the processor's thread
  irqoff,             \* the processors with interrupts off
  spinlocks,          \* c_spinlocks
  at,                 \* what the processor does: pc and lock
  below,              \* what it did, and the locks it had, when the interrupt came
  alarm               \* why the kernel stopped, or "no"

spinvars == <<data, holder, l_holding, a_waiting, curspl, iplhigh, irqoff, spinlocks, at, below, alarm>>
levels == <<curspl, iplhigh, irqoff>>
hangman == <<l_holding, a_waiting>>
words == <<data, holder>>

Idle == [pc |-> "run", lock |-> Null]
NoHandler == [pc |-> "none", lock |-> Null, held |-> {}]

SpinInit ==
  /\ data = [l \in Locks |-> FALSE] /\ holder = [l \in Locks |-> Null]
  /\ l_holding = [l \in Locks |-> Null] /\ a_waiting = [c \in Cpus |-> Null]
  /\ curspl = [c \in Cpus |-> FALSE] /\ iplhigh = [c \in Cpus |-> 0] /\ irqoff = {} /\ spinlocks = [c \in Cpus |-> 0]
  /\ at = [c \in Cpus |-> Idle] /\ below = [c \in Cpus |-> NoHandler] /\ alarm = "no"

Does(c, pc) == alarm = "no" /\ at[c].pc = pc
Goes(c, pc) == at' = [at EXCEPT ![c].pc = pc]
InHandler(c) == below[c].pc # "none"
Holds(c) == {l \in Locks : holder[l] = c}

splraise(c) == iplhigh' = [iplhigh EXCEPT ![c] = @ + 1] /\ irqoff' = IF iplhigh[c] = 0 THEN irqoff \union {c} ELSE irqoff

spllower(c) == iplhigh' = [iplhigh EXCEPT ![c] = @ - 1] /\ irqoff' = IF iplhigh[c] = 1 THEN irqoff \ {c} ELSE irqoff

\* splhigh and spl0, in any order with the locks.
splx(c) ==
  /\ Does(c, "run") /\ ~InHandler(c)
  /\ curspl' = [curspl EXCEPT ![c] = ~@]
  /\ IF curspl[c] THEN spllower(c) ELSE splraise(c)
  /\ UNCHANGED <<words, hangman, spinlocks, at, below, alarm>>

(* spinlock_acquire: the level, the check of the holder and hangman_wait, the word, the holder, hangman_acquire. *)
spinlock_acquire(c, l) ==
  /\ Does(c, "run") /\ (InHandler(c) => l \in Handled) /\ l \notin Holds(c) \ below[c].held
  /\ splraise(c) /\ at' = [at EXCEPT ![c] = [pc |-> "check", lock |-> l]]
  /\ UNCHANGED <<curspl, words, hangman, spinlocks, below, alarm>>

\* Who holds the lock that d waits for; and the holders met from lock l on.
Behind(d) == IF d = Null \/ a_waiting[d] = Null THEN Null ELSE l_holding[a_waiting[d]]
Trail(l) == LET cur[n \in 0..Cardinality(Cpus)] == IF n = 0 THEN l_holding[l] ELSE Behind(cur[n - 1]) IN cur
Chain(l) == {Trail(l)[n] : n \in 0..Cardinality(Cpus)} \ {Null}

\* Mutant: only the holder itself is looked at.
hangman_check_One(l, c) == l_holding[l] = c

hangman_check(l, c) == c \in Chain(l)

hangman_wait(c) ==
  /\ Does(c, "check")
  /\ LET l == at[c].lock IN
     /\ alarm' = IF holder[l] = c THEN "own lock" ELSE IF a_waiting[c] # Null THEN "already waiting" ELSE IF hangman_check(l, c) THEN "cycle" ELSE "no"
     /\ IF alarm' = "no" THEN a_waiting' = [a_waiting EXCEPT ![c] = l] ELSE UNCHANGED a_waiting
  /\ spinlocks' = [spinlocks EXCEPT ![c] = @ + 1] /\ Goes(c, "spin")
  /\ UNCHANGED <<levels, words, l_holding, below>>

\* Mutant: the word was tested before, and is set whatever it is now.
testandset_Late(c) ==
  /\ Does(c, "spin") /\ data' = [data EXCEPT ![at[c].lock] = TRUE] /\ Goes(c, "won")
  /\ UNCHANGED <<levels, holder, hangman, spinlocks, below, alarm>>

testandset(c) ==
  /\ Does(c, "spin") /\ ~data[at[c].lock]
  /\ data' = [data EXCEPT ![at[c].lock] = TRUE] /\ Goes(c, "won")
  /\ UNCHANGED <<levels, holder, hangman, spinlocks, below, alarm>>

Own(c) ==
  /\ Does(c, "won") /\ holder' = [holder EXCEPT ![at[c].lock] = c] /\ Goes(c, "note")
  /\ UNCHANGED <<levels, data, hangman, spinlocks, below, alarm>>

hangman_acquire(c) ==
  /\ Does(c, "note")
  /\ LET l == at[c].lock IN
     /\ alarm' = IF a_waiting[c] # l THEN "not waiting" ELSE IF l_holding[l] # Null THEN "still held" ELSE "no"
     /\ l_holding' = [l_holding EXCEPT ![l] = c] /\ a_waiting' = [a_waiting EXCEPT ![c] = Null]
  /\ at' = [at EXCEPT ![c] = Idle]
  /\ UNCHANGED <<levels, words, spinlocks, below>>

(* spinlock_release: the count and hangman_release, the holder, the word, the level. *)
hangman_release(c, l) ==
  /\ Does(c, "run") /\ holder[l] = c
  /\ spinlocks' = [spinlocks EXCEPT ![c] = @ - 1]
  /\ alarm' = IF spinlocks[c] = 0 \/ a_waiting[c] # Null \/ l_holding[l] # c THEN "not held" ELSE "no"
  /\ l_holding' = [l_holding EXCEPT ![l] = Null]
  /\ at' = [at EXCEPT ![c] = [pc |-> "disown", lock |-> l]]
  /\ UNCHANGED <<levels, words, a_waiting, below>>

Disown(c) ==
  /\ Does(c, "disown") /\ holder' = [holder EXCEPT ![at[c].lock] = Null] /\ Goes(c, "clear")
  /\ UNCHANGED <<levels, data, hangman, spinlocks, below, alarm>>

Clear(c) ==
  /\ Does(c, "clear") /\ data' = [data EXCEPT ![at[c].lock] = FALSE] /\ Goes(c, "lower")
  /\ UNCHANGED <<levels, holder, hangman, spinlocks, below, alarm>>

spinlock_release(c) ==
  /\ Does(c, "lower") /\ spllower(c) /\ at' = [at EXCEPT ![c] = Idle]
  /\ UNCHANGED <<curspl, words, hangman, spinlocks, below, alarm>>

(* mips_trap for an interrupt: the level is set as the processor has it, and put back. *)
Interrupted(c) ==
  /\ alarm = "no" /\ c \in Taken \ irqoff /\ ~InHandler(c)
  /\ below' = [below EXCEPT ![c] = [pc |-> at[c].pc, lock |-> at[c].lock, held |-> Holds(c)]] /\ at' = [at EXCEPT ![c] = Idle]
  /\ curspl' = [curspl EXCEPT ![c] = TRUE] /\ iplhigh' = [iplhigh EXCEPT ![c] = @ + 1] /\ irqoff' = irqoff \union {c}
  /\ UNCHANGED <<words, hangman, spinlocks, alarm>>

\* A handler ends with no lock that it took.
Returns(c) ==
  /\ Does(c, "run") /\ InHandler(c) /\ Holds(c) = below[c].held
  /\ at' = [at EXCEPT ![c] = [pc |-> below[c].pc, lock |-> below[c].lock]] /\ below' = [below EXCEPT ![c] = NoHandler]
  /\ curspl' = [curspl EXCEPT ![c] = FALSE] /\ iplhigh' = [iplhigh EXCEPT ![c] = @ - 1] /\ irqoff' = irqoff \ {c}
  /\ UNCHANGED <<words, hangman, spinlocks, alarm>>

SpinNext ==
  \E c \in Cpus :
     \/ splx(c) \/ hangman_wait(c) \/ testandset(c) \/ Own(c) \/ hangman_acquire(c)
     \/ Disown(c) \/ Clear(c) \/ spinlock_release(c) \/ Interrupted(c) \/ Returns(c)
     \/ \E l \in Locks : spinlock_acquire(c, l) \/ hangman_release(c, l)

SpinSpec == SpinInit /\ [][SpinNext]_spinvars

(***************************************************************************)
(* Properties.                                                             *)
(***************************************************************************)

\* One processor at a time has a lock: from its test-and-set to its clearing the word.
Inside(l) == {c \in Cpus : (at[c].lock = l /\ at[c].pc \in {"won", "note", "disown", "clear"}) \/ holder[l] = c}
LocksExact == \A l \in Locks :
  /\ data[l] <=> Inside(l) # {}
  /\ \A c, d \in Inside(l) : c = d

\* Interrupts are off exactly while the thread has raised the level: once for
\* splhigh or the interrupt, and once for every lock it takes or has.  So no
\* handler ever meets a lock of the thread it interrupted.
Claimed(c) == Holds(c) \union (IF at[c].pc = "run" THEN {} ELSE {at[c].lock})
LevelsExact == \A c \in Cpus :
  /\ iplhigh[c] = Cardinality(Claimed(c)) + (IF curspl[c] THEN 1 ELSE 0)
  /\ c \in irqoff <=> iplhigh[c] > 0

\* The detector finds every deadlock the moment it closes, and raises no
\* false alarm: when it stops the kernel, processors do wait in a circle.  None
\* of its other checks, nor those of spinlock.c, ever fails.
Waits(c, d) == at[c].pc \in {"check", "spin"} /\ holder[at[c].lock] = d
Circle(S) == S # {} /\ \A c \in S : \E d \in S : Waits(c, d)
Spinning == {c \in Cpus : at[c].pc = "spin"}
DeadlocksFound ==
  /\ alarm \in {"no", "cycle"}
  /\ alarm = "no" => \A S \in SUBSET Spinning : ~Circle(S)
  /\ alarm = "cycle" => \E S \in SUBSET Cpus : Circle(S)

\* Spinlocks exclude, and the levels that keep interrupts off tell the truth.
SpinlocksSound == LocksExact /\ LevelsExact
=============================================================================
