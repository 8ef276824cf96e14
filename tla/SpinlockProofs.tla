--------------------------- MODULE SpinlockProofs ---------------------------
(***************************************************************************)
(* For any number of processors and locks: a spinlock has one holder, and  *)
(* the interrupt level of a processor is raised once for every lock it     *)
(* takes or has.                                                           *)
(*                                                                         *)
(* The argument.  Mutual exclusion alone is not inductive: an interrupt in *)
(* the middle of an acquisition would make the processor forget where it   *)
(* was.  That it cannot come then follows from the count of the level,     *)
(* which in turn is right only if a holder is never overwritten.  So the   *)
(* two are proved together, with what an interrupt finds (HandlerInv).     *)
(*                                                                         *)
(* And the deadlock detector stops the kernel exactly when processors wait *)
(* in a circle: what hangman_check follows from a lock (Trail) is what the *)
(* processors wait for, as its notes agree with the locks (HangIInv); a    *)
(* circle can only close at a note of hangman_wait, and every other note   *)
(* leads the trails to an end.                                             *)
(***************************************************************************)
EXTENDS Spinlock, FiniteSetTheorems, WellFoundedInduction, TLAPS

PCs == {"run", "check", "spin", "won", "note", "disown", "clear", "lower"}

\* The variables that the locks and levels depend on have their types.
SpinTypes ==
  /\ data \in [Locks -> BOOLEAN] /\ holder \in [Locks -> Cpus \union {Null}]
  /\ curspl \in [Cpus -> BOOLEAN] /\ iplhigh \in [Cpus -> Nat] /\ irqoff \subseteq Cpus
  /\ at \in [Cpus -> [pc : PCs, lock : Locks \union {Null}]]
  /\ below \in [Cpus -> [pc : PCs \union {"none"}, lock : Locks \union {Null}, held : SUBSET Locks]]

\* Where a processor is in an acquisition or a release says what holder is.
HolderInv == \A c \in Cpus :
  LET l == at[c].lock IN
  /\ at[c].pc # "run" => l \in Locks
  /\ at[c].pc \in {"check", "spin", "lower"} => holder[l] # c
  /\ at[c].pc \in {"note", "disown"} => holder[l] = c
  /\ at[c].pc \in {"won", "clear"} => holder[l] = Null

\* An interrupt finds no lock taken and nothing begun, and its level stays.
HandlerInv == \A c \in Cpus :
  /\ below[c].held = {}
  /\ InHandler(c) => below[c].pc = "run" /\ curspl[c]

SpinIInv == SpinTypes /\ HolderInv /\ LocksExact /\ LevelsExact /\ HandlerInv

\* What a processor claims are finitely many locks.
LEMMA ClaimedFinite ==
  ASSUME SpinlockAssumption, SpinTypes, HolderInv, NEW c \in Cpus
  PROVE  /\ Claimed(c) \in SUBSET Locks
         /\ IsFiniteSet(Claimed(c))
         /\ Cardinality(Claimed(c)) \in Nat
         /\ Cardinality(Claimed(c)) = 0 <=> Claimed(c) = {}
<1>1. Claimed(c) \in SUBSET Locks BY DEF HolderInv, Claimed, Holds
<1>2. IsFiniteSet(Claimed(c)) BY <1>1, FS_Subset DEF SpinlockAssumption
<1> QED BY <1>1, <1>2, FS_CardinalityType, FS_EmptySet

\* While nothing is claimed and no level raised, the processor runs.
LEMMA Calm ==
  ASSUME SpinlockAssumption, SpinIInv, NEW c \in Cpus \ irqoff
  PROVE  at[c].pc = "run" /\ Holds(c) = {} /\ iplhigh[c] = 0 /\ ~curspl[c]
<1>1. iplhigh[c] = 0 BY DEF SpinIInv, SpinTypes, LevelsExact
<1>2. Cardinality(Claimed(c)) \in Nat BY ClaimedFinite DEF SpinIInv
<1>3. Cardinality(Claimed(c)) = 0 /\ ~curspl[c] BY <1>1, <1>2 DEF SpinIInv, LevelsExact, SpinTypes
<1>4. Claimed(c) = {} BY <1>3, ClaimedFinite DEF SpinIInv
<1> QED BY <1>1, <1>3, <1>4 DEF Claimed

LEMMA InitSpin == ASSUME SpinlockAssumption, SpinInit PROVE SpinIInv
<1> USE DEF SpinInit, SpinlockAssumption
<1>1. SpinTypes BY DEF SpinTypes, PCs, Idle, NoHandler
<1>2. HolderInv BY DEF HolderInv, Idle
<1>3. LocksExact BY DEF LocksExact, Inside, Idle
<1>4. LevelsExact
  <2>1. \A c \in Cpus : Claimed(c) = {} BY DEF Claimed, Holds, Idle
  <2> QED BY <2>1, FS_EmptySet DEF LevelsExact
<1>5. HandlerInv BY DEF HandlerInv, InHandler, NoHandler
<1> QED BY <1>1, <1>2, <1>3, <1>4, <1>5 DEF SpinIInv

\* A level stays right when neither the claims nor the level change.
LEMMA SameLevels ==
  ASSUME LevelsExact, UNCHANGED levels, \A d \in Cpus : Claimed(d)' = Claimed(d)
  PROVE  LevelsExact'
BY DEF LevelsExact, levels

\* It stays right when a processor claims one lock more and raises its level.
LEMMA OneMore ==
  ASSUME SpinlockAssumption, SpinIInv, UNCHANGED curspl, NEW c \in Cpus, splraise(c),
         NEW l \in Locks, l \notin Claimed(c), Claimed(c)' = Claimed(c) \union {l},
         \A d \in Cpus \ {c} : Claimed(d)' = Claimed(d)
  PROVE  LevelsExact' /\ iplhigh' \in [Cpus -> Nat] /\ irqoff' \subseteq Cpus
<1>1. Cardinality(Claimed(c)') = Cardinality(Claimed(c)) + 1 BY ClaimedFinite, FS_AddElement DEF SpinIInv
<1>2. PICK n \in Nat : n = Cardinality(Claimed(c)) BY ClaimedFinite DEF SpinIInv
<1>3. iplhigh' = [iplhigh EXCEPT ![c] = @ + 1] /\ irqoff' = (IF iplhigh[c] = 0 THEN irqoff \union {c} ELSE irqoff)
  BY DEF splraise
<1>4. iplhigh \in [Cpus -> Nat] /\ irqoff \subseteq Cpus /\ curspl \in [Cpus -> BOOLEAN] BY DEF SpinIInv, SpinTypes
<1>5. LevelsExact BY DEF SpinIInv
<1>6. ASSUME NEW d \in Cpus
      PROVE  iplhigh'[d] = Cardinality(Claimed(d)') + (IF curspl'[d] THEN 1 ELSE 0) /\ (d \in irqoff' <=> iplhigh'[d] > 0)
  <2>1. CASE d = c
    <3>1. iplhigh[c] = n + (IF curspl[c] THEN 1 ELSE 0) BY <1>2, <1>5 DEF LevelsExact
    <3>2. iplhigh'[c] = iplhigh[c] + 1 BY <1>3, <1>4
    <3>3. iplhigh'[c] = (n + 1) + (IF curspl[c] THEN 1 ELSE 0) BY <3>1, <3>2
    <3>4. iplhigh'[c] > 0 BY <1>4, <3>2
    <3>5. c \in irqoff' BY <1>3, <1>4, <1>5 DEF LevelsExact
    <3> QED BY <1>1, <1>2, <2>1, <3>3, <3>4, <3>5
  <2>2. CASE d # c BY <1>3, <1>4, <1>5, <2>2 DEF LevelsExact
  <2> QED BY <2>1, <2>2
<1>7. iplhigh' \in [Cpus -> Nat] /\ irqoff' \subseteq Cpus BY <1>3, <1>4
<1> QED BY <1>6, <1>7 DEF LevelsExact

\* It stays right when a processor gives up one claim and lowers its level.
LEMMA OneLess ==
  ASSUME SpinlockAssumption, SpinIInv, UNCHANGED curspl, NEW c \in Cpus, spllower(c),
         NEW l \in Claimed(c), Claimed(c)' = Claimed(c) \ {l},
         \A d \in Cpus \ {c} : Claimed(d)' = Claimed(d)
  PROVE  LevelsExact' /\ iplhigh' \in [Cpus -> Nat] /\ irqoff' \subseteq Cpus
<1>1. PICK n \in Nat : n = Cardinality(Claimed(c)) /\ n > 0 BY ClaimedFinite DEF SpinIInv
<1>2. Cardinality(Claimed(c)') = n - 1 BY <1>1, ClaimedFinite, FS_RemoveElement DEF SpinIInv
<1>3. iplhigh' = [iplhigh EXCEPT ![c] = @ - 1] /\ irqoff' = (IF iplhigh[c] = 1 THEN irqoff \ {c} ELSE irqoff)
  BY DEF spllower
<1>4. iplhigh \in [Cpus -> Nat] /\ irqoff \subseteq Cpus /\ curspl \in [Cpus -> BOOLEAN] BY DEF SpinIInv, SpinTypes
<1>5. LevelsExact BY DEF SpinIInv
<1>6. iplhigh[c] = n + (IF curspl[c] THEN 1 ELSE 0) /\ iplhigh[c] > 0 BY <1>1, <1>5 DEF LevelsExact
<1>7. ASSUME NEW d \in Cpus
      PROVE  iplhigh'[d] = Cardinality(Claimed(d)') + (IF curspl'[d] THEN 1 ELSE 0) /\ (d \in irqoff' <=> iplhigh'[d] > 0)
  <2>1. CASE d = c
    <3>1. iplhigh'[c] = iplhigh[c] - 1 BY <1>3, <1>4
    <3>2. iplhigh'[c] = (n - 1) + (IF curspl[c] THEN 1 ELSE 0) BY <1>6, <3>1
    <3>3. c \in irqoff' <=> iplhigh'[c] > 0 BY <1>3, <1>4, <1>5, <1>6, <3>1 DEF LevelsExact
    <3> QED BY <1>2, <2>1, <3>2, <3>3
  <2>2. CASE d # c BY <1>3, <1>4, <1>5, <2>2 DEF LevelsExact
  <2> QED BY <2>1, <2>2
<1>8. iplhigh' \in [Cpus -> Nat] /\ irqoff' \subseteq Cpus BY <1>3, <1>4, <1>6
<1> QED BY <1>7, <1>8 DEF LevelsExact

\* Exclusion stays right when one lock changes, and is right there.
LEMMA OneLock ==
  ASSUME LocksExact, NEW l \in Locks, data'[l] <=> Inside(l)' # {}, \A c, d \in Inside(l)' : c = d,
         \A k \in Locks \ {l} : data'[k] = data[k] /\ Inside(k)' = Inside(k)
  PROVE  LocksExact'
<1> SUFFICES ASSUME NEW k \in Locks PROVE (data'[k] <=> Inside(k)' # {}) /\ (\A c, d \in Inside(k)' : c = d)
  BY DEF LocksExact
<1>1. CASE k = l BY <1>1
<1>2. CASE k # l BY <1>2 DEF LocksExact
<1> QED BY <1>1, <1>2

-----------------------------------------------------------------------------
(* One lemma per action.  Those that leave the levels alone claim neither   *)
(* more nor less, and SameLevels does the rest.                             *)

LEMMA hangman_waitStep ==
  ASSUME SpinlockAssumption, SpinIInv, NEW c \in Cpus, hangman_wait(c) PROVE SpinIInv'
<1> USE DEF SpinIInv, PCs
<1>1. /\ at[c].pc = "check" /\ at' = [at EXCEPT ![c].pc = "spin"]
      /\ UNCHANGED <<data, holder, below, levels>>
  BY DEF hangman_wait, Does, Goes, words
<1>2. SpinTypes' BY <1>1 DEF SpinTypes, levels
<1>3. HolderInv' BY <1>1 DEF HolderInv, SpinTypes
<1>4. LocksExact' BY <1>1 DEF LocksExact, Inside, SpinTypes
<1>5. \A d \in Cpus : Claimed(d)' = Claimed(d) BY <1>1 DEF Claimed, Holds, SpinTypes
<1>6. LevelsExact' BY <1>1, <1>5, SameLevels
<1>7. HandlerInv' BY <1>1 DEF HandlerInv, InHandler, levels
<1> QED BY <1>2, <1>3, <1>4, <1>6, <1>7

LEMMA testandsetStep ==
  ASSUME SpinlockAssumption, SpinIInv, NEW c \in Cpus, testandset(c) PROVE SpinIInv'
<1> USE DEF SpinIInv, PCs
<1>0. PICK l \in Locks : l = at[c].lock BY DEF testandset, Does, Goes, HolderInv
<1>1. /\ at[c].pc = "spin" /\ at' = [at EXCEPT ![c].pc = "won"]
      /\ ~data[l] /\ data' = [data EXCEPT ![l] = TRUE]
      /\ UNCHANGED <<holder, below, levels>>
  BY <1>0 DEF testandset, Does, Goes
<1>3. Inside(l) = {} BY <1>0, <1>1 DEF LocksExact
<1>4. holder[l] = Null BY <1>3 DEF Inside, SpinTypes
<1>5. SpinTypes' BY <1>0, <1>1 DEF SpinTypes, levels
<1>6. HolderInv' BY <1>0, <1>1, <1>4 DEF HolderInv, SpinTypes
<1>7. LocksExact'
  <2>1. Inside(l)' = {c} BY <1>0, <1>1, <1>3 DEF Inside, SpinTypes
  <2>2. \A k \in Locks \ {l} : data'[k] = data[k] BY <1>1 DEF SpinTypes
  <2>5. \A k \in Locks \ {l} : Inside(k)' = Inside(k) BY <1>0, <1>1 DEF Inside, SpinTypes
  <2>4. data'[l] = TRUE BY <1>0, <1>1 DEF SpinTypes
  <2> QED BY <2>1, <2>2, <2>4, <2>5, OneLock
<1>8. \A d \in Cpus : Claimed(d)' = Claimed(d) BY <1>0, <1>1 DEF Claimed, Holds, SpinTypes
<1>9. LevelsExact' BY <1>0, <1>1, <1>8, SameLevels
<1>10. HandlerInv' BY <1>0, <1>1 DEF HandlerInv, InHandler, levels
<1> QED BY <1>5, <1>6, <1>7, <1>9, <1>10

LEMMA OwnStep ==
  ASSUME SpinlockAssumption, SpinIInv, NEW c \in Cpus, Own(c) PROVE SpinIInv'
<1> USE DEF SpinIInv, PCs
<1>0. PICK l \in Locks : l = at[c].lock BY DEF Own, Does, Goes, HolderInv
<1>1. /\ at[c].pc = "won" /\ at' = [at EXCEPT ![c].pc = "note"]
      /\ holder' = [holder EXCEPT ![l] = c]
      /\ UNCHANGED <<data, below, levels>>
  BY <1>0 DEF Own, Does, Goes
<1>2. holder[l] = Null BY <1>0, <1>1 DEF HolderInv
<1>3. c \in Inside(l) BY <1>0, <1>1 DEF Inside
<1>4. \A d \in Cpus \ {c} : d \notin Inside(l) BY <1>2, <1>3 DEF LocksExact
<1>5. SpinTypes' BY <1>0, <1>1, <1>2 DEF SpinTypes, levels
<1>6. HolderInv'
  <2>1. ASSUME NEW d \in Cpus \ {c}, at[d].lock = l PROVE at[d].pc \notin {"won", "note", "disown", "clear"}
    BY <1>4, <2>1 DEF Inside
  <2> QED BY <1>0, <1>1, <1>2, <2>1 DEF HolderInv, SpinTypes
<1>7. LocksExact'
  <2>1. Inside(l)' = {c} BY <1>0, <1>1, <1>2, <1>4 DEF Inside, SpinTypes
  <2>2. \A k \in Locks \ {l} : data'[k] = data[k] BY <1>1 DEF SpinTypes
  <2>5. \A k \in Locks \ {l} : Inside(k)' = Inside(k) BY <1>0, <1>1 DEF Inside, SpinTypes
  <2>3. data[l] BY <1>2, <1>3 DEF LocksExact
  <2>4. data'[l] = TRUE BY <1>0, <1>1, <1>2, <2>3 DEF SpinTypes
  <2> QED BY <2>1, <2>2, <2>4, <2>5, OneLock
<1>8. \A d \in Cpus : Claimed(d)' = Claimed(d)
  <2>1. Claimed(c)' = Claimed(c) BY <1>0, <1>1, <1>2 DEF Claimed, Holds, SpinTypes
  <2>2. ASSUME NEW d \in Cpus \ {c} PROVE Claimed(d)' = Claimed(d)
    <3>1. d # Null BY DEF SpinlockAssumption
    <3> QED BY <1>0, <1>1, <1>2, <3>1 DEF Claimed, Holds, SpinTypes
  <2> QED BY <2>1, <2>2
<1>9. LevelsExact' BY <1>0, <1>1, <1>8, SameLevels
<1>10. HandlerInv' BY <1>0, <1>1 DEF HandlerInv, InHandler, levels
<1> QED BY <1>5, <1>6, <1>7, <1>9, <1>10

LEMMA hangman_acquireStep ==
  ASSUME SpinlockAssumption, SpinIInv, NEW c \in Cpus, hangman_acquire(c) PROVE SpinIInv'
<1> USE DEF SpinIInv, PCs
<1>1. /\ at[c].pc = "note" /\ at' = [at EXCEPT ![c] = Idle]
      /\ UNCHANGED <<data, holder, below, levels>>
  BY DEF hangman_acquire, Does, words
<1>2. at[c].lock \in Locks /\ holder[at[c].lock] = c BY <1>1 DEF HolderInv
<1>3. SpinTypes' BY <1>1 DEF SpinTypes, levels, Idle
<1>4. HolderInv' BY <1>1 DEF HolderInv, SpinTypes, Idle
<1>5. \A k \in Locks : Inside(k)' = Inside(k) BY <1>1, <1>2 DEF Inside, SpinTypes, Idle
<1>6. LocksExact' BY <1>1, <1>5 DEF LocksExact
<1>7. \A d \in Cpus : Claimed(d)' = Claimed(d) BY <1>1, <1>2 DEF Claimed, Holds, SpinTypes, Idle
<1>8. LevelsExact' BY <1>1, <1>7, SameLevels
<1>9. HandlerInv' BY <1>1 DEF HandlerInv, InHandler, levels
<1> QED BY <1>3, <1>4, <1>6, <1>8, <1>9

LEMMA hangman_releaseStep ==
  ASSUME SpinlockAssumption, SpinIInv, NEW c \in Cpus, NEW l \in Locks, hangman_release(c, l) PROVE SpinIInv'
<1> USE DEF SpinIInv, PCs
<1>1. /\ at[c].pc = "run" /\ holder[l] = c /\ at' = [at EXCEPT ![c] = [pc |-> "disown", lock |-> l]]
      /\ UNCHANGED <<data, holder, below, levels>>
  BY DEF hangman_release, Does, words
<1>2. SpinTypes' BY <1>1 DEF SpinTypes, levels
<1>3. HolderInv' BY <1>1 DEF HolderInv, SpinTypes
<1>4. \A k \in Locks : Inside(k)' = Inside(k) BY <1>1 DEF Inside, SpinTypes
<1>5. LocksExact' BY <1>1, <1>4 DEF LocksExact
<1>6. \A d \in Cpus : Claimed(d)' = Claimed(d) BY <1>1 DEF Claimed, Holds, SpinTypes
<1>7. LevelsExact' BY <1>1, <1>6, SameLevels
<1>8. HandlerInv' BY <1>1 DEF HandlerInv, InHandler, levels
<1> QED BY <1>2, <1>3, <1>5, <1>7, <1>8

LEMMA DisownStep ==
  ASSUME SpinlockAssumption, SpinIInv, NEW c \in Cpus, Disown(c) PROVE SpinIInv'
<1> USE DEF SpinIInv, PCs
<1>0. PICK l \in Locks : l = at[c].lock BY DEF Disown, Does, Goes, HolderInv
<1>1. /\ at[c].pc = "disown" /\ at' = [at EXCEPT ![c].pc = "clear"]
      /\ holder' = [holder EXCEPT ![l] = Null]
      /\ UNCHANGED <<data, below, levels>>
  BY <1>0 DEF Disown, Does, Goes
<1>2. holder[l] = c /\ c # Null BY <1>0, <1>1 DEF HolderInv, SpinlockAssumption
<1>3. c \in Inside(l) BY <1>2 DEF Inside
<1>4. \A d \in Cpus \ {c} : d \notin Inside(l) BY <1>2, <1>3 DEF LocksExact
<1>5. SpinTypes' BY <1>0, <1>1, <1>2 DEF SpinTypes, levels
<1>6. HolderInv'
  <2>1. ASSUME NEW d \in Cpus \ {c}, at[d].lock = l PROVE at[d].pc \notin {"won", "note", "disown", "clear"}
    BY <1>4, <2>1 DEF Inside
  <2>2. \A d \in Cpus : d # Null BY DEF SpinlockAssumption
  <2> QED BY <1>0, <1>1, <1>2, <2>1, <2>2 DEF HolderInv, SpinTypes
<1>7. LocksExact'
  <2>1. Inside(l)' = {c}
    <3>1. \A d \in Cpus : d # Null BY DEF SpinlockAssumption
    <3> QED BY <1>0, <1>1, <1>2, <1>4, <3>1 DEF Inside, SpinTypes
  <2>2. \A k \in Locks \ {l} : data'[k] = data[k] BY <1>1 DEF SpinTypes
  <2>5. \A k \in Locks \ {l} : Inside(k)' = Inside(k) BY <1>0, <1>1 DEF Inside, SpinTypes
  <2>3. data[l] BY <1>2, <1>3 DEF LocksExact
  <2>4. data'[l] = TRUE BY <1>0, <1>1, <1>2, <2>3 DEF SpinTypes
  <2> QED BY <2>1, <2>2, <2>4, <2>5, OneLock
<1>8. \A d \in Cpus : Claimed(d)' = Claimed(d)
  <2>1. Claimed(c)' = Claimed(c) BY <1>0, <1>1, <1>2 DEF Claimed, Holds, SpinTypes
  <2>2. ASSUME NEW d \in Cpus \ {c} PROVE Claimed(d)' = Claimed(d)
    <3>1. d # Null BY DEF SpinlockAssumption
    <3> QED BY <1>0, <1>1, <1>2, <3>1 DEF Claimed, Holds, SpinTypes
  <2> QED BY <2>1, <2>2
<1>9. LevelsExact' BY <1>0, <1>1, <1>8, SameLevels
<1>10. HandlerInv' BY <1>0, <1>1 DEF HandlerInv, InHandler, levels
<1> QED BY <1>5, <1>6, <1>7, <1>9, <1>10

LEMMA ClearStep ==
  ASSUME SpinlockAssumption, SpinIInv, NEW c \in Cpus, Clear(c) PROVE SpinIInv'
<1> USE DEF SpinIInv, PCs
<1>0. PICK l \in Locks : l = at[c].lock BY DEF Clear, Does, Goes, HolderInv
<1>1. /\ at[c].pc = "clear" /\ at' = [at EXCEPT ![c].pc = "lower"]
      /\ data' = [data EXCEPT ![l] = FALSE]
      /\ UNCHANGED <<holder, below, levels>>
  BY <1>0 DEF Clear, Does, Goes
<1>2. holder[l] = Null /\ c # Null BY <1>0, <1>1 DEF HolderInv, SpinlockAssumption
<1>3. c \in Inside(l) BY <1>0, <1>1 DEF Inside
<1>4. \A d \in Cpus \ {c} : d \notin Inside(l) BY <1>2, <1>3 DEF LocksExact
<1>5. SpinTypes' BY <1>0, <1>1 DEF SpinTypes, levels
<1>6. HolderInv' BY <1>0, <1>1, <1>2 DEF HolderInv, SpinTypes
<1>7. LocksExact'
  <2>1. Inside(l)' = {} BY <1>0, <1>1, <1>2, <1>4 DEF Inside, SpinTypes
  <2>2. \A k \in Locks \ {l} : data'[k] = data[k] BY <1>1 DEF SpinTypes
  <2>5. \A k \in Locks \ {l} : Inside(k)' = Inside(k) BY <1>0, <1>1 DEF Inside, SpinTypes
  <2>4. data'[l] = FALSE BY <1>0, <1>1, <1>2 DEF SpinTypes
  <2> QED BY <2>1, <2>2, <2>4, <2>5, OneLock
<1>8. \A d \in Cpus : Claimed(d)' = Claimed(d) BY <1>0, <1>1 DEF Claimed, Holds, SpinTypes
<1>9. LevelsExact' BY <1>0, <1>1, <1>8, SameLevels
<1>10. HandlerInv' BY <1>0, <1>1 DEF HandlerInv, InHandler, levels
<1> QED BY <1>5, <1>6, <1>7, <1>9, <1>10

LEMMA spinlock_acquireStep ==
  ASSUME SpinlockAssumption, SpinIInv, NEW c \in Cpus, NEW l \in Locks, spinlock_acquire(c, l) PROVE SpinIInv'
<1> USE DEF SpinIInv, PCs
<1>1. /\ at[c].pc = "run" /\ l \notin Holds(c) /\ at' = [at EXCEPT ![c] = [pc |-> "check", lock |-> l]]
      /\ splraise(c) /\ UNCHANGED <<data, holder, below, curspl>>
  BY DEF spinlock_acquire, Does, words, HandlerInv
<1>2. Claimed(c) = Holds(c) /\ Claimed(c)' = Holds(c) \union {l} BY <1>1 DEF Claimed, Holds, SpinTypes
<1>3. \A d \in Cpus \ {c} : Claimed(d)' = Claimed(d) BY <1>1 DEF Claimed, Holds, SpinTypes
<1>4. LevelsExact' /\ iplhigh' \in [Cpus -> Nat] /\ irqoff' \subseteq Cpus BY <1>1, <1>2, <1>3, OneMore
<1>5. SpinTypes' BY <1>1, <1>4 DEF SpinTypes
<1>6. HolderInv' BY <1>1 DEF HolderInv, SpinTypes, Holds
<1>7. LocksExact' BY <1>1 DEF LocksExact, Inside, SpinTypes
<1>8. HandlerInv' BY <1>1 DEF HandlerInv, InHandler
<1> QED BY <1>4, <1>5, <1>6, <1>7, <1>8

LEMMA spinlock_releaseStep ==
  ASSUME SpinlockAssumption, SpinIInv, NEW c \in Cpus, spinlock_release(c) PROVE SpinIInv'
<1> USE DEF SpinIInv, PCs
<1>1. /\ at[c].pc = "lower" /\ at' = [at EXCEPT ![c] = Idle]
      /\ spllower(c) /\ UNCHANGED <<data, holder, below, curspl>>
  BY DEF spinlock_release, Does, words
<1>2. at[c].lock \in Locks /\ holder[at[c].lock] # c BY <1>1 DEF HolderInv
<1>3. at[c].lock \in Claimed(c) /\ Claimed(c)' = Claimed(c) \ {at[c].lock}
  BY <1>1, <1>2 DEF Claimed, Holds, SpinTypes, Idle
<1>4. \A d \in Cpus \ {c} : Claimed(d)' = Claimed(d) BY <1>1 DEF Claimed, Holds, SpinTypes
<1>5. LevelsExact' /\ iplhigh' \in [Cpus -> Nat] /\ irqoff' \subseteq Cpus BY <1>1, <1>3, <1>4, OneLess
<1>6. SpinTypes' BY <1>1, <1>5 DEF SpinTypes, Idle
<1>7. HolderInv' BY <1>1 DEF HolderInv, SpinTypes, Idle
<1>8. LocksExact' BY <1>1 DEF LocksExact, Inside, SpinTypes, Idle
<1>9. HandlerInv' BY <1>1 DEF HandlerInv, InHandler
<1> QED BY <1>5, <1>6, <1>7, <1>8, <1>9

LEMMA splxStep ==
  ASSUME SpinlockAssumption, SpinIInv, NEW c \in Cpus, splx(c) PROVE SpinIInv'
<1> USE DEF SpinIInv
<1>1. /\ ~InHandler(c) /\ curspl' = [curspl EXCEPT ![c] = ~@]
      /\ IF curspl[c] THEN spllower(c) ELSE splraise(c)
      /\ UNCHANGED <<data, holder, at, below>>
  BY DEF splx, words
<1>2. \A d \in Cpus : Claimed(d)' = Claimed(d) BY <1>1 DEF Claimed, Holds
<1>3. PICK n \in Nat : n = Cardinality(Claimed(c)) BY ClaimedFinite
<1>4. iplhigh \in [Cpus -> Nat] /\ irqoff \subseteq Cpus /\ curspl \in [Cpus -> BOOLEAN] BY DEF SpinTypes
<1>5. iplhigh[c] = n + (IF curspl[c] THEN 1 ELSE 0) /\ (c \in irqoff <=> iplhigh[c] > 0) BY <1>3 DEF LevelsExact
<1>6. /\ iplhigh' = [iplhigh EXCEPT ![c] = n + (IF curspl'[c] THEN 1 ELSE 0)]
      /\ irqoff' = IF iplhigh'[c] > 0 THEN irqoff \union {c} ELSE irqoff \ {c}
  <2>1. CASE curspl[c]
    <3>0. spllower(c) BY <1>1, <2>1
    <3>1. iplhigh[c] = n + 1 /\ iplhigh'[c] = n /\ ~curspl'[c]
      <4>1. iplhigh[c] = n + 1 BY <1>5, <2>1
      <4>2. iplhigh'[c] = iplhigh[c] - 1 BY <1>4, <3>0 DEF spllower
      <4>3. ~curspl'[c] BY <1>1, <1>4, <2>1
      <4> QED BY <4>1, <4>2, <4>3
    <3>2. iplhigh[c] - 1 = n /\ (iplhigh[c] = 1 <=> n = 0) BY <3>1
    <3>3. iplhigh' = [iplhigh EXCEPT ![c] = n]
      <4>1. iplhigh' = [iplhigh EXCEPT ![c] = iplhigh[c] - 1] BY <3>0 DEF spllower
      <4> QED BY <3>2, <4>1, Zenon
    <3>4. irqoff' = IF n > 0 THEN irqoff \union {c} ELSE irqoff \ {c}
      <4>1. irqoff' = IF n = 0 THEN irqoff \ {c} ELSE irqoff BY <3>0, <3>2 DEF spllower
      <4>2. c \in irqoff BY <1>5, <3>1
      <4> QED BY <4>1, <4>2
    <3> QED BY <3>1, <3>3, <3>4
  <2>2. CASE ~curspl[c]
    <3>0. splraise(c) BY <1>1, <2>2
    <3>1. iplhigh[c] = n /\ iplhigh'[c] = n + 1 /\ curspl'[c]
      <4>1. iplhigh[c] = n BY <1>5, <2>2
      <4>2. iplhigh'[c] = iplhigh[c] + 1 BY <1>4, <3>0 DEF splraise
      <4>3. curspl'[c] BY <1>1, <1>4, <2>2
      <4> QED BY <4>1, <4>2, <4>3
    <3>2. iplhigh' = [iplhigh EXCEPT ![c] = n + 1]
      <4>1. iplhigh' = [iplhigh EXCEPT ![c] = iplhigh[c] + 1] BY <3>0 DEF splraise
      <4> QED BY <3>1, <4>1, Zenon
    <3>3. irqoff' = irqoff \union {c}
      <4>1. irqoff' = IF n = 0 THEN irqoff \union {c} ELSE irqoff BY <3>0, <3>1 DEF splraise
      <4>2. n > 0 => c \in irqoff BY <1>5, <3>1
      <4> QED BY <4>1, <4>2
    <3>4. n + 1 > 0 OBVIOUS
    <3> QED BY <3>1, <3>2, <3>3, <3>4
  <2> QED BY <2>1, <2>2
<1>7. LevelsExact'
  <2>1. ASSUME NEW d \in Cpus
        PROVE  iplhigh'[d] = Cardinality(Claimed(d)') + (IF curspl'[d] THEN 1 ELSE 0) /\ (d \in irqoff' <=> iplhigh'[d] > 0)
    <3>1. CASE d = c BY <1>2, <1>3, <1>4, <1>6, <3>1
    <3>2. CASE d # c BY <1>1, <1>2, <1>4, <1>6, <3>2 DEF LevelsExact
    <3> QED BY <3>1, <3>2
  <2> QED BY <2>1 DEF LevelsExact
<1>8. SpinTypes' BY <1>1, <1>4, <1>6 DEF SpinTypes
<1>9. HolderInv' /\ LocksExact' BY <1>1 DEF HolderInv, LocksExact, Inside
<1>10. HandlerInv' BY <1>1, <1>4 DEF HandlerInv, InHandler
<1> QED BY <1>7, <1>8, <1>9, <1>10

LEMMA InterruptedStep ==
  ASSUME SpinlockAssumption, SpinIInv, NEW c \in Cpus, Interrupted(c) PROVE SpinIInv'
<1> USE DEF SpinIInv
<1>1. at[c].pc = "run" /\ Holds(c) = {} /\ iplhigh[c] = 0 /\ ~curspl[c] BY Calm DEF Interrupted
<1>2. /\ below' = [below EXCEPT ![c] = [pc |-> "run", lock |-> at[c].lock, held |-> {}]]
      /\ at' = [at EXCEPT ![c] = Idle] /\ curspl' = [curspl EXCEPT ![c] = TRUE]
      /\ iplhigh' = [iplhigh EXCEPT ![c] = @ + 1] /\ irqoff' = irqoff \union {c}
      /\ UNCHANGED <<data, holder>>
  BY <1>1 DEF Interrupted, words
<1>3. SpinTypes' BY <1>2 DEF SpinTypes, PCs, Idle
<1>4. HolderInv' BY <1>1, <1>2 DEF HolderInv, SpinTypes, Idle
<1>5. \A k \in Locks : Inside(k)' = Inside(k) BY <1>1, <1>2 DEF Inside, SpinTypes, Idle
<1>6. LocksExact' BY <1>2, <1>5 DEF LocksExact
<1>7. LevelsExact'
  <2>1. Claimed(c)' = {} BY <1>1, <1>2 DEF Claimed, Holds, SpinTypes, Idle
  <2>2. Cardinality(Claimed(c)') = 0 BY <2>1, FS_EmptySet
  <2>3. \A d \in Cpus \ {c} : Claimed(d)' = Claimed(d) BY <1>2 DEF Claimed, Holds, SpinTypes
  <2>4. iplhigh'[c] = 1 /\ curspl'[c] /\ c \in irqoff' BY <1>1, <1>2 DEF SpinTypes
  <2>5. \A d \in Cpus \ {c} : iplhigh'[d] = iplhigh[d] /\ curspl'[d] = curspl[d] /\ (d \in irqoff' <=> d \in irqoff)
    BY <1>2 DEF SpinTypes
  <2> QED BY <2>2, <2>3, <2>4, <2>5 DEF LevelsExact
<1>8. HandlerInv' BY <1>2 DEF HandlerInv, InHandler, SpinTypes
<1> QED BY <1>3, <1>4, <1>6, <1>7, <1>8

LEMMA ReturnsStep ==
  ASSUME SpinlockAssumption, SpinIInv, NEW c \in Cpus, Returns(c) PROVE SpinIInv'
<1> USE DEF SpinIInv
<1>1. at[c].pc = "run" /\ Holds(c) = {} /\ curspl[c] /\ below[c].pc = "run" BY DEF Returns, Does, HandlerInv
<1>2. /\ at' = [at EXCEPT ![c] = [pc |-> "run", lock |-> below[c].lock]] /\ below' = [below EXCEPT ![c] = NoHandler]
      /\ curspl' = [curspl EXCEPT ![c] = FALSE]
      /\ iplhigh' = [iplhigh EXCEPT ![c] = @ - 1] /\ irqoff' = irqoff \ {c}
      /\ UNCHANGED <<data, holder>>
  BY <1>1 DEF Returns, words
<1>3. Claimed(c) = {} /\ Claimed(c)' = {} BY <1>1, <1>2 DEF Claimed, Holds, SpinTypes
<1>4. Cardinality(Claimed(c)) = 0 /\ Cardinality(Claimed(c)') = 0 BY <1>3, FS_EmptySet
<1>5. iplhigh[c] = 1 BY <1>1, <1>4 DEF LevelsExact
<1>6. SpinTypes' BY <1>2, <1>5 DEF SpinTypes, PCs, NoHandler
<1>7. HolderInv' BY <1>1, <1>2 DEF HolderInv, SpinTypes
<1>8. \A k \in Locks : Inside(k)' = Inside(k) BY <1>1, <1>2 DEF Inside, SpinTypes
<1>9. LocksExact' BY <1>2, <1>8 DEF LocksExact
<1>10. LevelsExact'
  <2>1. \A d \in Cpus \ {c} : Claimed(d)' = Claimed(d) BY <1>2 DEF Claimed, Holds, SpinTypes
  <2>2. iplhigh'[c] = 0 /\ ~curspl'[c] /\ c \notin irqoff' BY <1>2, <1>5 DEF SpinTypes
  <2>3. \A d \in Cpus \ {c} : iplhigh'[d] = iplhigh[d] /\ curspl'[d] = curspl[d] /\ (d \in irqoff' <=> d \in irqoff)
    BY <1>2 DEF SpinTypes
  <2> QED BY <1>4, <2>1, <2>2, <2>3 DEF LevelsExact
<1>11. HandlerInv' BY <1>2 DEF HandlerInv, InHandler, SpinTypes, NoHandler
<1> QED BY <1>6, <1>7, <1>9, <1>10, <1>11

-----------------------------------------------------------------------------
\* The inductive invariant (spinlock.c, spl.c, mips_trap's interrupts): locks
\* have one holder, levels count them, and a handler finds none taken.
THEOREM SpinInvariant == ASSUME SpinlockAssumption PROVE SpinSpec => []SpinIInv
<1>1. SpinInit => SpinIInv BY InitSpin
<1>2. SpinIInv /\ [SpinNext]_spinvars => SpinIInv'
  <2> SUFFICES ASSUME SpinIInv, [SpinNext]_spinvars PROVE SpinIInv' OBVIOUS
  <2>1. CASE UNCHANGED spinvars
    <3>1. UNCHANGED <<data, holder, levels, at, below>> BY <2>1 DEF spinvars, levels
    <3>2. SpinTypes' /\ HolderInv' /\ HandlerInv' BY <3>1 DEF SpinIInv, SpinTypes, HolderInv, HandlerInv, InHandler, levels
    <3>3. LocksExact' BY <3>1 DEF SpinIInv, LocksExact, Inside
    <3>4. \A c \in Cpus : Claimed(c)' = Claimed(c) BY <3>1 DEF Claimed, Holds
    <3>5. LevelsExact' BY <3>1, <3>4, SameLevels DEF SpinIInv
    <3> QED BY <3>2, <3>3, <3>5 DEF SpinIInv
  <2>2. CASE SpinNext
    <3> PICK c \in Cpus :
          \/ splx(c) \/ hangman_wait(c) \/ testandset(c) \/ Own(c) \/ hangman_acquire(c)
          \/ Disown(c) \/ Clear(c) \/ spinlock_release(c) \/ Interrupted(c) \/ Returns(c)
          \/ \E l \in Locks : spinlock_acquire(c, l) \/ hangman_release(c, l)
      BY <2>2 DEF SpinNext
    <3>1. CASE splx(c) BY <3>1, splxStep
    <3>2. CASE hangman_wait(c) BY <3>2, hangman_waitStep
    <3>3. CASE testandset(c) BY <3>3, testandsetStep
    <3>4. CASE Own(c) BY <3>4, OwnStep
    <3>5. CASE hangman_acquire(c) BY <3>5, hangman_acquireStep
    <3>6. CASE Disown(c) BY <3>6, DisownStep
    <3>7. CASE Clear(c) BY <3>7, ClearStep
    <3>8. CASE spinlock_release(c) BY <3>8, spinlock_releaseStep
    <3>9. CASE Interrupted(c) BY <3>9, InterruptedStep
    <3>10. CASE Returns(c) BY <3>10, ReturnsStep
    <3>11. CASE \E l \in Locks : spinlock_acquire(c, l) BY <3>11, spinlock_acquireStep
    <3>12. CASE \E l \in Locks : hangman_release(c, l) BY <3>12, hangman_releaseStep
    <3> QED BY <3>1, <3>2, <3>3, <3>4, <3>5, <3>6, <3>7, <3>8, <3>9, <3>10, <3>11, <3>12
  <2> QED BY <2>1, <2>2
<1> QED BY <1>1, <1>2, PTL DEF SpinSpec

\* Spinlocks exclude, and the interrupt level is raised once for every lock and
\* once for splhigh or an interrupt (spinlock_acquire, spinlock_release, splx).
THEOREM LocksAndLevels == ASSUME SpinlockAssumption PROVE SpinSpec => []SpinlocksSound
<1>1. SpinIInv => SpinlocksSound BY DEF SpinIInv, SpinlocksSound
<1> QED BY <1>1, SpinInvariant, PTL

\* A handler never finds its processor in the middle of an acquisition or with
\* a lock (mips_trap, spinlock_acquire): it cannot wait for the thread it stopped.
THEOREM HandlersFindNone == ASSUME SpinlockAssumption PROVE SpinSpec => [](\A c \in Cpus : below[c].held = {})
<1>1. SpinIInv => \A c \in Cpus : below[c].held = {} BY DEF SpinIInv, HandlerInv
<1> QED BY <1>1, SpinInvariant, PTL
-----------------------------------------------------------------------------
(***************************************************************************)
(* The deadlock detector.  It follows the holders from lock to lock with   *)
(* what it has noted itself, later than the locks are taken and earlier    *)
(* than they are given back; HangExact says how the notes and the locks    *)
(* relate.  A walk that does not come back to the processor that is about  *)
(* to wait meets some processor twice, and then there was a circle before. *)
(***************************************************************************)

Noted(c) == {l \in Locks : l_holding[l] = c}
Entering == {"spin", "won", "note"}

HangTypes ==
  /\ l_holding \in [Locks -> Cpus \union {Null}] /\ a_waiting \in [Cpus -> Locks \union {Null}]
  /\ spinlocks \in [Cpus -> Nat]

\* What the detector notes: a lock is noted while it has its holder, but for the
\* last step of an acquisition and the first of a release; a wait, all through.
HangExact == \A c \in Cpus :
  /\ a_waiting[c] = IF at[c].pc \in Entering THEN at[c].lock ELSE Null
  /\ \A l \in Locks : l_holding[l] = c <=> holder[l] = c /\ ~(at[c].pc \in {"note", "disown"} /\ at[c].lock = l)
  /\ spinlocks[c] = Cardinality(Noted(c)) + (IF at[c].pc \in Entering THEN 1 ELSE 0)

NoCircle == \A S \in SUBSET Spinning : ~Circle(S)

HangIInv ==
  /\ HangTypes
  /\ alarm \in {"no", "cycle"}
  /\ alarm = "no" => HangExact /\ NoCircle
  /\ alarm = "cycle" => \E S \in SUBSET Cpus : Circle(S)

\* Every nonempty set of numbers has a least element.
LEMMA Least == ASSUME NEW T \in SUBSET Nat, T # {} PROVE \E x \in T : \A y \in T : x <= y
<1> DEFINE R == OpToRel(<, Nat)
<1>1. IsWellFoundedOn(R, Nat) BY NatLessThanWellFounded
<1>2. \A x, y \in Nat : y < x => <<y, x>> \in R BY DEF OpToRel
<1> HIDE DEF R
<1>3. PICK x \in T : \A y \in T : ~(<<y, x>> \in R) BY <1>1, WFMin
<1>4. ASSUME NEW y \in T PROVE x <= y
  <2>1. x \in Nat /\ y \in Nat BY <1>3
  <2>2. ~(y < x) BY <1>2, <1>3, <2>1
  <2> QED BY <2>1, <2>2
<1> QED BY <1>3, <1>4

\* The walk is the function its definition says: the first n for which there
\* were none would have a predecessor for which there is one.
LEMMA TrailExact ==
  ASSUME NEW l, Cardinality(Cpus) \in Nat
  PROVE  Trail(l) = [n \in 0..Cardinality(Cpus) |-> IF n = 0 THEN l_holding[l] ELSE Behind(Trail(l)[n - 1])]
<1> DEFINE Is(f, k) == f = [n \in 0..k |-> IF n = 0 THEN l_holding[l] ELSE Behind(f[n - 1])]
           None == {k \in Nat : ~\E f : Is(f, k)}
<1>1. None = {}
  <2> SUFFICES ASSUME None # {} PROVE FALSE OBVIOUS
  <2>1. PICK k \in None : \A j \in None : k <= j BY Least
  <2>2. k # 0
    <3>1. Is([n \in 0..0 |-> l_holding[l]], 0) OBVIOUS
    <3> QED BY <2>1, <3>1
  <2>3. k \in Nat /\ k - 1 \in Nat /\ k - 1 \notin None BY <2>1, <2>2
  <2>4. PICK f : Is(f, k - 1) BY <2>3
  <2> DEFINE g == [n \in 0..k |-> IF n = 0 THEN l_holding[l] ELSE Behind(f[n - 1])]
  <2>5. \A n \in 0..(k - 1) : g[n] = f[n]
    <3> HIDE DEF g
    <3>1. \A n \in 0..(k - 1) : f[n] = IF n = 0 THEN l_holding[l] ELSE Behind(f[n - 1]) BY <2>4
    <3>2. \A n \in 0..k : g[n] = IF n = 0 THEN l_holding[l] ELSE Behind(f[n - 1]) BY DEF g
    <3> QED BY <2>3, <3>1, <3>2
  <2>6. ASSUME NEW n \in 0..k PROVE g[n] = IF n = 0 THEN l_holding[l] ELSE Behind(g[n - 1])
    <3>1. CASE n = 0 BY <2>3, <3>1
    <3>2. CASE n # 0
      <4>1. n - 1 \in 0..(k - 1) BY <2>3, <3>2
      <4>2. g[n] = Behind(f[n - 1]) BY <3>2
      <4> HIDE DEF g
      <4> QED BY <2>5, <3>2, <4>1, <4>2
    <3> QED BY <3>1, <3>2
  <2>7. Is(g, k)
    <3>1. g = [n \in 0..k |-> g[n]] OBVIOUS
    <3> HIDE DEF g
    <3> QED BY <2>6, <3>1
  <2> QED BY <2>1, <2>7
<1>2. \E f : Is(f, Cardinality(Cpus)) BY <1>1
<1> QED BY <1>2 DEF Trail

\* The elements of a walk, one after the other.
LEMMA TrailSteps ==
  ASSUME SpinlockAssumption, HangTypes, NEW l \in Locks
  PROVE  /\ Cardinality(Cpus) \in Nat
         /\ Trail(l)[0] = l_holding[l]
         /\ \A n \in 0..Cardinality(Cpus) :
              /\ Trail(l)[n] \in Cpus \union {Null}
              /\ n > 0 => Trail(l)[n] = Behind(Trail(l)[n - 1])
<1> DEFINE K == Cardinality(Cpus)
<1>1. K \in Nat BY FS_CardinalityType DEF SpinlockAssumption
<1>2. \A n \in 0..K : Trail(l)[n] = IF n = 0 THEN l_holding[l] ELSE Behind(Trail(l)[n - 1])
  <2>1. Trail(l) = [n \in 0..K |-> IF n = 0 THEN l_holding[l] ELSE Behind(Trail(l)[n - 1])] BY <1>1, TrailExact
  <2> DEFINE w == Trail(l)
  <2> HIDE DEF w, K
  <2> QED BY <2>1 DEF w
<1>3. \A n \in 0..K : Trail(l)[n] \in Cpus \union {Null}
  <2> DEFINE Bad == {n \in Nat : n <= K /\ Trail(l)[n] \notin Cpus \union {Null}}
  <2> SUFFICES ASSUME Bad # {} PROVE FALSE BY <1>1
  <2>1. PICK n \in Bad : \A m \in Bad : n <= m BY Least
  <2>2. n # 0 BY <1>1, <1>2, <2>1 DEF HangTypes
  <2>3. n - 1 \in 0..K /\ n - 1 \notin Bad /\ n \in 0..K BY <1>1, <2>1, <2>2
  <2>4. Trail(l)[n] = Behind(Trail(l)[n - 1]) BY <1>2, <2>2, <2>3
  <2>5. Trail(l)[n - 1] \in Cpus \union {Null} BY <2>3
  <2>6. Behind(Trail(l)[n - 1]) \in Cpus \union {Null} BY <2>5 DEF Behind, HangTypes
  <2> QED BY <2>1, <2>4, <2>6
<1> QED BY <1>1, <1>2, <1>3

LEMMA InitHang == ASSUME SpinlockAssumption, SpinInit PROVE HangIInv
<1> USE DEF SpinInit, SpinlockAssumption
<1>1. HangTypes BY DEF HangTypes
<1>2. HangExact
  <2>1. \A c \in Cpus : Noted(c) = {} BY DEF Noted
  <2>2. \A c \in Cpus : at[c].pc = "run" BY DEF Idle
  <2>3. \A c \in Cpus : Cardinality(Noted(c)) = 0 BY <2>1, FS_EmptySet
  <2> QED BY <2>2, <2>3 DEF HangExact, Entering
<1>3. NoCircle BY DEF NoCircle, Spinning, Circle, Idle
<1> QED BY <1>1, <1>2, <1>3 DEF HangIInv

\* The notes of a processor are finitely many.
LEMMA NotedFinite ==
  ASSUME SpinlockAssumption, NEW c
  PROVE  IsFiniteSet(Noted(c)) /\ Cardinality(Noted(c)) \in Nat
<1>1. Noted(c) \subseteq Locks BY DEF Noted
<1> QED BY <1>1, FS_Subset, FS_CardinalityType DEF SpinlockAssumption

\* No circle comes into being where nobody begins to wait: who waits for a
\* spinning processor does so before the step.
LEMMA NoNewCircle ==
  ASSUME NoCircle, Spinning' \subseteq Spinning, \A c, d \in Spinning' : Waits(c, d)' => Waits(c, d)
  PROVE  NoCircle'
<1> SUFFICES ASSUME NEW S \in SUBSET Spinning', S # {}, \A c \in S : \E d \in S : Waits(c, d)' PROVE FALSE
  BY DEF NoCircle, Circle
<1>1. S \in SUBSET Spinning OBVIOUS
<1>2. \A c \in S : \E d \in S : Waits(c, d) OBVIOUS
<1> QED BY <1>1, <1>2 DEF NoCircle, Circle

\* A step that neither begins nor ends a wait, nor touches a note.
LEMMA SameNotes ==
  ASSUME HangIInv, alarm = "no", UNCHANGED <<hangman, spinlocks, alarm>>,
         \A c \in Cpus :
           /\ (at[c].pc \in Entering <=> at'[c].pc \in Entering) /\ (at[c].pc \in Entering => at'[c].lock = at[c].lock)
           /\ \A l \in Locks : (holder[l] = c /\ ~(at[c].pc \in {"note", "disown"} /\ at[c].lock = l))
                <=> (holder'[l] = c /\ ~(at'[c].pc \in {"note", "disown"} /\ at'[c].lock = l)),
         Spinning' \subseteq Spinning, \A c, d \in Spinning' : Waits(c, d)' => Waits(c, d)
  PROVE  HangIInv'
<1>1. HangTypes' BY DEF HangIInv, HangTypes, hangman
<1>2. NoCircle' BY NoNewCircle DEF HangIInv
<1>3. HangExact'
  <2> SUFFICES ASSUME NEW c \in Cpus
      PROVE  /\ a_waiting'[c] = IF at'[c].pc \in Entering THEN at'[c].lock ELSE Null
             /\ \A l \in Locks : l_holding'[l] = c <=> holder'[l] = c /\ ~(at'[c].pc \in {"note", "disown"} /\ at'[c].lock = l)
             /\ spinlocks'[c] = Cardinality(Noted(c)') + (IF at'[c].pc \in Entering THEN 1 ELSE 0)
    BY DEF HangExact, Entering
  <2>1. HangExact /\ l_holding' = l_holding /\ a_waiting' = a_waiting /\ spinlocks' = spinlocks BY DEF HangIInv, hangman
  <2>2. Noted(c)' = Noted(c) BY <2>1 DEF Noted
  <2>3. /\ a_waiting[c] = IF at[c].pc \in Entering THEN at[c].lock ELSE Null
        /\ spinlocks[c] = Cardinality(Noted(c)) + (IF at[c].pc \in Entering THEN 1 ELSE 0)
    BY <2>1 DEF HangExact
  <2>4. \A l \in Locks : l_holding[l] = c <=> holder[l] = c /\ ~(at[c].pc \in {"note", "disown"} /\ at[c].lock = l)
    BY <2>1 DEF HangExact
  <2>5. \A l \in Locks : l_holding'[l] = c <=> holder'[l] = c /\ ~(at'[c].pc \in {"note", "disown"} /\ at'[c].lock = l)
    BY <2>1, <2>4
  <2>6. CASE at[c].pc \in Entering BY <2>1, <2>2, <2>3, <2>5, <2>6
  <2>7. CASE at[c].pc \notin Entering BY <2>1, <2>2, <2>3, <2>5, <2>7
  <2> QED BY <2>6, <2>7
<1> QED BY <1>1, <1>2, <1>3 DEF HangIInv

LEMMA QuietHang ==
  ASSUME SpinlockAssumption, SpinIInv, HangIInv, NEW c \in Cpus,
         \/ splx(c) \/ testandset(c) \/ Own(c) \/ Disown(c) \/ Clear(c) \/ spinlock_release(c)
         \/ Interrupted(c) \/ Returns(c) \/ \E l \in Locks : spinlock_acquire(c, l)
  PROVE  HangIInv'
<1> DEFINE Noted1(d, l) == holder[l] = d /\ ~(at[d].pc \in {"note", "disown"} /\ at[d].lock = l)
           Noted2(d, l) == holder'[l] = d /\ ~(at'[d].pc \in {"note", "disown"} /\ at'[d].lock = l)
<1>0. SpinTypes /\ HolderInv /\ \A d \in Cpus : d # Null BY DEF SpinIInv, SpinlockAssumption
<1>1. CASE splx(c)
  <2>1. alarm = "no" /\ UNCHANGED <<at, holder, hangman, spinlocks, alarm>> BY <1>1 DEF splx, Does, words
  <2>2. Spinning' = Spinning /\ \A a, b \in Cpus : Waits(a, b)' <=> Waits(a, b) BY <2>1 DEF Spinning, Waits
  <2> QED BY <2>1, <2>2, SameNotes DEF Spinning
<1>2. CASE testandset(c)
  <2>1. /\ alarm = "no" /\ UNCHANGED <<holder, hangman, spinlocks, alarm>>
        /\ at[c].pc = "spin" /\ at' = [at EXCEPT ![c].pc = "won"]
    BY <1>2 DEF testandset, Does, Goes
  <2>2. \A d \in Cpus : at'[d] = IF d = c THEN [pc |-> "won", lock |-> at[c].lock] ELSE at[d] BY <1>0, <2>1 DEF SpinTypes
  <2> QED BY <2>1, <2>2, SameNotes DEF Spinning, Waits, Entering
<1>3. CASE Own(c)
  <2>1. /\ alarm = "no" /\ UNCHANGED <<hangman, spinlocks, alarm>>
        /\ at[c].pc = "won" /\ at' = [at EXCEPT ![c].pc = "note"] /\ holder' = [holder EXCEPT ![at[c].lock] = c]
    BY <1>3 DEF Own, Does, Goes
  <2>2. \A d \in Cpus : at'[d] = IF d = c THEN [pc |-> "note", lock |-> at[c].lock] ELSE at[d] BY <1>0, <2>1 DEF SpinTypes
  <2>3. at[c].lock \in Locks /\ holder[at[c].lock] = Null BY <1>0, <2>1 DEF HolderInv
  <2>4. \A l \in Locks : holder'[l] = IF l = at[c].lock THEN c ELSE holder[l] BY <1>0, <2>1 DEF SpinTypes
  <2>5. \A d \in Cpus, l \in Locks : Noted1(d, l) <=> Noted2(d, l) BY <1>0, <2>1, <2>2, <2>3, <2>4
  <2>6. Spinning' \subseteq Spinning /\ c \notin Spinning' BY <2>1, <2>2 DEF Spinning
  <2>7. \A a, b \in Spinning' : Waits(a, b)' => Waits(a, b)
    <3> SUFFICES ASSUME NEW a \in Spinning', NEW b \in Spinning', Waits(a, b)' PROVE Waits(a, b) OBVIOUS
    <3>1. a # c /\ b # c /\ a \in Cpus /\ at[a].pc = "spin" /\ at'[a] = at[a] BY <2>2, <2>6 DEF Spinning
    <3>2. at[a].lock \in Locks BY <1>0, <3>1 DEF HolderInv
    <3> QED BY <2>4, <3>1, <3>2 DEF Waits
  <2> QED BY <2>1, <2>2, <2>5, <2>6, <2>7, SameNotes DEF Entering
<1>4. CASE Disown(c)
  <2>1. /\ alarm = "no" /\ UNCHANGED <<hangman, spinlocks, alarm>>
        /\ at[c].pc = "disown" /\ at' = [at EXCEPT ![c].pc = "clear"] /\ holder' = [holder EXCEPT ![at[c].lock] = Null]
    BY <1>4 DEF Disown, Does, Goes
  <2>2. \A d \in Cpus : at'[d] = IF d = c THEN [pc |-> "clear", lock |-> at[c].lock] ELSE at[d] BY <1>0, <2>1 DEF SpinTypes
  <2>3. at[c].lock \in Locks /\ holder[at[c].lock] = c BY <1>0, <2>1 DEF HolderInv
  <2>4. \A l \in Locks : holder'[l] = IF l = at[c].lock THEN Null ELSE holder[l] BY <1>0, <2>1 DEF SpinTypes
  <2>5. \A d \in Cpus, l \in Locks : Noted1(d, l) <=> Noted2(d, l) BY <1>0, <2>1, <2>2, <2>3, <2>4
  <2>6. Spinning' \subseteq Spinning /\ c \notin Spinning' BY <2>1, <2>2 DEF Spinning
  <2>7. \A a, b \in Spinning' : Waits(a, b)' => Waits(a, b)
    <3> SUFFICES ASSUME NEW a \in Spinning', NEW b \in Spinning', Waits(a, b)' PROVE Waits(a, b) OBVIOUS
    <3>1. a # c /\ b # c /\ a \in Cpus /\ b \in Cpus /\ at[a].pc = "spin" /\ at'[a] = at[a] BY <2>2, <2>6 DEF Spinning
    <3>2. at[a].lock \in Locks BY <1>0, <3>1 DEF HolderInv
    <3> QED BY <1>0, <2>4, <3>1, <3>2 DEF Waits
  <2> QED BY <2>1, <2>2, <2>5, <2>6, <2>7, SameNotes DEF Entering
<1>5. CASE Clear(c)
  <2>1. /\ alarm = "no" /\ UNCHANGED <<holder, hangman, spinlocks, alarm>>
        /\ at[c].pc = "clear" /\ at' = [at EXCEPT ![c].pc = "lower"]
    BY <1>5 DEF Clear, Does, Goes
  <2>2. \A d \in Cpus : at'[d] = IF d = c THEN [pc |-> "lower", lock |-> at[c].lock] ELSE at[d] BY <1>0, <2>1 DEF SpinTypes
  <2> QED BY <2>1, <2>2, SameNotes DEF Spinning, Waits, Entering
<1>6. CASE spinlock_release(c)
  <2>1. /\ alarm = "no" /\ UNCHANGED <<holder, hangman, spinlocks, alarm>>
        /\ at[c].pc = "lower" /\ at' = [at EXCEPT ![c] = Idle]
    BY <1>6 DEF spinlock_release, Does, words
  <2>2. \A d \in Cpus : at'[d] = IF d = c THEN Idle ELSE at[d] BY <1>0, <2>1 DEF SpinTypes
  <2> QED BY <2>1, <2>2, SameNotes DEF Spinning, Waits, Entering, Idle
<1>7. CASE Interrupted(c)
  <2>1. /\ alarm = "no" /\ UNCHANGED <<holder, hangman, spinlocks, alarm>>
        /\ at' = [at EXCEPT ![c] = Idle] /\ c \in Cpus \ irqoff
    BY <1>7 DEF Interrupted, words
  <2>2. at[c].pc = "run" BY <2>1, Calm
  <2>3. \A d \in Cpus : at'[d] = IF d = c THEN Idle ELSE at[d] BY <1>0, <2>1 DEF SpinTypes
  <2> QED BY <2>1, <2>2, <2>3, SameNotes DEF Spinning, Waits, Entering, Idle
<1>8. CASE Returns(c)
  <2>1. /\ alarm = "no" /\ UNCHANGED <<holder, hangman, spinlocks, alarm>>
        /\ at' = [at EXCEPT ![c] = [pc |-> below[c].pc, lock |-> below[c].lock]] /\ at[c].pc = "run" /\ below[c].pc = "run"
    BY <1>8 DEF Returns, Does, words, SpinIInv, HandlerInv
  <2>3. \A d \in Cpus : at'[d] = IF d = c THEN [pc |-> "run", lock |-> below[c].lock] ELSE at[d] BY <1>0, <2>1 DEF SpinTypes
  <2> QED BY <2>1, <2>3, SameNotes DEF Spinning, Waits, Entering
<1>9. ASSUME NEW l \in Locks, spinlock_acquire(c, l) PROVE HangIInv'
  <2>1. /\ alarm = "no" /\ UNCHANGED <<holder, hangman, spinlocks, alarm>>
        /\ at[c].pc = "run" /\ at' = [at EXCEPT ![c] = [pc |-> "check", lock |-> l]]
    BY <1>9 DEF spinlock_acquire, Does, words
  <2>2. \A d \in Cpus : at'[d] = IF d = c THEN [pc |-> "check", lock |-> l] ELSE at[d] BY <1>0, <2>1 DEF SpinTypes
  <2> QED BY <2>1, <2>2, SameNotes DEF Spinning, Waits, Entering
<1> QED BY <1>1, <1>2, <1>3, <1>4, <1>5, <1>6, <1>7, <1>8, <1>9
LEMMA hangman_acquireHang ==
  ASSUME SpinlockAssumption, SpinIInv, HangIInv, NEW c \in Cpus, hangman_acquire(c) PROVE HangIInv'
<1>0. SpinTypes /\ HolderInv /\ HangTypes /\ \A d \in Cpus : d # Null BY DEF SpinIInv, SpinlockAssumption, HangIInv
<1>1. PICK l \in Locks : l = at[c].lock
  <2>1. at[c].pc = "note" BY DEF hangman_acquire, Does
  <2> QED BY <1>0, <2>1 DEF HolderInv
<1>2. /\ alarm = "no" /\ at[c].pc = "note" /\ at' = [at EXCEPT ![c] = Idle] /\ UNCHANGED <<holder, spinlocks>>
      /\ alarm' = IF a_waiting[c] # l THEN "not waiting" ELSE IF l_holding[l] # Null THEN "still held" ELSE "no"
      /\ l_holding' = [l_holding EXCEPT ![l] = c] /\ a_waiting' = [a_waiting EXCEPT ![c] = Null]
  BY <1>1 DEF hangman_acquire, Does, words
<1>3. HangExact /\ NoCircle BY <1>2 DEF HangIInv
<1>20. at[c].pc = "note" /\ at' = [at EXCEPT ![c] = Idle] /\ holder' = holder /\ spinlocks' = spinlocks BY <1>2
<1>21. l_holding' = [l_holding EXCEPT ![l] = c] /\ a_waiting' = [a_waiting EXCEPT ![c] = Null] BY <1>2
<1>4. holder[l] = c BY <1>0, <1>1, <1>2 DEF HolderInv
<1>5. a_waiting[c] = l /\ l_holding[l] = Null
  <2>1. a_waiting[c] = l BY <1>1, <1>2, <1>3 DEF HangExact, Entering
  <2>2. ASSUME NEW d \in Cpus, l_holding[l] = d PROVE FALSE
    <3>1. holder[l] = d /\ ~(at[d].pc \in {"note", "disown"} /\ at[d].lock = l) BY <1>3, <2>2 DEF HangExact
    <3> QED BY <1>1, <1>4, <1>20, <3>1
  <2> QED BY <1>0, <2>1, <2>2 DEF HangTypes
<1>6. alarm' = "no" BY <1>2, <1>5
<1>7. \A d \in Cpus : at'[d] = IF d = c THEN Idle ELSE at[d] BY <1>0, <1>2 DEF SpinTypes
<1>8. HangTypes' BY <1>0, <1>2 DEF HangTypes
<1>9. NoCircle'
  <2>1. Spinning' \subseteq Spinning /\ c \notin Spinning' BY <1>7 DEF Spinning, Idle
  <2>2. \A a, b \in Spinning' : Waits(a, b)' => Waits(a, b) BY <1>20, <1>7, <2>1 DEF Waits, Idle, Spinning
  <2> QED BY <1>3, <2>1, <2>2, NoNewCircle
<1>10. HangExact'
  <2>1. \A k \in Locks : l_holding'[k] = IF k = l THEN c ELSE l_holding[k] BY <1>0, <1>2 DEF HangTypes
  <2>2. Noted(c)' = Noted(c) \union {l} /\ l \notin Noted(c) BY <1>0, <1>5, <2>1 DEF Noted
  <2>3. \A d \in Cpus \ {c} : Noted(d)' = Noted(d) BY <1>0, <1>5, <2>1 DEF Noted
  <2>4. PICK n \in Nat : n = Cardinality(Noted(c)) BY NotedFinite
  <2>5. Cardinality(Noted(c)') = n + 1 BY <2>2, <2>4, NotedFinite, FS_AddElement
  <2>6. spinlocks[c] = n + 1 BY <1>2, <1>3, <2>4 DEF HangExact, Entering
  <2> SUFFICES ASSUME NEW d \in Cpus
      PROVE  /\ a_waiting'[d] = IF at'[d].pc \in Entering THEN at'[d].lock ELSE Null
             /\ \A k \in Locks : l_holding'[k] = d <=> holder'[k] = d /\ ~(at'[d].pc \in {"note", "disown"} /\ at'[d].lock = k)
             /\ spinlocks'[d] = Cardinality(Noted(d)') + (IF at'[d].pc \in Entering THEN 1 ELSE 0)
    BY DEF HangExact, Entering
  <2>7. \A k \in Locks : l_holding[k] = d <=> holder[k] = d /\ ~(at[d].pc \in {"note", "disown"} /\ at[d].lock = k)
    BY <1>3 DEF HangExact
  <2>8. CASE d = c
    <3>1. at'[c].pc = "run" /\ a_waiting'[c] = Null BY <1>0, <1>7, <1>21 DEF Idle, HangTypes
    <3>2. \A k \in Locks : l_holding'[k] = c <=> holder'[k] = c BY <1>1, <1>2, <1>4, <2>1, <2>7, <2>8
    <3>3. spinlocks'[c] = n + 1 BY <1>2, <2>6
    <3> QED BY <2>5, <2>8, <3>1, <3>2, <3>3 DEF Entering
  <2>9. CASE d # c
    <3>1. at'[d] = at[d] /\ a_waiting'[d] = a_waiting[d] /\ spinlocks'[d] = spinlocks[d] BY <1>0, <1>2, <1>7, <2>9 DEF HangTypes
    <3>2. \A k \in Locks : l_holding'[k] = d <=> l_holding[k] = d BY <1>0, <1>5, <2>1, <2>9
    <3>3. \A k \in Locks : l_holding'[k] = d <=> holder'[k] = d /\ ~(at'[d].pc \in {"note", "disown"} /\ at'[d].lock = k)
      BY <1>2, <2>7, <3>1, <3>2
    <3>4. a_waiting[d] = IF at[d].pc \in Entering THEN at[d].lock ELSE Null BY <1>3 DEF HangExact
    <3>5. spinlocks[d] = Cardinality(Noted(d)) + (IF at[d].pc \in Entering THEN 1 ELSE 0) BY <1>3 DEF HangExact
    <3>6. Noted(d)' = Noted(d) BY <2>3, <2>9
    <3> QED BY <3>1, <3>3, <3>4, <3>5, <3>6
  <2> QED BY <2>8, <2>9
<1> QED BY <1>6, <1>8, <1>9, <1>10 DEF HangIInv

LEMMA hangman_releaseHang ==
  ASSUME SpinlockAssumption, SpinIInv, HangIInv, NEW c \in Cpus, NEW l \in Locks, hangman_release(c, l) PROVE HangIInv'
<1>0. SpinTypes /\ HolderInv /\ HangTypes /\ \A d \in Cpus : d # Null BY DEF SpinIInv, SpinlockAssumption, HangIInv
<1>2. /\ alarm = "no" /\ at[c].pc = "run" /\ holder[l] = c /\ UNCHANGED <<holder, a_waiting>>
      /\ at' = [at EXCEPT ![c] = [pc |-> "disown", lock |-> l]]
      /\ alarm' = IF spinlocks[c] = 0 \/ a_waiting[c] # Null \/ l_holding[l] # c THEN "not held" ELSE "no"
      /\ l_holding' = [l_holding EXCEPT ![l] = Null] /\ spinlocks' = [spinlocks EXCEPT ![c] = @ - 1]
  BY DEF hangman_release, Does, words
<1>3. HangExact /\ NoCircle BY <1>2 DEF HangIInv
<1>4. PICK n \in Nat : n = Cardinality(Noted(c)) BY NotedFinite
<1>20. at[c].pc = "run" /\ holder[l] = c /\ holder' = holder /\ a_waiting' = a_waiting
      /\ at' = [at EXCEPT ![c] = [pc |-> "disown", lock |-> l]]
  BY <1>2
<1>5. a_waiting[c] = Null /\ l_holding[l] = c /\ spinlocks[c] = n
  <2>1. spinlocks[c] = n + 0 /\ a_waiting[c] = Null BY <1>3, <1>4, <1>20 DEF HangExact, Entering
  <2>2. l_holding[l] = c BY <1>3, <1>20 DEF HangExact
  <2> QED BY <1>4, <2>1, <2>2
<1>6. n # 0
  <2>1. l \in Noted(c) BY <1>5 DEF Noted
  <2> QED BY <1>4, <2>1, NotedFinite, FS_EmptySet
<1>7. alarm' = "no" BY <1>2, <1>5, <1>6
<1>8. \A d \in Cpus : at'[d] = IF d = c THEN [pc |-> "disown", lock |-> l] ELSE at[d] BY <1>0, <1>2 DEF SpinTypes
<1>9. HangTypes' BY <1>0, <1>2, <1>5, <1>6 DEF HangTypes
<1>10. NoCircle'
  <2>1. Spinning' \subseteq Spinning /\ c \notin Spinning' BY <1>8 DEF Spinning
  <2>2. \A a, b \in Spinning' : Waits(a, b)' => Waits(a, b) BY <1>20, <1>8, <2>1 DEF Waits, Spinning
  <2> QED BY <1>3, <2>1, <2>2, NoNewCircle
<1>11. HangExact'
  <2>1. \A k \in Locks : l_holding'[k] = IF k = l THEN Null ELSE l_holding[k] BY <1>0, <1>2 DEF HangTypes
  <2>2. Noted(c)' = Noted(c) \ {l} /\ l \in Noted(c) BY <1>0, <1>5, <2>1 DEF Noted
  <2>3. \A d \in Cpus \ {c} : Noted(d)' = Noted(d) BY <1>0, <1>5, <2>1 DEF Noted
  <2>5. Cardinality(Noted(c)') = n - 1 BY <1>4, <2>2, NotedFinite, FS_RemoveElement
  <2> SUFFICES ASSUME NEW d \in Cpus
      PROVE  /\ a_waiting'[d] = IF at'[d].pc \in Entering THEN at'[d].lock ELSE Null
             /\ \A k \in Locks : l_holding'[k] = d <=> holder'[k] = d /\ ~(at'[d].pc \in {"note", "disown"} /\ at'[d].lock = k)
             /\ spinlocks'[d] = Cardinality(Noted(d)') + (IF at'[d].pc \in Entering THEN 1 ELSE 0)
    BY DEF HangExact, Entering
  <2>7. \A k \in Locks : l_holding[k] = d <=> holder[k] = d /\ ~(at[d].pc \in {"note", "disown"} /\ at[d].lock = k)
    BY <1>3 DEF HangExact
  <2>8. CASE d = c
    <3>1. at'[c].pc = "disown" /\ at'[c].lock = l /\ a_waiting'[c] = Null BY <1>20, <1>5, <1>8
    <3>2. \A k \in Locks : l_holding'[k] = c <=> holder'[k] = c /\ k # l BY <1>0, <1>2, <2>1, <2>7, <2>8
    <3>3. spinlocks'[c] = n - 1 BY <1>0, <1>2, <1>5 DEF HangTypes
    <3> QED BY <1>4, <2>5, <2>8, <3>1, <3>2, <3>3 DEF Entering
  <2>9. CASE d # c
    <3>1. at'[d] = at[d] /\ a_waiting'[d] = a_waiting[d] /\ spinlocks'[d] = spinlocks[d] BY <1>0, <1>2, <1>8, <2>9 DEF HangTypes
    <3>2. \A k \in Locks : l_holding'[k] = d <=> l_holding[k] = d BY <1>0, <1>5, <2>1, <2>9
    <3>3. \A k \in Locks : l_holding'[k] = d <=> holder'[k] = d /\ ~(at'[d].pc \in {"note", "disown"} /\ at'[d].lock = k)
      BY <1>2, <2>7, <3>1, <3>2
    <3>4. a_waiting[d] = IF at[d].pc \in Entering THEN at[d].lock ELSE Null BY <1>3 DEF HangExact
    <3>5. spinlocks[d] = Cardinality(Noted(d)) + (IF at[d].pc \in Entering THEN 1 ELSE 0) BY <1>3 DEF HangExact
    <3>6. Noted(d)' = Noted(d) BY <2>3, <2>9
    <3> QED BY <3>1, <3>3, <3>4, <3>5, <3>6
  <2> QED BY <2>8, <2>9
<1> QED BY <1>7, <1>9, <1>10, <1>11 DEF HangIInv

\* A walk that comes back to the processor that is about to wait is a circle
\* as soon as it does wait: every note on the way stands for a lock held.
LEMMA TrailIsCircle ==
  ASSUME SpinlockAssumption, SpinIInv, HangIInv, alarm = "no", NEW c \in Cpus, at[c].pc = "check",
         hangman_check(at[c].lock, c), UNCHANGED holder, at' = [at EXCEPT ![c].pc = "spin"]
  PROVE  \E S \in SUBSET Cpus : Circle(S)'
<1>0. SpinTypes /\ HolderInv /\ HangTypes /\ HangExact /\ \A d \in Cpus : d # Null
  BY DEF SpinIInv, SpinlockAssumption, HangIInv
<1>1. PICK l \in Locks : l = at[c].lock BY <1>0 DEF HolderInv
<1>20. PICK w : w = Trail(l) OBVIOUS
<1> DEFINE K == Cardinality(Cpus)
<1>2. /\ K \in Nat /\ w[0] = l_holding[l]
      /\ \A n \in 0..K : w[n] \in Cpus \union {Null} /\ (n > 0 => w[n] = Behind(w[n - 1]))
  BY <1>0, <1>20, TrailSteps
<1>3. PICK n \in 0..K : w[n] = c BY <1>1, <1>20 DEF hangman_check, Chain
<1> HIDE DEF K
<1>4. \A m \in 0..n : w[m] \in Cpus
  <2> DEFINE Late == {m \in Nat : m <= n /\ w[n - m] \notin Cpus}
  <2>1. Late = {}
    <3> SUFFICES ASSUME Late # {} PROVE FALSE OBVIOUS
    <3>1. PICK m \in Late : \A k \in Late : m <= k BY Least
    <3>2. m # 0 BY <1>2, <1>3, <3>1
    <3>3. m - 1 \notin Late /\ m - 1 \in Nat /\ m <= n BY <1>2, <3>1, <3>2
    <3>4. w[n - (m - 1)] \in Cpus BY <1>2, <3>3
    <3>5. n - (m - 1) \in 0..K /\ n - (m - 1) > 0 /\ (n - (m - 1)) - 1 = n - m /\ n - m \in 0..K
      BY <1>2, <1>3, <3>2, <3>3
    <3>6. w[n - (m - 1)] = Behind(w[n - m]) BY <1>2, <3>5
    <3>7. w[n - m] = Null BY <1>2, <3>1, <3>5
    <3> QED BY <1>0, <3>4, <3>6, <3>7 DEF Behind
  <2> SUFFICES ASSUME NEW m \in 0..n PROVE w[m] \in Cpus OBVIOUS
  <2>2. n - m \in Nat /\ n - m <= n /\ n - (n - m) = m BY <1>2, <1>3
  <2> QED BY <2>1, <2>2
<1> DEFINE S == {w[m] : m \in 0..n}
<1>5. S \in SUBSET Cpus /\ w[0] \in S /\ c \in S BY <1>2, <1>3, <1>4
<1>6. \A d \in Cpus : at'[d] = IF d = c THEN [pc |-> "spin", lock |-> l] ELSE at[d] BY <1>0, <1>1 DEF SpinTypes
<1>7. Waits(c, w[0])'
  <2>1. holder[l] = w[0] BY <1>0, <1>1, <1>2, <1>5 DEF HangExact
  <2>2. holder' = holder /\ at'[c].pc = "spin" /\ at'[c].lock = l BY <1>6
  <2>3. at'[c].pc \in {"check", "spin"} /\ holder'[at'[c].lock] = w[0] BY <2>1, <2>2
  <2> QED BY <2>3 DEF Waits
<1>8. ASSUME NEW m \in 0..n, m < n PROVE Waits(w[m], w[m + 1])'
  <2>1. m + 1 \in 0..n /\ m + 1 \in 0..K /\ m + 1 > 0 /\ (m + 1) - 1 = m BY <1>2, <1>3, <1>8
  <2>2. w[m] \in Cpus /\ w[m + 1] \in Cpus BY <1>4, <2>1
  <2>3. w[m + 1] = Behind(w[m]) BY <1>2, <2>1
  <2>4. PICK d \in Cpus : d = w[m] BY <2>2
  <2>5. a_waiting[d] \in Locks /\ w[m + 1] = l_holding[a_waiting[d]] BY <1>0, <2>2, <2>3, <2>4 DEF Behind, HangTypes
  <2>6. at[d].pc \in Entering /\ a_waiting[d] = at[d].lock
    <3>1. Null \notin Locks BY DEF SpinlockAssumption
    <3> QED BY <1>0, <2>5, <3>1 DEF HangExact
  <2>7. holder[at[d].lock] = w[m + 1] /\ ~(at[w[m + 1]].pc = "note" /\ at[w[m + 1]].lock = at[d].lock)
    BY <1>0, <2>2, <2>5, <2>6 DEF HangExact
  <2>8. at[d].pc = "spin"
    <3>1. at[d].pc # "won" BY <1>0, <2>2, <2>7 DEF HolderInv
    <3>2. at[d].pc # "note" BY <1>0, <2>7 DEF HolderInv
    <3> QED BY <2>6, <3>1, <3>2 DEF Entering
  <2>9. d # c BY <2>8
  <2>10. at'[d].pc \in {"check", "spin"} /\ holder'[at'[d].lock] = w[m + 1] BY <1>6, <2>7, <2>8, <2>9
  <2> QED BY <2>4, <2>10 DEF Waits
<1>9. ASSUME NEW d \in S PROVE \E e \in S : Waits(d, e)'
  <2>1. PICK m \in 0..n : d = w[m] OBVIOUS
  <2>2. CASE m = n
    <3>1. d = c BY <1>3, <2>1, <2>2
    <3> QED BY <1>5, <1>7, <3>1
  <2>3. CASE m < n
    <3>1. m + 1 \in 0..n BY <1>2, <1>3, <2>3
    <3>2. w[m + 1] \in S BY <3>1
    <3>3. Waits(w[m], w[m + 1])' BY <1>8, <2>3
    <3> QED BY <2>1, <3>2, <3>3
  <2> QED BY <1>2, <1>3, <2>2, <2>3
<1> HIDE DEF S
<1> QED BY <1>5, <1>9 DEF Circle

\* A walk that does not come back leaves no circle behind: in a circle it would
\* go on without end, meet a processor twice, and the circle would be an old one.
LEMMA TrailFindsCircle ==
  ASSUME SpinlockAssumption, SpinIInv, HangIInv, alarm = "no", NEW c \in Cpus, at[c].pc = "check",
         ~hangman_check(at[c].lock, c), UNCHANGED holder, at' = [at EXCEPT ![c].pc = "spin"]
  PROVE  NoCircle'
<1>0. SpinTypes /\ HolderInv /\ HangTypes /\ HangExact /\ NoCircle /\ \A d \in Cpus : d # Null
  BY DEF SpinIInv, SpinlockAssumption, HangIInv
<1>1. PICK l \in Locks : l = at[c].lock BY <1>0 DEF HolderInv
<1>2. \A d \in Cpus : at'[d] = IF d = c THEN [pc |-> "spin", lock |-> l] ELSE at[d] BY <1>0, <1>1 DEF SpinTypes
<1> SUFFICES ASSUME NEW S \in SUBSET Spinning', S # {}, \A d \in S : \E e \in S : Waits(d, e)' PROVE FALSE
  BY DEF NoCircle, Circle
<1>3. S \subseteq Cpus /\ Spinning' = Spinning \union {c} BY <1>2 DEF Spinning
<1>4. \A d \in Spinning, e \in Cpus : d # c /\ (Waits(d, e)' <=> Waits(d, e)) BY <1>2 DEF Spinning, Waits
<1>5. c \in S
  <2> SUFFICES ASSUME c \notin S PROVE FALSE OBVIOUS
  <2>1. S \in SUBSET Spinning BY <1>3
  <2>2. \A d \in S : \E e \in S : Waits(d, e) BY <1>3, <1>4, <2>1
  <2> QED BY <1>0, <2>1, <2>2 DEF NoCircle, Circle
\* In the circle the notes tell the next one.
<1>6. ASSUME NEW d \in S, d # c PROVE Behind(d) \in S /\ Waits(d, Behind(d))
  <2>1. d \in Spinning /\ d \in Cpus BY <1>3, <1>6
  <2>2. PICK e \in S : Waits(d, e) BY <1>3, <1>4, <2>1
  <2>3. e \in Cpus /\ at[e].pc \in {"check", "spin"} /\ at[d].pc = "spin" /\ holder[at[d].lock] = e
    BY <1>3, <2>1, <2>2 DEF Waits, Spinning
  <2>4. at[d].lock \in Locks /\ a_waiting[d] = at[d].lock BY <1>0, <2>1, <2>3 DEF HolderInv, HangExact, Entering
  <2>5. l_holding[at[d].lock] = e BY <1>0, <2>3, <2>4 DEF HangExact
  <2>6. Behind(d) = e
    <3>1. Null \notin Locks /\ Null \notin Cpus BY DEF SpinlockAssumption
    <3> QED BY <2>1, <2>4, <2>5, <3>1 DEF Behind
  <2> QED BY <2>2, <2>6
<1>7. l_holding[l] \in S
  <2>1. PICK e \in S : Waits(c, e)' BY <1>5
  <2>2. e \in Cpus /\ holder[l] = e BY <1>2, <1>3, <2>1 DEF Waits
  <2>3. e # c BY <1>0, <1>1, <2>2 DEF HolderInv
  <2>4. at[e].pc = "spin" BY <1>2, <1>3, <2>3 DEF Spinning
  <2> QED BY <1>0, <2>2, <2>4 DEF HangExact
<1> DEFINE w == Trail(l)
           K == Cardinality(Cpus)
<1>8. /\ K \in Nat /\ w[0] = l_holding[l]
      /\ \A n \in 0..K : n > 0 => w[n] = Behind(w[n - 1])
  BY <1>0, TrailSteps
<1>9. \A n \in 0..K : w[n] # c BY <1>0, <1>1 DEF hangman_check, Chain
<1> HIDE DEF w, K
<1>10. \A n \in 0..K : w[n] \in S
  <2> DEFINE Bad == {n \in Nat : n <= K /\ w[n] \notin S}
  <2> SUFFICES ASSUME Bad # {} PROVE FALSE BY <1>8
  <2>1. PICK n \in Bad : \A m \in Bad : n <= m BY Least
  <2>2. n # 0 BY <1>7, <1>8, <2>1
  <2>3. n - 1 \in 0..K /\ n - 1 \notin Bad /\ n \in 0..K BY <1>8, <2>1, <2>2
  <2>4. w[n - 1] \in S BY <2>3
  <2>5. w[n] = Behind(w[n - 1]) BY <1>8, <2>2, <2>3
  <2> QED BY <1>6, <1>9, <2>1, <2>3, <2>4, <2>5
<1>11. PICK i \in 0..K, j \in 0..K : i < j /\ w[i] = w[j]
  <2> DEFINE f == [n \in 0..K |-> w[n]]
  <2>1. IsFiniteSet(0..K) /\ Cardinality(0..K) = K + 1
    <3>1. 0 \in Int /\ K \in Int /\ ~(0 > K) /\ (K - 0) + 1 = K + 1 BY <1>8
    <3> QED BY <3>1, FS_Interval
  <2>2. f \in [0..K -> Cpus] BY <1>3, <1>10
  <2>3. Cardinality(Cpus) < Cardinality(0..K) BY <1>8, <2>1 DEF K
  <2>4. PICK x \in 0..K, y \in 0..K : x # y /\ f[x] = f[y]
    <3> HIDE DEF f
    <3>1. IsFiniteSet(Cpus) BY DEF SpinlockAssumption
    <3>2. \E x, y \in 0..K : x # y /\ f[x] = f[y] BY ONLY <2>1, <2>2, <2>3, <3>1, FS_PigeonHole
    <3> QED BY <3>2
  <2>5. w[x] = w[y] /\ (x < y \/ y < x) BY <1>8, <2>4
  <2> QED BY <2>5
<1> DEFINE D == {w[n] : n \in i..(j - 1)}
<1>12. i \in i..(j - 1) /\ i..(j - 1) \subseteq 0..K BY <1>8, <1>11
<1>13. D \in SUBSET Spinning /\ D # {} BY <1>3, <1>9, <1>10, <1>12
<1>14. ASSUME NEW d \in D PROVE \E e \in D : Waits(d, e)
  <2>1. PICK n \in i..(j - 1) : d = w[n] OBVIOUS
  <2>2. n \in 0..K /\ n + 1 \in 0..K /\ n + 1 > 0 /\ (n + 1) - 1 = n BY <1>8, <1>11, <1>12, <2>1
  <2>3. w[n + 1] = Behind(w[n]) /\ w[n] \in S /\ w[n] # c BY <1>8, <1>9, <1>10, <2>2
  <2>4. Waits(w[n], w[n + 1]) BY <1>6, <2>3
  <2>5. w[n + 1] \in D
    <3>1. CASE n + 1 = j BY <1>11, <1>12, <3>1
    <3>2. CASE n + 1 # j
      <4>1. n + 1 \in i..(j - 1) BY <1>8, <1>11, <1>12, <2>1, <3>2
      <4> QED BY <4>1
    <3> QED BY <3>1, <3>2
  <2> QED BY <2>1, <2>4, <2>5
<1> HIDE DEF D
<1> QED BY <1>0, <1>13, <1>14 DEF NoCircle, Circle

LEMMA hangman_waitHang ==
  ASSUME SpinlockAssumption, SpinIInv, HangIInv, NEW c \in Cpus, hangman_wait(c) PROVE HangIInv'
<1>0. SpinTypes /\ HolderInv /\ HangTypes /\ \A d \in Cpus : d # Null BY DEF SpinIInv, SpinlockAssumption, HangIInv
<1>1. PICK l \in Locks : l = at[c].lock BY <1>0 DEF hangman_wait, Does, HolderInv
<1>2. /\ alarm = "no" /\ at[c].pc = "check" /\ at' = [at EXCEPT ![c].pc = "spin"] /\ UNCHANGED <<holder, l_holding>>
      /\ alarm' = IF holder[l] = c THEN "own lock" ELSE IF a_waiting[c] # Null THEN "already waiting"
                  ELSE IF hangman_check(l, c) THEN "cycle" ELSE "no"
      /\ (IF alarm' = "no" THEN a_waiting' = [a_waiting EXCEPT ![c] = l] ELSE UNCHANGED a_waiting)
      /\ spinlocks' = [spinlocks EXCEPT ![c] = @ + 1]
  BY <1>1 DEF hangman_wait, Does, Goes, words
<1>3. HangExact BY <1>2 DEF HangIInv
<1>20. at[c].pc = "check" /\ at' = [at EXCEPT ![c].pc = "spin"] /\ holder' = holder /\ l_holding' = l_holding
      /\ spinlocks' = [spinlocks EXCEPT ![c] = @ + 1]
  BY <1>2
<1>4. holder[l] # c BY <1>0, <1>1, <1>2 DEF HolderInv
<1>5. a_waiting[c] = Null BY <1>2, <1>3 DEF HangExact, Entering
<1>6. CASE hangman_check(l, c)
  <2>1. alarm' = "cycle" /\ a_waiting' = a_waiting BY <1>2, <1>4, <1>5, <1>6
  <2>2. HangTypes' BY <1>0, <1>2, <2>1 DEF HangTypes
  <2>3. \E S \in SUBSET Cpus : Circle(S)' BY <1>1, <1>2, <1>6, TrailIsCircle
  <2> QED BY <2>1, <2>2, <2>3 DEF HangIInv
<1>7. CASE ~hangman_check(l, c)
  <2>1. alarm' = "no" BY <1>2, <1>4, <1>5, <1>7
  <2>2. a_waiting' = [a_waiting EXCEPT ![c] = l] BY <1>2, <2>1
  <2>3. HangTypes' BY <1>0, <1>20, <2>2 DEF HangTypes
  <2>4. NoCircle' BY <1>1, <1>2, <1>7, <1>20, TrailFindsCircle
  <2>5. \A d \in Cpus : at'[d] = IF d = c THEN [pc |-> "spin", lock |-> l] ELSE at[d] BY <1>0, <1>1, <1>20 DEF SpinTypes
  <2>6. HangExact'
    <3> SUFFICES ASSUME NEW d \in Cpus
        PROVE  /\ a_waiting'[d] = IF at'[d].pc \in Entering THEN at'[d].lock ELSE Null
               /\ \A k \in Locks : l_holding'[k] = d <=> holder'[k] = d /\ ~(at'[d].pc \in {"note", "disown"} /\ at'[d].lock = k)
               /\ spinlocks'[d] = Cardinality(Noted(d)') + (IF at'[d].pc \in Entering THEN 1 ELSE 0)
      BY DEF HangExact, Entering
    <3>1. PICK n \in Nat : n = Cardinality(Noted(d)) BY NotedFinite
    <3>2. Noted(d)' = Noted(d) BY <1>2 DEF Noted
    <3>3. \A k \in Locks : l_holding[k] = d <=> holder[k] = d /\ ~(at[d].pc \in {"note", "disown"} /\ at[d].lock = k)
      BY <1>3 DEF HangExact
    <3>4. spinlocks[d] = n + (IF at[d].pc \in Entering THEN 1 ELSE 0) /\ a_waiting[d] = IF at[d].pc \in Entering THEN at[d].lock ELSE Null
      BY <1>3, <3>1 DEF HangExact
    <3>5. CASE d = c
      <4>1. at'[c].pc = "spin" /\ at'[c].lock = l /\ a_waiting'[c] = l BY <1>0, <2>2, <2>5 DEF HangTypes
      <4>2. spinlocks'[c] = n + 1 BY <1>0, <1>20, <3>1, <3>4, <3>5 DEF HangTypes, Entering
      <4> QED BY <1>2, <3>1, <3>2, <3>3, <3>5, <4>1, <4>2 DEF Entering
    <3>6. CASE d # c
      <4>1. at'[d] = at[d] /\ a_waiting'[d] = a_waiting[d] /\ spinlocks'[d] = spinlocks[d] BY <1>0, <1>2, <2>2, <2>5, <3>6 DEF HangTypes
      <4> QED BY <1>2, <3>1, <3>2, <3>3, <3>4, <4>1
    <3> QED BY <3>5, <3>6
  <2> QED BY <2>1, <2>3, <2>4, <2>6 DEF HangIInv
<1> QED BY <1>6, <1>7

\* The detector's inductive invariant (hangman.c): its notes follow the locks,
\* and while it has not stopped the kernel nobody waits in a circle.
THEOREM HangInvariant == ASSUME SpinlockAssumption PROVE SpinSpec => []HangIInv
<1>1. SpinInit => HangIInv BY InitHang
<1>2. SpinIInv /\ HangIInv /\ [SpinNext]_spinvars => HangIInv'
  <2> SUFFICES ASSUME SpinIInv, HangIInv, [SpinNext]_spinvars PROVE HangIInv' OBVIOUS
  <2>1. CASE UNCHANGED spinvars
    <3>1. UNCHANGED <<holder, l_holding, a_waiting, spinlocks, at, alarm>> BY <2>1 DEF spinvars
    <3>2. HangTypes' BY <3>1 DEF HangIInv, HangTypes
    <3>3. \A c \in Cpus : Noted(c)' = Noted(c) BY <3>1 DEF Noted
    <3>4. HangExact => HangExact' BY <3>1, <3>3 DEF HangExact, Entering
    <3>5. Spinning' = Spinning /\ \A c, d : Waits(c, d)' <=> Waits(c, d) BY <3>1 DEF Spinning, Waits
    <3>6. NoCircle => NoCircle' BY <3>5, NoNewCircle
    <3>7. \A S : Circle(S)' <=> Circle(S) BY <3>5 DEF Circle
    <3> QED BY <3>1, <3>2, <3>4, <3>6, <3>7 DEF HangIInv
  <2>2. CASE SpinNext
    <3> PICK c \in Cpus :
          \/ splx(c) \/ hangman_wait(c) \/ testandset(c) \/ Own(c) \/ hangman_acquire(c)
          \/ Disown(c) \/ Clear(c) \/ spinlock_release(c) \/ Interrupted(c) \/ Returns(c)
          \/ \E l \in Locks : spinlock_acquire(c, l) \/ hangman_release(c, l)
      BY <2>2 DEF SpinNext
    <3>1. CASE hangman_wait(c) BY <3>1, hangman_waitHang
    <3>2. CASE hangman_acquire(c) BY <3>2, hangman_acquireHang
    <3>3. CASE \E l \in Locks : hangman_release(c, l) BY <3>3, hangman_releaseHang
    <3>4. CASE \/ splx(c) \/ testandset(c) \/ Own(c) \/ Disown(c) \/ Clear(c) \/ spinlock_release(c)
               \/ Interrupted(c) \/ Returns(c) \/ \E l \in Locks : spinlock_acquire(c, l)
      BY <3>4, QuietHang
    <3> QED BY <3>1, <3>2, <3>3, <3>4
  <2> QED BY <2>1, <2>2
<1> QED BY <1>1, <1>2, SpinInvariant, PTL DEF SpinSpec

\* The detector (hangman_check, hangman_wait) stops the kernel at the step that
\* closes a circle of waiting processors, however many, and never without one.
THEOREM DeadlocksAreFound == ASSUME SpinlockAssumption PROVE SpinSpec => []DeadlocksFound
<1>1. HangIInv => DeadlocksFound BY DEF HangIInv, DeadlocksFound, NoCircle
<1> QED BY <1>1, HangInvariant, PTL
=============================================================================
