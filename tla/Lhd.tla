--------------------------------- MODULE Lhd ---------------------------------
(***************************************************************************)
(* The disk: one card with one buffer.  A thread has the card from         *)
(* P(lh_clear) to V(lh_clear), one sector at a time; the interrupt handler *)
(* reports the end of an operation with V(lh_done).                        *)
(***************************************************************************)
EXTENDS Bus, Naturals, FiniteSets

CONSTANTS
  Data,       \* contents of a sector
  Blocks,     \* sectors of the disk (d_blocks)
  Platters,   \* contents the disk may have at first
  Width,      \* sector numbers are taken modulo 2 ^ Width (32)
  MaxFaults   \* copies from or to user memory that may fail, all in all

ASSUME DiskAssumption == Blocks \in Nat \ {0} /\ Width \in Nat /\ Blocks <= 2 ^ Width /\ MaxFaults \in Nat /\ Data # {} /\ Platters \subseteq [0..Blocks - 1 -> Data]

VARIABLES
  clear, done,     \* lh_clear and lh_done
  result,          \* lh_result
  stat, sect,      \* the card's registers
  card,            \* its buffer
  platter,         \* the disk
  disk,            \* the call of every thread in the driver
  faults           \* copies that failed

diskvars == <<clear, done, result, stat, sect, card, platter, disk, faults>>

Outside == [pc |-> "out"]   \* before the one call of a thread
Returned == [pc |-> "end"]
Requests == [rw : {"read", "write"}, sector : 0..Blocks, len : 1..2, aligned : BOOLEAN, val : Data]
Ended == {"ok", "media", "invsect"}

DiskInit ==
  /\ clear = 1 /\ done = 0 /\ result = "ok" /\ stat = "idle" /\ sect = 0
  /\ card = (CHOOSE x \in Data : TRUE) /\ platter \in Platters
  /\ disk = [t \in Threads |-> Outside] /\ faults = 0

At(t, pc) == disk[t].pc = pc
Goto(t, pc) == disk' = [disk EXCEPT ![t].pc = pc]

\* dev_read and dev_write look at the position, lhd_io at the alignment and the end.
dev_tryseek(q) == q.aligned /\ q.sector < Blocks
Fits(q) == q.aligned /\ (q.sector + q.len) % 2 ^ Width <= Blocks

dev_io(t, q) ==
  /\ At(t, "out") /\ dev_tryseek(q)
  /\ Fits(q)
  /\ disk' = [disk EXCEPT ![t] = [pc |-> "clear", q |-> q, i |-> 0]]
  /\ UNCHANGED <<clear, done, result, stat, sect, card, platter, faults>>

\* A copy may fail while faults are left.
Copies(ok) == IF ok THEN UNCHANGED faults ELSE faults < MaxFaults /\ faults' = faults + 1

\* P(lh_clear), and the data to write go to the card.
Take(t, ok) ==
  /\ At(t, "clear") /\ clear > 0
  /\ Copies(ok)
  /\ IF disk[t].q.rw = "read"
     THEN ok /\ clear' = clear - 1 /\ Goto(t, "start") /\ UNCHANGED card
     ELSE IF ok
     THEN clear' = clear - 1 /\ Goto(t, "start") /\ card' = disk[t].q.val
     ELSE disk' = [disk EXCEPT ![t] = Returned] /\ UNCHANGED <<clear, card>>
  /\ UNCHANGED <<done, result, stat, sect, platter>>

Start(t) ==
  /\ At(t, "start")
  /\ sect' = disk[t].q.sector + disk[t].i /\ stat' = "working"
  /\ Goto(t, "wait")
  /\ UNCHANGED <<clear, done, result, card, platter, faults>>

\* The card ends the operation (external).
Card ==
  /\ stat = "working"
  /\ LET t == CHOOSE u \in Threads : At(u, "wait") IN
     \/ stat' = (IF sect < Blocks THEN "media" ELSE "invsect") /\ UNCHANGED <<card, platter>>
     \/ sect < Blocks /\ stat' = "ok" /\
        IF disk[t].q.rw = "read" THEN card' = platter[sect] /\ UNCHANGED platter
        ELSE platter' = [platter EXCEPT ![sect] = card] /\ UNCHANGED card
  /\ UNCHANGED <<clear, done, result, sect, disk, faults>>

lhd_irq ==
  /\ IF stat \in Ended THEN stat' = "idle" /\ result' = stat /\ done' = done + 1 ELSE UNCHANGED <<stat, result, done>>
  /\ UNCHANGED <<clear, sect, card, platter, disk, faults>>

\* Mutant: the card is given away before its buffer is read.
Wake_Early(t) ==
  /\ At(t, "wait") /\ done > 0
  /\ done' = done - 1 /\ clear' = clear + 1
  /\ disk' = [disk EXCEPT ![t] = [pc |-> "copy", q |-> @.q, i |-> @.i, ok |-> result = "ok"]]
  /\ UNCHANGED <<result, stat, sect, card, platter, faults>>

\* P(lh_done), and the result is read.
Wake(t) ==
  /\ At(t, "wait") /\ done > 0
  /\ done' = done - 1
  /\ disk' = [disk EXCEPT ![t] = [pc |-> "copy", q |-> @.q, i |-> @.i, ok |-> result = "ok"]]
  /\ UNCHANGED <<clear, result, stat, sect, card, platter, faults>>

\* What was read is copied out; V(lh_clear); the next sector, if all went well.
Give(t, ok) ==
  /\ At(t, "copy")
  /\ LET d == disk[t] IN
     /\ IF d.ok /\ d.q.rw = "read" THEN Copies(ok) ELSE ok /\ UNCHANGED faults
     /\ disk' = [disk EXCEPT ![t] =
                   IF d.ok /\ ok /\ d.i + 1 < d.q.len THEN [pc |-> "clear", q |-> d.q, i |-> d.i + 1] ELSE Returned]
  /\ clear' = clear + 1
  /\ UNCHANGED <<done, result, stat, sect, card, platter>>

DiskWork(t) == \/ \E ok \in BOOLEAN : Take(t, ok) \/ Give(t, ok)
               \/ Start(t) \/ Wake(t)

(***************************************************************************)
(* Properties.                                                             *)
(***************************************************************************)

\* The card has one user, and a completion is signalled once: whoever waits
\* has an operation under way, an interrupt to come or a signal to take.
CardExact ==
  /\ clear + Cardinality({t \in Threads : disk[t].pc \in {"start", "wait", "copy"}}) = 1
  /\ (stat # "idle" \/ done > 0) <=> \E t \in Threads : At(t, "wait")
  /\ done <= 1 /\ (done = 1 => stat = "idle")

\* A transfer that succeeded moved the sector that was asked for: a thread that
\* reads finds it in the buffer, what a thread wrote is on the disk; and no
\* operation is started beyond the end.
TransfersExact ==
  /\ \A t \in Threads : At(t, "copy") /\ disk[t].ok =>
       LET s == disk[t].q.sector + disk[t].i IN
       IF disk[t].q.rw = "read" THEN card = platter[s] ELSE platter[s] = disk[t].q.val
  /\ stat = "working" => sect < Blocks
=============================================================================
