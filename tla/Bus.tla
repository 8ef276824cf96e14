--------------------------------- MODULE Bus ---------------------------------
(***************************************************************************)
(* LAMEbus: which slots have a driver and a handler, and the dispatch of   *)
(* interrupts, which all go to the boot processor.  Lines are level-       *)
(* triggered: a slot interrupts until its driver clears the cause.         *)
(***************************************************************************)
EXTENDS Naturals, FiniteSets, FiniteSetsExt

CONSTANTS
  Threads,    \* threads of the kernel
  Slots,      \* numbers of the slots with devices
  Drivers,    \* those autoconf has a driver for
  MaxDuds     \* duds that are put up with (10000 in lamebus_interrupt)

ASSUME SlotsAssumption == Slots \subseteq Nat \ {0} /\ IsFiniteSet(Slots) /\ Drivers \subseteq Slots /\ MaxDuds \in Nat

VARIABLES
  inuse,      \* ls_slotsinuse
  irqfuncs,   \* slots with a handler
  irq,        \* the boot processor: where in mainbus_interrupt, the slot looked at, the lines read, a dud was seen
  duds,
  stopped     \* why the kernel stopped, or "no"

busvars == <<inuse, irqfuncs, irq, duds, stopped>>

BusInit == inuse = {} /\ irqfuncs = {} /\ irq = [pc |-> "off", slot |-> 0, irqs |-> {}, dud |-> FALSE] /\ duds = 0 /\ stopped = "no"

\* ls_lock is free: the interrupt code has it while it scans.
BusFree == irq.pc # "scan"

\* The first slot of a known device that is not in use.
lamebus_probe(present) == LET found == (Drivers \intersect present) \ inuse IN IF found = {} THEN 0 ELSE Min(found)

lamebus_mark(s) == BusFree /\ s \notin inuse /\ inuse' = inuse \union {s} /\ UNCHANGED <<irqfuncs, irq, duds, stopped>>
lamebus_attach_interrupt(s) ==
  BusFree /\ s \in inuse \ irqfuncs /\ irqfuncs' = irqfuncs \union {s} /\ UNCHANGED <<inuse, irq, duds, stopped>>

\* The processor takes an interrupt.
mainbus_interrupt(lines) ==
  /\ stopped = "no" /\ irq.pc = "off" /\ lines # {}
  /\ irq' = [irq EXCEPT !.pc = "taken"]
  /\ UNCHANGED <<inuse, irqfuncs, duds, stopped>>

\* The lines are read; there may be none any more.
lamebus_interrupt(lines) ==
  /\ stopped = "no" /\ irq.pc = "taken"
  /\ irq' = [pc |-> "scan", slot |-> 0, irqs |-> lines, dud |-> lines = {}]
  /\ duds' = IF lines = {} THEN duds + 1 ELSE duds
  /\ UNCHANGED <<inuse, irqfuncs, stopped>>

Ahead == {s \in irq.irqs : s > irq.slot}

\* The next line that is up: its handler is called without the lock, or it is a dud.
Scan ==
  /\ stopped = "no" /\ irq.pc = "scan" /\ Ahead # {}
  /\ LET s == Min(Ahead) IN
     IF s \in inuse \intersect irqfuncs
     THEN irq' = [irq EXCEPT !.pc = "handler", !.slot = s] /\ UNCHANGED duds
     ELSE irq' = [irq EXCEPT !.slot = s, !.dud = TRUE] /\ duds' = duds + 1
  /\ UNCHANGED <<inuse, irqfuncs, stopped>>

\* The handler of slot s runs, and comes back.
HandlerOf(s) == stopped = "no" /\ irq.pc = "handler" /\ irq.slot = s
Back == irq' = [irq EXCEPT !.pc = "back"] /\ UNCHANGED <<inuse, irqfuncs, duds, stopped>>

\* The lines are read again.
Reload(lines) ==
  /\ stopped = "no" /\ irq.pc = "back"
  /\ irq' = [irq EXCEPT !.pc = "scan", !.irqs = lines]
  /\ UNCHANGED <<inuse, irqfuncs, duds, stopped>>

\* Too many duds in a row stop the kernel: nobody could clear the line.
ScanEnds ==
  /\ stopped = "no" /\ irq.pc = "scan" /\ Ahead = {}
  /\ irq' = [irq EXCEPT !.pc = "off"]
  /\ duds' = IF irq.dud THEN duds ELSE 0
  /\ stopped' = IF duds' > MaxDuds THEN "duds" ELSE stopped
  /\ UNCHANGED <<inuse, irqfuncs>>

BusNext(lines) ==
  \/ mainbus_interrupt(lines) \/ lamebus_interrupt(lines) \/ Scan \/ Reload(lines) \/ ScanEnds
=============================================================================
