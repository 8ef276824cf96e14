------------------------------- MODULE Devices -------------------------------
(***************************************************************************)
(* The bus with the drivers of the disk, the serial console and emufs.     *)
(* The boot thread finds and configures the devices one after the other    *)
(* (autoconf), then threads use them while the boot processor handles      *)
(* their interrupts.  A plan says which devices there are and what each    *)
(* thread does.                                                            *)
(***************************************************************************)
EXTENDS Lhd, Console, Emu

CONSTANTS
  Plans,      \* records: job of each thread, slots with devices, what is typed, processors, a line stuck, the kernel's arguments, whether the menu prompts
  Boot,       \* the thread that boots
  DISK, SER, EMUCARD, JUNK   \* slots

VARIABLES plan, boot

vars == <<diskvars, convars, emuvars, busvars, plan, boot>>

Init ==
  /\ plan \in Plans /\ boot = [pc |-> "greet", slot |-> 0]
  /\ DiskInit /\ ConsoleInit /\ EmuInit /\ BusInit

Lines == {s \in plan.slots :
            \/ s = DISK /\ stat \in Ended
            \/ s = SER /\ Interrupting
            \/ s = EMUCARD /\ oper = "done"
            \/ s = JUNK /\ plan.stuck}

Up == stopped = "no"
Autoconf == boot.pc \in {"greet", "print", "probe", "mark", "attach", "config", "con", "cpus", "hatch"}
Job(t, j) == Up /\ ~Autoconf /\ plan.job[t] = j
Disk(A) == A /\ UNCHANGED <<convars, emuvars, busvars, plan, boot>>
Con(A)  == A /\ UNCHANGED <<diskvars, emuvars, busvars, plan, boot>>
Emufs(A) == A /\ UNCHANGED <<diskvars, convars, busvars, plan, boot>>
BusOnly(A) == A /\ UNCHANGED <<diskvars, convars, emuvars, plan>>

(* autoconf_lamebus, for each driver: probe, mark the slot, attach the handler, configure. *)
Greet == boot.pc = "greet" /\ boot' = [boot EXCEPT !.pc = "print"] /\ kprintf(Boot, Message, TRUE) /\ UNCHANGED <<diskvars, emuvars, busvars, plan>>
Greeted == boot.pc = "print" /\ In(Boot, "end") /\ boot' = [boot EXCEPT !.pc = "probe"] /\ BusOnly(UNCHANGED busvars)
Probe ==
  /\ boot.pc = "probe" /\ BusFree
  /\ LET s == lamebus_probe(plan.slots) IN boot' = IF s = 0 THEN [boot EXCEPT !.pc = "cpus"] ELSE [pc |-> "mark", slot |-> s]
  /\ BusOnly(UNCHANGED busvars)
Mark == boot.pc = "mark" /\ boot' = [boot EXCEPT !.pc = "attach"] /\ BusOnly(lamebus_mark(boot.slot))
Attach == boot.pc = "attach" /\ boot' = [boot EXCEPT !.pc = "config"] /\ BusOnly(lamebus_attach_interrupt(boot.slot))
Config ==
  /\ boot.pc = "config"
  /\ IF boot.slot = SER
     THEN config_lser /\ boot' = [boot EXCEPT !.pc = "con"] /\ UNCHANGED <<diskvars, emuvars, busvars, plan>>
     ELSE boot' = [boot EXCEPT !.pc = "probe"] /\ BusOnly(UNCHANGED busvars)
ConfigCon ==
  /\ boot.pc = "con" /\ boot' = [boot EXCEPT !.pc = "print"]
  /\ config_con(Boot) /\ UNCHANGED <<diskvars, emuvars, busvars, plan>>
Booting == Up /\ (Greet \/ Greeted \/ Probe \/ Mark \/ Attach \/ Config \/ ConfigCon)

(* What threads do. *)
Call(t) ==
  \/ Job(t, "disk") /\ \E q \in Requests : Disk(dev_io(t, q))
  \/ Job(t, "write") /\ Con(con_io_Write(t))
  \/ Job(t, "print") /\ \E poll \in BOOLEAN : In(t, "out") /\ Con(kprintf(t, Message, poll))
  \/ Job(t, "read") /\ Con(con_io_Read(t))
  \/ Job(t, "stdin") /\ Con(sys_read(t))
  \/ Job(t, "emu") /\ Emufs(EmuCall(t))

Work(t) == Up /\ (Disk(DiskWork(t)) \/ Con(ConWork(t)) \/ Emufs(EmuWork(t)))

Hardware == Up /\ (Disk(Card) \/ Emufs(EmuCard) \/ Con(Port(plan.typed)))

(* The boot processor takes interrupts. *)
Interrupt ==
  /\ Up
  /\ \/ BusOnly(BusNext(Lines)) /\ UNCHANGED boot
     \/ HandlerOf(DISK) /\ lhd_irq /\ Back /\ UNCHANGED <<convars, emuvars, plan, boot>>
     \/ HandlerOf(EMUCARD) /\ emu_irq /\ Back /\ UNCHANGED <<diskvars, convars, plan, boot>>
     \/ HandlerOf(SER) /\ Con(lser_irq \/ con_start)
     \/ HandlerOf(SER) /\ con_input /\ Back /\ UNCHANGED <<diskvars, emuvars, plan, boot>>

(***************************************************************************)
(* Properties.                                                             *)
(***************************************************************************)

\* The type of the state, with the interrupt code where the bus says.
TypeOK ==
  /\ inuse \subseteq Drivers /\ irqfuncs \subseteq inuse /\ duds \in 0..MaxDuds + 1
  /\ irq.pc \in {"off", "taken", "scan", "handler", "back"} /\ irq.irqs \subseteq Slots
  /\ stopped \in {"no", "duds", "power", "assert"} /\ plan \in Plans
  /\ (handler.pc # "off" => irq.pc = "handler" /\ irq.slot = SER)
  /\ clear \in 0..1 /\ done \in 0..1 /\ esem \in 0..1 /\ wsem \in 0..1 /\ rsem \in 0..Ring - 1

\* A line nobody can clear does not keep the processor busy for ever: the
\* kernel stops.
StuckLineStops == plan.stuck ~> ~Up
=============================================================================
