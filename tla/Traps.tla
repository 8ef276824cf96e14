-------------------------------- MODULE Traps --------------------------------
(***************************************************************************)
(* Between user programs and the kernel: exceptions and the way back, the  *)
(* kernel stack each is taken on, the interrupt levels they save and       *)
(* restore, and the context switches that happen meanwhile (trap.c,        *)
(* exception-mips1.S, cpu.c, switch.S).  Which thread runs next, and what  *)
(* the handlers do to devices, is left open here: see Thread and Devices.  *)
(*                                                                         *)
(* A processor executes what its registers say: pc, the mode, whether      *)
(* interrupts are on, curthread in s7, and in sp the thread whose stack it *)
(* is on (in user mode, that of its program).  stack[t] is what is saved   *)
(* on the kernel stack of thread t, the innermost first.                   *)
(***************************************************************************)
EXTENDS Naturals, FiniteSets, Sequences

CONSTANTS
  Processors, BootCpu,
  Tasks,        \* threads
  FirstTask,    \* function: the thread each processor starts in; the others are processes'
  Nowhere

\* cpu_create gives each processor a thread of its own.
ASSUME TrapsAssumption ==
  /\ BootCpu \in Processors /\ Nowhere \notin Tasks
  /\ FirstTask \in [Processors -> Tasks] /\ \A c, d \in Processors : FirstTask[c] = FirstTask[d] => c = d

VARIABLES
  reg,                      \* the registers of each processor
  cputhreads, cpustacks,    \* what an exception in user mode finds them by
  idling,                   \* c_isidle
  stack,                    \* what is saved on each kernel stack
  where, runs_on,           \* t_state and t_cpu
  level, raised, in_irq,    \* t_curspl (is it IPL_HIGH), t_iplhigh_count, t_in_interrupt
  died                      \* why the kernel stopped, or "no"

arrays == <<cputhreads, cpustacks>>
spls == <<level, raised, in_irq>>
places == <<idling, where, runs_on>>
trapvars == <<reg, arrays, places, stack, spls, died>>

BootTask == FirstTask[BootCpu]    \* it has no t_stack of its own
HasStack(t) == t # BootTask
Kernel(t, pc) == [pc |-> pc, user |-> FALSE, ie |-> FALSE, s7 |-> t, sp |-> t]
Program(t) == [pc |-> "user", user |-> TRUE, ie |-> TRUE, s7 |-> Nowhere, sp |-> t]

\* cpu_create and cpu_machdep_init have been through all but the boot processor.
cpu_machdep_init ==
  /\ cpustacks = [c \in Processors |-> IF HasStack(FirstTask[c]) THEN FirstTask[c] ELSE Nowhere]
  /\ cputhreads = cpustacks

\* Each process has a thread, made by thread_fork: a switchframe is all its stack holds.
switchframe_init == stack = [t \in Tasks |-> IF \E c \in Processors : FirstTask[c] = t THEN <<>> ELSE <<[pc |-> "entry", old |-> FALSE]>>]

TrapInit ==
  /\ cpu_machdep_init /\ switchframe_init
  /\ reg = [c \in Processors |-> IF c = BootCpu THEN [Kernel(BootTask, "kernel") EXCEPT !.ie = TRUE] ELSE Kernel(Nowhere, "off")]
  /\ idling = {} /\ runs_on = [t \in Tasks |-> IF \E c \in Processors : FirstTask[c] = t THEN CHOOSE c \in Processors : FirstTask[c] = t ELSE BootCpu]
  /\ where = [t \in Tasks |-> IF \E c \in Processors : FirstTask[c] = t THEN "run" ELSE "ready"]
  /\ level = [t \in Tasks |-> t # BootTask]
  /\ raised = [t \in Tasks |-> IF t = BootTask THEN 0 ELSE IF where[t] = "run" THEN 1 ELSE 2]
  /\ in_irq = {} /\ died = "no"

self(c) == reg[c].s7
Executes(c, pcs) == died = "no" /\ ~reg[c].user /\ reg[c].pc \in pcs
Jump(c, pc) == reg' = [reg EXCEPT ![c].pc = pc]
Saved(c) == Head(stack[reg[c].sp])
SavedAs(c, f) == stack' = [stack EXCEPT ![reg[c].sp] = <<f>> \o Tail(@)]

\* A processor that is started finds its thread the way an exception in user mode does.
cpu_start_secondary(c) ==
  /\ Executes(c, {"off"})
  /\ reg' = [reg EXCEPT ![c] = [pc |-> "hatch", user |-> FALSE, ie |-> FALSE, s7 |-> cputhreads[c], sp |-> cpustacks[c]]]
  /\ UNCHANGED <<arrays, places, stack, spls, died>>

cpu_hatch(c) ==
  /\ Executes(c, {"hatch"}) /\ reg' = [reg EXCEPT ![c].pc = "kernel", ![c].ie = TRUE]
  /\ level' = [level EXCEPT ![self(c)] = FALSE] /\ raised' = [raised EXCEPT ![self(c)] = 0]
  /\ UNCHANGED <<arrays, places, stack, in_irq, died>>

(* Exceptions. *)

\* common_exception: the registers are saved on the kernel stack; interrupts
\* are off.  pc is where they are to continue.
common_exception(c, code, pc) ==
  LET was == reg[c]
      sp == IF was.user THEN cpustacks[c] ELSE was.sp
      s7 == IF was.user THEN cputhreads[c] ELSE was.s7
  IN  /\ died = "no"
      /\ reg' = [reg EXCEPT ![c] = [pc |-> "trap", user |-> FALSE, ie |-> FALSE, s7 |-> s7, sp |-> sp]]
      /\ stack' = [stack EXCEPT ![sp] = <<[code |-> code, reg |-> [was EXCEPT !.pc = pc], old_in |-> FALSE, adjust |-> FALSE]>> \o @]
      /\ UNCHANGED <<arrays, places, spls, died>>

\* An interrupt wherever they are on; a system call or a fault of a program; a
\* fault of the kernel when it copies from or to a program.
Exception(c) ==
  \/ reg[c].ie /\ common_exception(c, "irq", reg[c].pc)
  \/ reg[c].user /\ \E code \in {"sys", "fault"} : common_exception(c, code, reg[c].pc)
  \/ reg[c].pc = "copy" /\ common_exception(c, "fault", reg[c].pc)

\* mips_trap for an interrupt: the level is made what the processor made it.
TakeIrq(c) ==
  LET t == self(c) IN
  /\ Executes(c, {"trap"}) /\ Saved(c).code = "irq"
  /\ SavedAs(c, [Saved(c) EXCEPT !.old_in = t \in in_irq, !.adjust = ~level[t]])
  /\ in_irq' = in_irq \cup {t}
  /\ level' = [level EXCEPT ![t] = TRUE]
  /\ raised' = IF level[t] THEN raised ELSE [raised EXCEPT ![t] = @ + 1]
  /\ died' = IF ~level[t] /\ raised[t] # 0 THEN "level at interrupt" ELSE "no"
  /\ Jump(c, "handler") /\ UNCHANGED <<arrays, places>>

IrqDone(c) ==
  LET t == self(c)  f == Saved(c) IN
  /\ Executes(c, {"handler"})
  /\ died' = IF f.adjust /\ (~level[t] \/ raised[t] # 1) THEN "level after interrupt" ELSE "no"
  /\ raised' = IF f.adjust THEN [raised EXCEPT ![t] = @ - 1] ELSE raised
  /\ level' = IF f.adjust THEN [level EXCEPT ![t] = FALSE] ELSE level
  /\ in_irq' = IF f.old_in THEN in_irq ELSE in_irq \ {t}
  /\ Jump(c, "done2") /\ UNCHANGED <<arrays, places, stack>>

\* For anything else splhigh and splx put the processor's interrupts back to
\* what the thread had before.
mips_trap(c) ==
  LET t == self(c) IN
  /\ Executes(c, {"trap"}) /\ Saved(c).code # "irq"
  /\ died' = IF Saved(c).code = "sys" /\ (level[t] \/ raised[t] # 0) THEN "level at system call" ELSE "no"
  /\ reg' = [reg EXCEPT ![c].pc = "kernel", ![c].ie = ~level[t] /\ raised[t] = 0]
  /\ UNCHANGED <<arrays, places, stack, spls>>

\* The system call ends, or vm_fault does with success.
IrqOver(c) == Executes(c, {"kernel"}) /\ stack[reg[c].sp] # <<>> /\ raised[self(c)] = 0
done(c) ==
  /\ IrqOver(c) /\ reg' = [reg EXCEPT ![c].pc = "done2", ![c].ie = FALSE]
  /\ UNCHANGED <<arrays, places, stack, spls, died>>

\* vm_fault fails: kill_curthread stops everything; a copy goes on at copyfail.
kill_curthread(c) ==
  /\ IrqOver(c) /\ Saved(c).code = "fault" /\ Saved(c).reg.user
  /\ died' = "fatal fault" /\ UNCHANGED <<reg, arrays, places, stack, spls>>
BadFault(c) ==
  /\ IrqOver(c) /\ Saved(c).code = "fault" /\ Saved(c).reg.pc = "copy"
  /\ SavedAs(c, [Saved(c) EXCEPT !.reg.pc = "kernel"])
  /\ reg' = [reg EXCEPT ![c].pc = "done2", ![c].ie = FALSE]
  /\ UNCHANGED <<arrays, places, spls, died>>

\* The arrays say where the next exception finds curthread and its stack.
SetArrays(c) ==
  /\ cputhreads' = [cputhreads EXCEPT ![c] = self(c)]
  /\ cpustacks' = [cpustacks EXCEPT ![c] = self(c)]
  /\ died' = IF reg[c].sp # self(c) THEN "wrong stack" ELSE "no"

done2(c) ==
  /\ Executes(c, {"done2"}) /\ Jump(c, "return")
  /\ IF HasStack(self(c)) THEN SetArrays(c) ELSE UNCHANGED <<arrays, died>>
  /\ UNCHANGED <<places, stack, spls>>

exception_return(c) ==
  /\ Executes(c, {"return"})
  /\ reg' = [reg EXCEPT ![c] = Saved(c).reg]
  /\ stack' = [stack EXCEPT ![reg[c].sp] = Tail(@)]
  /\ UNCHANGED <<arrays, places, spls, died>>

\* enter_new_process and enter_forked_process make up a trap frame;
\* asm_usermode returns through it.  Nothing else is left on the stack.
mips_usermode(c) ==
  /\ Executes(c, {"entry"}) /\ SetArrays(c)
  /\ stack' = [stack EXCEPT ![reg[c].sp] = <<[code |-> "none", reg |-> Program(self(c)), old_in |-> FALSE, adjust |-> FALSE]>>]
  /\ reg' = [reg EXCEPT ![c].pc = "return", ![c].ie = FALSE]
  /\ UNCHANGED <<places, spls>>

(* The kernel. *)

\* It copies, and takes and releases spinlocks.
copy(c) ==
  /\ Executes(c, {"kernel", "copy"}) /\ raised[self(c)] = 0 /\ stack[reg[c].sp] # <<>> /\ Saved(c).code = "sys"
  /\ Jump(c, IF reg[c].pc = "kernel" THEN "copy" ELSE "kernel")
  /\ UNCHANGED <<arrays, places, stack, spls, died>>
Spin(c) ==
  /\ Executes(c, {"kernel"}) /\ raised[self(c)] \in {0, 1}
  /\ raised' = [raised EXCEPT ![self(c)] = 1 - @]
  /\ reg' = [reg EXCEPT ![c].ie = ~@]
  /\ UNCHANGED <<arrays, places, stack, level, in_irq, died>>

\* Anyone may wake a thread, for the processor it ran on.
Wake(c, t) ==
  /\ Executes(c, {"kernel", "handler"}) /\ where[t] = "sleep"
  /\ where' = [where EXCEPT ![t] = "ready"]
  /\ UNCHANGED <<reg, arrays, idling, runs_on, stack, spls, died>>

\* Mutant: the current thread too.
MayMove_Any(c, t) == where[t] = "ready" /\ runs_on[t] = c

\* hardclock gives a thread to another processor, but not the one it runs in:
\* that is ready when it was woken while its processor idles.
MayMove(c, t) == where[t] = "ready" /\ runs_on[t] = c /\ t # self(c)
Migrate(c, t, d) ==
  /\ Executes(c, {"handler"}) /\ MayMove(c, t)
  /\ runs_on' = [runs_on EXCEPT ![t] = d]
  /\ UNCHANGED <<reg, arrays, idling, where, stack, spls, died>>

Queue(c) == {t \in Tasks : where[t] = "ready" /\ runs_on[t] = c}

\* thread_switch up to the choice of the next: sleep and exit come from the
\* kernel, and a yield from the clock's handler as well.
thread_switch(c, new) ==
  LET t == self(c) IN
  /\ Executes(c, IF new = "ready" THEN {"kernel", "handler"} ELSE {"kernel"})
  /\ reg[c].pc = "kernel" => raised[t] = 0
  /\ c \notin idling /\ (new = "ready" => Queue(c) # {}) /\ (new = "dead" => t # BootTask)
  /\ where' = [where EXCEPT ![t] = new]
  /\ stack' = [stack EXCEPT ![reg[c].sp] = <<[pc |-> reg[c].pc, old |-> level[t]]>> \o @]
  /\ level' = [level EXCEPT ![t] = TRUE]
  /\ raised' = [raised EXCEPT ![t] = @ + (IF level[t] THEN 1 ELSE 2)]
  /\ reg' = [reg EXCEPT ![c].pc = "pick", ![c].ie = FALSE]
  /\ idling' = idling \cup {c} /\ UNCHANGED <<arrays, runs_on, in_irq, died>>

\* switchframe_switch: the stack changes with the thread.
switchframe_switch(c, t) ==
  /\ Executes(c, {"pick"}) /\ t \in Queue(c)
  /\ where' = [where EXCEPT ![t] = "run"] /\ idling' = idling \ {c}
  /\ reg' = [reg EXCEPT ![c] = Kernel(t, "resume")]
  /\ UNCHANGED <<arrays, runs_on, stack, spls, died>>

\* cpu_idle, without the run queue's lock: interrupts on, and off again.
cpu_idle(c) ==
  LET on == reg[c].pc = "pick" IN
  /\ Executes(c, {"pick", "idle"}) /\ (on => Queue(c) = {})
  /\ raised' = [raised EXCEPT ![self(c)] = IF on THEN @ - 1 ELSE @ + 1]
  /\ reg' = [reg EXCEPT ![c].pc = IF on THEN "idle" ELSE "pick", ![c].ie = on]
  /\ UNCHANGED <<arrays, places, stack, level, in_irq, died>>

\* The end of thread_switch, or thread_startup: the run queue's lock, the level.
Resume(c) ==
  LET t == self(c)  f == Saved(c)  n == raised[t] - (IF f.old THEN 1 ELSE 2) IN
  /\ Executes(c, {"resume"})
  /\ level' = [level EXCEPT ![t] = f.old] /\ raised' = [raised EXCEPT ![t] = n]
  /\ reg' = [reg EXCEPT ![c].pc = f.pc, ![c].ie = ~f.old /\ n = 0]
  /\ stack' = [stack EXCEPT ![reg[c].sp] = Tail(@)]
  /\ UNCHANGED <<arrays, places, in_irq, died>>

TrapNext == \E c \in Processors :
  \/ cpu_start_secondary(c) \/ cpu_hatch(c)
  \/ Exception(c) \/ TakeIrq(c) \/ IrqDone(c) \/ mips_trap(c)
  \/ done(c) \/ kill_curthread(c) \/ BadFault(c) \/ done2(c) \/ exception_return(c) \/ mips_usermode(c)
  \/ copy(c) \/ Spin(c) \/ cpu_idle(c) \/ Resume(c)
  \/ \E t \in Tasks : Wake(c, t) \/ switchframe_switch(c, t) \/ \E d \in Processors : Migrate(c, t, d)
  \/ \E new \in {"ready", "sleep", "dead"} : thread_switch(c, new)

TrapSpec == TrapInit /\ [][TrapNext]_trapvars

(***************************************************************************)
(* Properties.                                                             *)
(***************************************************************************)

\* No two processors are on the stack, or in the program, of one thread, and
\* in the kernel a processor is on the stack of curthread: also while it idles
\* as a thread that another processor wakes (thread_switch, thread_consider_migration).
StacksExclusive == \A c \in Processors :
  /\ reg[c].sp # Nowhere => \A d \in Processors \ {c} : reg[d].sp # reg[c].sp
  /\ ~reg[c].user => self(c) = reg[c].sp

\* While a program runs, the next exception will find its thread and its
\* stack, empty and at level zero, wherever the thread ran before; and no
\* assertion of mips_trap or mips_usermode fails.
TrapsReady ==
  /\ died \in {"no", "fatal fault"}
  /\ \A c \in Processors : reg[c].user =>
       LET t == reg[c].sp IN
       /\ reg[c].ie /\ cputhreads[c] = t /\ cpustacks[c] = t /\ stack[t] = <<>>
       /\ ~level[t] /\ raised[t] = 0 /\ t \notin in_irq

\* Wherever the kernel does its work, the processor takes interrupts exactly
\* when the thread's recorded level says so, and the thread is said to be in
\* an interrupt exactly when a handler is what it does.
LevelsTrue == \A c \in Processors :
  /\ Executes(c, {"kernel", "copy", "handler", "entry"}) =>
       /\ reg[c].ie <=> ~level[self(c)] /\ raised[self(c)] = 0
       /\ self(c) \in in_irq <=> reg[c].pc = "handler"
  /\ \A t \in Tasks : t \in in_irq => \E i \in DOMAIN stack[t] : "code" \in DOMAIN stack[t][i] /\ stack[t][i].code = "irq"

\* Stacks, the way to and from programs, and levels (the three above).
TrapsSound == StacksExclusive /\ TrapsReady /\ LevelsTrue
=============================================================================
