------------------------------- MODULE System -------------------------------
(***************************************************************************)
(* The life of the kernel around its devices: the boot thread starts the   *)
(* second processor, runs the menu, and shuts down; the second processor   *)
(* says that it is up and, told to go offline, says so and halts.  A       *)
(* program started by the menu opens the swap file, and the shutdown       *)
(* closes it.                                                              *)
(***************************************************************************)
EXTENDS Devices

CONSTANTS
  Second,     \* the context in which the second processor prints for itself
  MaxLine     \* size of the menu's line buffer (64)

ASSUME SystemAssumption == Second \in Threads /\ Boot \in Threads /\ Second # Boot /\ MaxLine \in Nat \ {0}

VARIABLE
  life        \* the kernel's arguments done, the menu's line and where its output begins, the step of shutdown, the second processor, the threads stopped with a processor

sysvars == <<vars, life>>

SysInit == Init /\ life = [args |-> 0, line |-> <<>>, from |-> 0, step |-> 1, second |-> "none", frozen |-> FALSE]

Boots(pc) == Up /\ boot.pc = pc
Then(pc) == boot' = [boot EXCEPT !.pc = pc]
Ready(t) == con[t].pc \in {"out", "end"}   \* t's own printing is over
Life(f, v) == life' = [life EXCEPT ![f] = v]
Rest == UNCHANGED <<diskvars, emuvars, busvars, plan>>
Quiet(A) == A /\ UNCHANGED convars /\ Rest

(* thread_start_cpus prints, starts the others and waits for them; cpu_hatch answers. *)
thread_start_cpus == Boots("cpus") /\ kprintf(Boot, Message, FALSE) /\ Then("hatch") /\ Rest /\ UNCHANGED life
lamebus_start_cpus == Boots("hatch") /\ Ready(Boot) /\ life.second = "none" /\ plan.cpus = 2 /\ Quiet(Life("second", "started") /\ UNCHANGED boot)
cpu_hatch == Up /\ life.second = "started" /\ kprintf(Second, Message, FALSE) /\ Life("second", "hatching") /\ Rest /\ UNCHANGED boot
Hatched == Up /\ life.second = "hatching" /\ Ready(Second) /\ Quiet(Life("second", "on") /\ UNCHANGED boot)
Started == Boots("hatch") /\ Ready(Boot) /\ life.second = (IF plan.cpus = 2 THEN "on" ELSE "none") /\ Quiet(Then("menu") /\ UNCHANGED life)

(* The menu: a prompt, a line, a command. *)
\* The arguments of the kernel are executed first, one after the other; then it prompts.
menu_execute ==
  /\ Boots("menu") /\ Ready(Boot) /\ life.args < Len(plan.args)
  /\ kprintf(Boot, Message, FALSE) /\ Then(plan.args[life.args + 1]) /\ Life("args", life.args + 1) /\ Rest
menu ==
  /\ Boots("menu") /\ Ready(Boot) /\ life.args = Len(plan.args) /\ plan.menu = "prompt"
  /\ kprintf(Boot, Message, FALSE) /\ Then("prompt") /\ Rest /\ UNCHANGED life
kgets ==
  /\ Boots("prompt") /\ Ready(Boot) /\ getch(Boot, 1) /\ Then("getch")
  /\ life' = [life EXCEPT !.line = <<>>, !.from = Len(Put(Boot))] /\ Rest

\* Mutant: the end of the buffer is not looked at.
Room_Ever == Len(life.line) <= MaxLine - 1

Room == Len(life.line) < MaxLine - 1

\* What a key does.
Key ==
  /\ Boots("getch") /\ In(Boot, "out") /\ Rest
  /\ LET c == con[Boot].ch IN
     \/ c = "cr" /\ putch(Boot, <<"nl">>) /\ Then("enter") /\ UNCHANGED life
     \/ c = "x" /\ Room /\ putch(Boot, <<c>>) /\ Life("line", Append(life.line, c)) /\ Then("echo")
     \/ c = "bs" /\ life.line # <<>> /\ putch(Boot, <<"bs", "sp", "bs">>) /\ Life("line", Front(life.line)) /\ Then("echo")
     \/ ((c = "x" /\ ~Room) \/ (c = "bs" /\ life.line = <<>>)) /\ getch(Boot, 1) /\ UNCHANGED <<boot, life>>
Echoed == Boots("echo") /\ Ready(Boot) /\ getch(Boot, 1) /\ Then("getch") /\ Rest /\ UNCHANGED life

\* One program is run, where there is an emu0 to load it from.
MayRun == EMUCARD \in plan.slots /\ emu[Boot] = Idle

\* An empty line is nothing; another is a program's, the command to quit, or one that says something.
cmd_dispatch ==
  /\ Boots("enter") /\ Ready(Boot)
  /\ \/ life.line = <<>> /\ Quiet(Then("menu") /\ UNCHANGED life)
     \/ life.line # <<>> /\ kprintf(Boot, Message, FALSE) /\ Then("menu") /\ Rest /\ UNCHANGED life
     \/ life.line # <<>> /\ MayRun /\ Quiet(Then("program") /\ UNCHANGED life)
     \/ life.line # <<>> /\ Quiet(Then("quit") /\ UNCHANGED life)

(* A program: its thread opens the swap file while the menu waits for it, and is Boot's too here. *)
Panics == stopped' = "assert" /\ UNCHANGED <<diskvars, convars, inuse, irqfuncs, irq, duds, plan, boot, life>>
File(A) == A /\ UNCHANGED <<diskvars, convars, busvars, plan, life>>
swapfile_init == Boots("program") /\ Ready(Boot) /\ File(Begin(Boot, TRUE) /\ Then("opening"))

\* No memory for its vnode; or it is a directory, which is let go again.
SwapRefused ==
  /\ Boots("opening") /\ UNCHANGED boot
  /\ \/ \E array \in BOOLEAN : File(LoadRefused(Boot, array))
     \/ Is(Boot, "out") /\ emu[Boot].dir /\ File(Reclaim(Boot))

\* The program ends and the menu says how long it took; without a swap file the kernel stops.
cmd_prog ==
  /\ Boots("opening")
  /\ \/ Is(Boot, "end") /\ Panics /\ UNCHANGED emuvars
     \/ Is(Boot, "out") /\ ~emu[Boot].dir /\ kprintf(Boot, Message, FALSE) /\ Then("menu") /\ Rest /\ UNCHANGED life

(* cmd_quit, sys_reboot and shutdown. *)
Steps == <<"vfs_sync", "shutting down", "vm_shutdown", "statistics", "vfs_clearbootfs", "vfs_clearcurdir", "vfs_unmountall",
           "thread_shutdown", "splhigh", "halted", "mainbus_poweroff">>
Step(s) == Boots("quit") /\ Steps[life.step] = s /\ Ready(Boot)
Advance == Life("step", life.step + 1)
High == boot.pc = "quit" /\ life.step > 9   \* the boot processor takes no interrupts any more

\* Each of these takes vfs_biglock and gives it back.
BigSteps == \E s \in {"vfs_sync", "vfs_clearbootfs", "vfs_clearcurdir", "vfs_unmountall"} :
              Step(s) /\ big = Nobody /\ Quiet(Advance /\ UNCHANGED boot)
Words == {"shutting down", "statistics", "halted"}
\* Mutant: the last message is printed like any other.
Says_Sleeping == \E s \in Words : Step(s) /\ kprintf(Boot, Message, FALSE) /\ Advance /\ Rest /\ UNCHANGED boot
Says == \E s \in Words : Step(s) /\ kprintf(Boot, Message, s = "halted") /\ Advance /\ Rest /\ UNCHANGED boot

\* swap_shutdown closes the swap file, as any last reference to a file goes.
\* Before any program there is none: vnode_decref asserts that it has a vnode.
vm_shutdown ==
  /\ Step("vm_shutdown")
  /\ \/ emu[Boot] = Idle /\ Panics /\ UNCHANGED emuvars
     \/ emu[Boot] # Idle /\ File(Reclaim(Boot)) /\ UNCHANGED boot
SwapClosed == Step("vm_shutdown") /\ Is(Boot, "end") /\ Quiet(Advance /\ UNCHANGED boot)

thread_shutdown ==
  /\ Step("thread_shutdown")
  /\ Quiet(life' = [life EXCEPT !.step = @ + 1, !.second = IF @ = "on" THEN "ipi" ELSE @] /\ UNCHANGED boot)

\* A thread that has a spinlock is not interrupted.
Interruptible == \A t \in Threads \ {Boot, Second} : slock # t /\ userlock["spin"] # t

\* The boot processor's other threads stop when its interrupts do; those of the other go on while it does.
splhigh ==
  /\ Step("splhigh") /\ irq.pc = "off"
  /\ \E f \in BOOLEAN :
     /\ f => Interruptible
     /\ f \/ life.second = "ipi"
     /\ Quiet(life' = [life EXCEPT !.step = @ + 1, !.frozen = f \/ @] /\ UNCHANGED boot)

mainbus_poweroff == Step("mainbus_poweroff") /\ stopped' = "power" /\ UNCHANGED <<diskvars, convars, emuvars, inuse, irqfuncs, irq, duds, plan, boot, life>>

\* IPI_OFFLINE on the second processor: f, the other threads are on it.
interprocessor_interrupt ==
  /\ Up /\ life.second = "ipi" /\ kprintf(Second, Message, TRUE)
  /\ \E f \in BOOLEAN :
     /\ f \/ High => Interruptible
     /\ life' = [life EXCEPT !.second = "offline", !.frozen = f \/ High \/ @]
  /\ Rest /\ UNCHANGED boot

Menu == menu_execute \/ menu \/ kgets \/ Key \/ Echoed \/ cmd_dispatch \/ swapfile_init \/ SwapRefused \/ cmd_prog
Shutdown == BigSteps \/ Says \/ vm_shutdown \/ SwapClosed \/ thread_shutdown \/ splhigh \/ mainbus_poweroff
BootSteps == (Booting /\ UNCHANGED life) \/ thread_start_cpus \/ lamebus_start_cpus \/ Started \/ Menu \/ Shutdown
Cpu == cpu_hatch \/ Hatched \/ interprocessor_interrupt
Runs(t) == t \in {Boot, Second} \/ ~life.frozen

SysNext ==
  \/ BootSteps \/ Cpu
  \/ (Hardware \/ (~High /\ Interrupt)) /\ UNCHANGED life
  \/ \E t \in Threads : Runs(t) /\ (Call(t) \/ Work(t)) /\ UNCHANGED life

\* The processors execute, the devices end what they began, interrupts are taken.
Fairness ==
  /\ WF_sysvars(BootSteps) /\ WF_sysvars(Cpu) /\ WF_sysvars(Hardware /\ UNCHANGED life) /\ WF_sysvars(~High /\ Interrupt /\ UNCHANGED life)
  /\ \A t \in Threads : WF_sysvars(Runs(t) /\ Work(t) /\ UNCHANGED life)
SysSpec == SysInit /\ [][SysNext]_sysvars /\ Fairness

(***************************************************************************)
(* Properties.                                                             *)
(***************************************************************************)

\* Every call that was begun ends: no completion is lost and no two calls
\* wait for each other.  Readers may wait for somebody to type, emufs after
\* memory ran out in emufs_loadvnode keeps vfs_biglock, and a thread may be
\* on a processor that goes offline.
Calling(t) ==
  \/ disk[t].pc \notin {"out", "end"}
  \/ con[t].pc \in {"putch", "send", "drain", "poll"}
  \/ emu[t].pc \notin {"out", "end"} /\ refused = 0
CallsEnd == \A t \in Threads \ {Boot} : Calling(t) ~> ~Calling(t) \/ ~Up \/ ~Runs(t)

\* A shutdown after a program (System's vm_shutdown, main.c's shutdown) ends with
\* the power off, whatever other threads and the second processor were doing
\* when it began: it waits for vfs_biglock, for the card and for kprintf_lock.
\* A shutdown before any program does not: closing a swap file that was never
\* opened, vnode_decref (vnode.c:100) stops the kernel.  Memory that runs out in
\* emufs_loadvnode is excepted, since vfs_biglock is not given back then.
ShutdownEnds == boot.pc = "quit" ~> refused > 0 \/ stopped = IF emu[Boot] = Idle THEN "assert" ELSE "power"

\* The last message is out when the power goes: it is printed without interrupts.
LastWordsOut == stopped = "power" => Of(Boot, sending) = <<>>

\* The terminal shows the line the menu will execute, and the line fits.
Typing(s, c) ==
  IF c = "bs" THEN [s EXCEPT !.at = @ - 1]
  ELSE [text |-> SubSeq(s.text, 1, s.at) \o <<c>> \o SubSeq(s.text, s.at + 2, Len(s.text)), at |-> s.at + 1]
Screen == FoldLeft(LAMBDA s, c : Typing(s, c[2]), [text |-> <<>>, at |-> 0], SubSeq(Put(Boot), life.from + 1, Len(Put(Boot))))
LineShown ==
  boot.pc = "getch" =>
    /\ SubSeq(Screen.text, 1, Screen.at) = life.line /\ Len(life.line) < MaxLine
    /\ \A i \in Screen.at + 1..Len(Screen.text) : Screen.text[i] = "sp"

\* What the devices move is what was asked for, in order and once, and each
\* card, port, handle and lock has one user.
TransfersSound ==
  TypeOK /\ CardExact /\ TransfersExact /\ SendersExact /\ OutputExact /\ InputExact /\ HandlesExact /\ BigLockExact

\* What a user sees on the terminal is what the kernel acts on, and nothing of
\* the last message is lost.
ConsoleShown == LineShown /\ LastWordsOut

\* The system can be stopped, and a line nobody clears stops it.
StopsEnd == ShutdownEnds /\ StuckLineStops
=============================================================================
