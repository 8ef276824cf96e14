----------------------------- MODULE TrapsProofs -----------------------------
(***************************************************************************)
(* Proof, for any numbers of processors and threads, of what Traps         *)
(* promises: TrapsSound.  IInv says at which point each processor is, and  *)
(* for each point what lies on the stack it is on and what the levels are; *)
(* a thread on no processor has been switched from.  Frames nest at most   *)
(* five deep: a program's system call, a fault of its copy, an interrupt,  *)
(* the switch the clock's handler makes, and an interrupt while the        *)
(* processor idles as that thread.                                         *)
(***************************************************************************)
EXTENDS Traps, SequenceTheorems, TLAPS

\* What registers and frames can hold.
Pcs == {"off", "hatch", "user", "entry", "kernel", "copy", "handler", "trap", "done2", "return",
        "pick", "idle", "resume"}
Regs == [pc : Pcs, user : BOOLEAN, ie : BOOLEAN, s7 : Tasks \cup {Nowhere}, sp : Tasks \cup {Nowhere}]
TrapFrames == [code : {"irq", "sys", "fault", "none"}, reg : Regs, old_in : BOOLEAN, adjust : BOOLEAN]
SwitchFrames == [pc : Pcs, old : BOOLEAN]
Frames == TrapFrames \cup SwitchFrames

TrapTypes ==
  /\ reg \in [Processors -> Regs]
  /\ cputhreads \in [Processors -> Tasks \cup {Nowhere}] /\ cpustacks \in [Processors -> Tasks \cup {Nowhere}]
  /\ idling \subseteq Processors
  /\ stack \in [Tasks -> Seq(Frames)]
  /\ runs_on \in [Tasks -> Processors]
  /\ level \in [Tasks -> BOOLEAN] /\ raised \in [Tasks -> Nat] /\ in_irq \subseteq Tasks

\* The registers of a processor that may be interrupted at pc.
Paused(t, pc) ==
  [pc |-> pc, user |-> pc = "user", ie |-> TRUE, s7 |-> IF pc = "user" THEN Nowhere ELSE t, sp |-> t]

\* The innermost frame on s is an exception's, which came at pc.
Over(t, s, codes, pc) ==
  s # <<>> /\ Head(s) \in TrapFrames /\ Head(s).code \in codes /\ Head(s).reg = Paused(t, pc)

\* What lies on the stack of a thread in a system call; in its kernel work
\* (its own, a call's or a fault's, of the program or of a copy); wherever it works.
InSystemCall(t, s) == HasStack(t) /\ Over(t, s, {"sys"}, "user") /\ Tail(s) = <<>>
Calls(t, s) ==
  \/ s = <<>>
  \/ HasStack(t) /\ Over(t, s, {"sys", "fault"}, "user") /\ Tail(s) = <<>>
  \/ Over(t, s, {"fault"}, "copy") /\ InSystemCall(t, Tail(s))
Works(t, pc, s) ==
  \/ pc = "kernel" /\ Calls(t, s)
  \/ pc = "copy" /\ InSystemCall(t, s)
  \/ pc \in {"user", "entry"} /\ s = <<>> /\ HasStack(t)

\* What lies there under the handler of an interrupt that came while the thread
\* worked; under a thread that has been switched from; under a handler while the
\* processor idled as the thread.
Handles(t, s) ==
  /\ Over(t, s, {"irq"}, Head(s).reg.pc) /\ Works(t, Head(s).reg.pc, Tail(s))
  /\ Head(s).adjust /\ ~Head(s).old_in
Switched(t, s) ==
  /\ s # <<>> /\ Head(s) \in SwitchFrames
  /\ \/ Head(s).pc = "handler" /\ Head(s).old /\ Handles(t, Tail(s))
     \/ Head(s).pc \in {"kernel", "entry"} /\ ~Head(s).old /\ Works(t, Head(s).pc, Tail(s))
HandlesIdle(t, s) ==
  /\ Over(t, s, {"irq"}, "idle") /\ Switched(t, Tail(s))
  /\ ~Head(s).adjust /\ (Head(s).old_in <=> Head(Tail(s)).pc = "handler")

\* Where an interrupt may come, with s under it: at level zero, or idle.
Plain(c, t, pc, s) ==
  \/ Works(t, pc, s) /\ ~level[t] /\ raised[t] = 0 /\ t \notin in_irq /\ c \notin idling
  \/ /\ pc = "idle" /\ Switched(t, s) /\ level[t] /\ raised[t] = 1
     /\ t \in in_irq <=> Head(s).pc = "handler"
     /\ c \in idling

\* Where an exception's frame says that it came from.
CameFrom(f) ==
  \/ f.code = "irq"
  \/ f.code = "sys" /\ f.reg.pc = "user"
  \/ f.code = "fault" /\ f.reg.pc \in {"user", "copy"}

\* The points processor c can be at on the stack of thread t.
Point(c, t) ==
  LET r == reg[c]  s == stack[t] IN
  \/ r = Paused(t, r.pc) /\ Plain(c, t, r.pc, s)
  \/ r = Kernel(t, "kernel") /\ Calls(t, s) /\ ~level[t] /\ raised[t] = 1 /\ t \notin in_irq /\ c \notin idling
  \/ /\ r.pc \in {"trap", "done2", "return"} /\ r = Kernel(t, r.pc)
     /\ s # <<>> /\ Head(s) \in TrapFrames /\ Head(s).reg = Paused(t, Head(s).reg.pc)
     /\ Plain(c, t, Head(s).reg.pc, Tail(s))
     /\ r.pc = "trap" => CameFrom(Head(s))
  \/ /\ r = Kernel(t, "handler") /\ level[t] /\ raised[t] = 1 /\ t \in in_irq
     /\ c \in idling => HandlesIdle(t, s)
     /\ c \notin idling => Handles(t, s)
  \/ /\ r.pc \in {"pick", "resume"} /\ r = Kernel(t, r.pc)
     /\ Switched(t, s) /\ level[t] /\ raised[t] = 2
     /\ t \in in_irq <=> Head(s).pc = "handler"
     /\ c \in idling <=> r.pc = "pick"
  \/ /\ r = Kernel(Nowhere, "off") \/ r = Kernel(t, "hatch")
     /\ s = <<>> /\ level[t] /\ raised[t] = 1 /\ t \notin in_irq /\ c \notin idling

\* Whose stack a processor is on, or will be when it starts.  A thread is on a
\* processor that it runs on, if on any.
Cur(c) == IF reg[c].pc = "off" THEN FirstTask[c] ELSE reg[c].sp
Placed == \A c \in Processors : Cur(c) \in Tasks /\ runs_on[Cur(c)] = c
Points == \A c \in Processors : Point(c, Cur(c))

\* A thread on no processor has been switched from, or not yet started.
Waiting(t) ==
  Switched(t, stack[t]) /\ level[t] /\ raised[t] = 2 /\ (t \in in_irq <=> Head(stack[t]).pc = "handler")
Waits == \A t \in Tasks : t # Cur(runs_on[t]) => Waiting(t)

\* The next exception in user mode will find its thread and its stack.
Found(c) == cputhreads[c] = Cur(c) /\ cpustacks[c] = Cur(c)
ArraysReady == \A c \in Processors :
  \/ reg[c].pc \in {"off", "user"}
  \/ reg[c].pc = "return" /\ Head(stack[Cur(c)]).reg.pc = "user"
  => Found(c)

IInv == TrapTypes /\ Placed /\ Points /\ Waits /\ ArraysReady /\ died \in {"no", "fatal fault"}

\* A frame pushed on a stack is on top of what was there, and comes off again.
LEMMA Pushed ==
  ASSUME NEW F, NEW s \in Seq(F), NEW f \in F
  PROVE  /\ <<f>> \o s \in Seq(F) /\ <<f>> \o s # <<>>
         /\ Head(<<f>> \o s) = f /\ Tail(<<f>> \o s) = s
<1>1. <<f>> \in Seq(F) /\ Len(<<f>>) = 1 /\ <<f>>[1] = f
  OBVIOUS
<1>2. <<f>> \o s \in Seq(F) /\ Len(<<f>> \o s) = 1 + Len(s) /\ (<<f>> \o s)[1] = f
  BY <1>1, ConcatProperties
<1>3. \A k \in 1..Len(s) : (<<f>> \o s)[k+1] = s[k]
  BY <1>1, ConcatProperties
<1>4. <<f>> \o s # <<>>
  BY <1>2
<1>5. Head(<<f>> \o s) = f
  BY <1>2
<1>6. Tail(<<f>> \o s) = s
  <2> DEFINE w == <<f>> \o s
  <2>1. w \in Seq(F) /\ w # <<>> /\ Len(w) = 1 + Len(s) /\ \A k \in 1..Len(s) : w[k+1] = s[k]
    BY <1>2, <1>3, <1>4
  <2> HIDE DEF w
  <2>2. Tail(w) \in Seq(F) /\ Len(Tail(w)) = Len(w) - 1 /\ \A k \in 1..Len(Tail(w)) : Tail(w)[k] = w[k+1]
    BY <2>1, HeadTailProperties
  <2>3. Tail(w) = s
    BY <2>1, <2>2, SeqEqual
  <2> QED BY <2>3 DEF w
<1> QED BY <1>2, <1>4, <1>5, <1>6

\* The registers of the kernel, and those that may be interrupted, are registers.
LEMMA RegistersTyped ==
  ASSUME NEW t \in Tasks, NEW pc \in Pcs
  PROVE  /\ Kernel(t, pc) \in Regs /\ Paused(t, pc) \in Regs /\ Program(t) = Paused(t, "user")
         /\ Kernel(t, pc).pc = pc /\ Kernel(t, pc).sp = t /\ Kernel(t, pc).s7 = t /\ ~Kernel(t, pc).user /\ ~Kernel(t, pc).ie
         /\ Paused(t, pc).pc = pc /\ Paused(t, pc).sp = t /\ (Paused(t, pc).user <=> pc = "user") /\ Paused(t, pc).ie
         /\ pc # "user" => Paused(t, pc).s7 = t
BY DEF Kernel, Paused, Program, Regs

\* What a processor's point says of its registers.
LEMMA PointAt ==
  ASSUME NEW c, NEW t \in Tasks, Point(c, t)
  PROVE  /\ reg[c].pc \in Pcs
         /\ reg[c].pc = "off" \/ reg[c].sp = t
         /\ reg[c].user <=> reg[c].pc = "user"
         /\ reg[c].pc \notin {"off", "user"} => reg[c].s7 = t
         /\ reg[c].pc = "off" => reg[c] = Kernel(Nowhere, "off")
         /\ reg[c].pc \notin {"kernel", "user", "entry", "copy", "idle", "off"} => reg[c] = Kernel(t, reg[c].pc)
<1> DEFINE r == reg[c]
<1>1. CASE r = Paused(t, r.pc) /\ Plain(c, t, r.pc, stack[t])
  <2>1. r.pc \in {"kernel", "copy", "user", "entry", "idle"}
    BY <1>1 DEF Plain, Works
  <2>2. r.sp = t /\ (r.user <=> r.pc = "user") /\ (r.pc # "user" => r.s7 = t)
    BY <1>1, <2>1, RegistersTyped DEF Pcs
  <2>3. r.user <=> r.pc = "user"
    BY <2>2
  <2> QED BY <2>1, <2>2, <2>3 DEF Pcs
<1>2. CASE r = Kernel(t, "kernel")
  BY <1>2 DEF Kernel, Pcs
<1>3. CASE r.pc \in {"trap", "done2", "return", "pick", "resume"} /\ r = Kernel(t, r.pc)
  BY <1>3 DEF Kernel, Pcs
<1>4. CASE r = Kernel(t, "handler")
  BY <1>4 DEF Kernel, Pcs
<1>6. CASE r = Kernel(t, "hatch")
  BY <1>6 DEF Kernel, Pcs
<1>5. CASE r = Kernel(Nowhere, "off")
  BY <1>5 DEF Kernel, Pcs
<1> QED BY <1>1, <1>2, <1>3, <1>4, <1>5, <1>6 DEF Point

\* ... of its stack and its level, where it may be interrupted,
LEMMA PlainAt ==
  ASSUME NEW c, NEW t \in Tasks, Point(c, t), reg[c].pc \in {"user", "entry", "copy", "idle"} \/ reg[c].ie
  PROVE  reg[c] = Paused(t, reg[c].pc) /\ Plain(c, t, reg[c].pc, stack[t])
BY DEF Point, Kernel

\* ... and elsewhere.
LEMMA KernelAt ==
  ASSUME NEW c, NEW t \in Tasks, Point(c, t)
  PROVE  /\ reg[c].pc = "kernel" =>
              /\ Calls(t, stack[t]) /\ ~level[t] /\ t \notin in_irq /\ c \notin idling
              /\ \/ raised[t] = 0 /\ reg[c] = Paused(t, "kernel")
                 \/ raised[t] = 1 /\ reg[c] = Kernel(t, "kernel")
         /\ reg[c].pc \in {"pick", "resume"} =>
              /\ Switched(t, stack[t]) /\ level[t] /\ raised[t] = 2
              /\ t \in in_irq <=> Head(stack[t]).pc = "handler"
              /\ c \in idling <=> reg[c].pc = "pick"
         /\ reg[c].pc = "handler" =>
              /\ level[t] /\ raised[t] = 1 /\ t \in in_irq
              /\ c \in idling => HandlesIdle(t, stack[t])
              /\ c \notin idling => Handles(t, stack[t])
         /\ reg[c].pc \in {"trap", "done2", "return"} =>
              /\ stack[t] # <<>> /\ Head(stack[t]) \in TrapFrames
              /\ Head(stack[t]).reg = Paused(t, Head(stack[t]).reg.pc)
              /\ Plain(c, t, Head(stack[t]).reg.pc, Tail(stack[t]))
              /\ reg[c].pc = "trap" => CameFrom(Head(stack[t]))
         /\ reg[c].pc \in {"off", "hatch"} =>
              stack[t] = <<>> /\ level[t] /\ raised[t] = 1 /\ t \notin in_irq /\ c \notin idling
<1> DEFINE r == reg[c]  s == stack[t]
<1>1. CASE r = Paused(t, r.pc) /\ Plain(c, t, r.pc, s)
  <2>1. r.pc \notin {"pick", "resume", "handler", "trap", "done2", "return", "off", "hatch"}
    BY <1>1 DEF Plain, Works
  <2> QED BY <1>1, <2>1 DEF Plain, Works
<1>2. CASE r = Kernel(t, "kernel") /\ Calls(t, s) /\ ~level[t] /\ raised[t] = 1 /\ t \notin in_irq /\ c \notin idling
  <2>1. r.pc = "kernel"
    BY <1>2 DEF Kernel
  <2> QED BY <1>2, <2>1
<1>3. CASE /\ r.pc \in {"trap", "done2", "return"} /\ r = Kernel(t, r.pc)
           /\ s # <<>> /\ Head(s) \in TrapFrames /\ Head(s).reg = Paused(t, Head(s).reg.pc)
           /\ Plain(c, t, Head(s).reg.pc, Tail(s))
           /\ r.pc = "trap" => CameFrom(Head(s))
  BY <1>3
<1>4. CASE /\ r = Kernel(t, "handler") /\ level[t] /\ raised[t] = 1 /\ t \in in_irq
           /\ c \in idling => HandlesIdle(t, s)
           /\ c \notin idling => Handles(t, s)
  <2>1. r.pc = "handler"
    BY <1>4 DEF Kernel
  <2> QED BY <1>4, <2>1
<1>5. CASE /\ r.pc \in {"pick", "resume"} /\ r = Kernel(t, r.pc)
           /\ Switched(t, s) /\ level[t] /\ raised[t] = 2
           /\ t \in in_irq <=> Head(s).pc = "handler"
           /\ c \in idling <=> r.pc = "pick"
  BY <1>5
<1>6. CASE /\ r = Kernel(Nowhere, "off") \/ r = Kernel(t, "hatch")
           /\ s = <<>> /\ level[t] /\ raised[t] = 1 /\ t \notin in_irq /\ c \notin idling
  <2>1. r.pc \in {"off", "hatch"}
    BY <1>6 DEF Kernel
  <2> QED BY <1>6, <2>1
<1> QED BY <1>1, <1>2, <1>3, <1>4, <1>5, <1>6 DEF Point

\* A step of one processor, that stays on the stack it is on, changes nothing for
\* the others: what is left to show is where it is now.
LEMMA OneProcessor ==
  ASSUME TrapsAssumption, IInv, NEW c \in Processors, NEW t, t = Cur(c), Cur(c)' = t,
         TrapTypes', runs_on' = runs_on,
         \A d \in Processors \ {c} : /\ reg'[d] = reg[d] /\ (d \in idling' <=> d \in idling)
                                     /\ cputhreads'[d] = cputhreads[d] /\ cpustacks'[d] = cpustacks[d],
         \A u \in Tasks \ {t} : /\ stack'[u] = stack[u] /\ level'[u] = level[u] /\ raised'[u] = raised[u]
                                /\ (u \in in_irq' <=> u \in in_irq),
         Point(c, t)',
         \/ reg'[c].pc \in {"off", "user"}
         \/ reg'[c].pc = "return" /\ Head(stack'[t]).reg.pc = "user"
         => cputhreads'[c] = t /\ cpustacks'[c] = t,
         died' \in {"no", "fatal fault"}
  PROVE  IInv'
<1>1. t \in Tasks /\ runs_on[t] = c
  BY DEF IInv, Placed
<1>2. \A d \in Processors \ {c} : Cur(d) \in Tasks \ {t} /\ runs_on[Cur(d)] = d
  BY <1>1 DEF IInv, Placed
<1>3. Placed'
  <2> SUFFICES ASSUME NEW d \in Processors
               PROVE  Cur(d)' \in Tasks /\ runs_on[Cur(d)'] = d
    BY DEF Placed
  <2>1. CASE d = c
    BY <1>1, <2>1
  <2>2. CASE d # c
    <3>1. Cur(d)' = Cur(d)
      BY <2>2 DEF Cur
    <3> QED BY <1>2, <2>2, <3>1
  <2> QED BY <2>1, <2>2
<1>4. Points'
  <2> SUFFICES ASSUME NEW d \in Processors, NEW u, u = Cur(d)'
               PROVE  Point(d, u)'
    BY DEF Points
  <2>1. CASE d = c
    BY <2>1
  <2>2. CASE d # c
    <3>0. Cur(d)' = Cur(d)
      BY <2>2 DEF Cur
    <3>1. u \in Tasks \ {t} /\ u = Cur(d)
      BY <1>2, <2>2, <3>0
    <3>2. Point(d, u)
      BY <3>1 DEF IInv, Points
    <3>3. /\ reg'[d] = reg[d] /\ stack'[u] = stack[u] /\ level'[u] = level[u] /\ raised'[u] = raised[u]
          /\ u \in in_irq' <=> u \in in_irq
          /\ d \in idling' <=> d \in idling
      BY <2>2, <3>1
    <3>4. Plain(d, u, reg[d].pc, stack[u])' <=> Plain(d, u, reg[d].pc, stack[u])
      BY <3>3 DEF Plain
    <3>5. Plain(d, u, Head(stack[u]).reg.pc, Tail(stack[u]))' <=> Plain(d, u, Head(stack[u]).reg.pc, Tail(stack[u]))
      BY <3>3 DEF Plain
    <3> QED BY <3>2, <3>3, <3>4, <3>5 DEF Point
  <2> QED BY <2>1, <2>2
<1>5. Waits'
  <2> SUFFICES ASSUME NEW u \in Tasks, u # Cur(runs_on[u])'
               PROVE  Waiting(u)'
    BY DEF Waits
  <2>1. runs_on[u] \in Processors
    BY DEF IInv, TrapTypes
  <2>2. u # t
    BY <1>1
  <2>3. u # Cur(runs_on[u])
    <3> DEFINE d == runs_on[u]
    <3>1. CASE d = c
      BY <2>2, <3>1
    <3>2. CASE d # c
      <4>1. Cur(d)' = Cur(d)
        BY <2>1, <3>2 DEF Cur
      <4> QED BY <4>1
    <3> QED BY <3>1, <3>2
  <2>4. Waiting(u)
    BY <2>3 DEF IInv, Waits
  <2>5. /\ stack'[u] = stack[u] /\ level'[u] = level[u] /\ raised'[u] = raised[u]
        /\ u \in in_irq' <=> u \in in_irq
    BY <2>2
  <2> QED BY <2>4, <2>5 DEF Waiting
<1>6. ArraysReady'
  <2> SUFFICES ASSUME NEW d \in Processors,
                      \/ reg'[d].pc \in {"off", "user"}
                      \/ reg'[d].pc = "return" /\ Head(stack'[Cur(d)']).reg.pc = "user"
               PROVE  cputhreads'[d] = Cur(d)' /\ cpustacks'[d] = Cur(d)'
    BY DEF ArraysReady, Found
  <2>1. CASE d = c
    BY <2>1
  <2>2. CASE d # c
    <3>0. Cur(d)' = Cur(d)
      BY <2>2 DEF Cur
    <3>1. Cur(d)' = Cur(d) /\ reg'[d] = reg[d] /\ stack'[Cur(d)] = stack[Cur(d)]
          /\ cputhreads'[d] = cputhreads[d] /\ cpustacks'[d] = cpustacks[d]
      BY <1>2, <2>2, <3>0
    <3>2. \/ reg[d].pc \in {"off", "user"}
          \/ reg[d].pc = "return" /\ Head(stack[Cur(d)]).reg.pc = "user"
      BY <3>1
    <3>3. cputhreads[d] = Cur(d) /\ cpustacks[d] = Cur(d)
      BY <3>2 DEF IInv, ArraysReady, Found
    <3> QED BY <3>1, <3>3
  <2> QED BY <2>1, <2>2
<1> QED BY <1>3, <1>4, <1>5, <1>6 DEF IInv

\* A processor in the kernel is on the stack of its own thread.
LEMMA Acting ==
  ASSUME IInv, NEW c \in Processors, reg[c].pc # "off", ~reg[c].user
  PROVE  /\ reg[c].sp = Cur(c) /\ self(c) = Cur(c) /\ Cur(c) \in Tasks /\ Point(c, Cur(c))
         /\ stack[Cur(c)] \in Seq(Frames) /\ reg[c] \in Regs
         /\ level[Cur(c)] \in BOOLEAN /\ raised[Cur(c)] \in Nat
<1>1. Cur(c) \in Tasks /\ Point(c, Cur(c))
  BY DEF IInv, Placed, Points
<1>2. reg[c].sp = Cur(c) /\ self(c) = Cur(c)
  BY <1>1, PointAt DEF self
<1> QED BY <1>1, <1>2 DEF IInv, TrapTypes

\* What is pushed on a stack, and what is taken off.
LEMMA StackSet ==
  ASSUME TrapTypes, NEW t \in Tasks, NEW f \in Frames, NEW w \in Seq(Frames),
         stack' = [stack EXCEPT ![t] = <<f>> \o w]
  PROVE  /\ stack' \in [Tasks -> Seq(Frames)] /\ \A u \in Tasks \ {t} : stack'[u] = stack[u]
         /\ stack'[t] # <<>> /\ Head(stack'[t]) = f /\ Tail(stack'[t]) = w
<1>1. /\ <<f>> \o w \in Seq(Frames) /\ <<f>> \o w # <<>>
      /\ Head(<<f>> \o w) = f /\ Tail(<<f>> \o w) = w
  BY Pushed
<1> DEFINE x == <<f>> \o w
<1>2. x \in Seq(Frames) /\ x # <<>> /\ Head(x) = f /\ Tail(x) = w /\ stack' = [stack EXCEPT ![t] = x]
  BY <1>1
<1> HIDE DEF x
<1>3. stack'[t] = x
  BY <1>2 DEF TrapTypes
<1> QED BY <1>2, <1>3 DEF TrapTypes

\* What comes off a stack is a frame, and what is left is a stack.
LEMMA Popped ==
  ASSUME NEW s \in Seq(Frames), s # <<>>
  PROVE  Head(s) \in Frames /\ Tail(s) \in Seq(Frames)
BY HeadTailProperties

\* What an interrupt may find stays as long as the level does.
LEMMA PlainKept ==
  ASSUME NEW c, NEW t, NEW pc, NEW s, Plain(c, t, pc, s),
         level'[t] = level[t], raised'[t] = raised[t], t \in in_irq' <=> t \in in_irq, c \in idling' <=> c \in idling
  PROVE  Plain(c, t, pc, s)'
BY DEF Plain

\* Under an exception's frame lies what the exception found.
LEMMA AtFrame ==
  ASSUME NEW c, NEW t \in Tasks, NEW at \in {"trap", "done2", "return"}, NEW f \in TrapFrames, NEW w, NEW pc \in Pcs,
         reg'[c] = Kernel(t, at), stack'[t] # <<>>, Head(stack'[t]) = f, Tail(stack'[t]) = w,
         f.reg = Paused(t, pc), Plain(c, t, pc, w)', at = "trap" => CameFrom(f)
  PROVE  Point(c, t)'
<1>1. f.reg.pc = pc
  BY RegistersTyped
<1>2. reg'[c].pc = at
  BY RegistersTyped DEF Pcs
<1>3. Plain(c, t, Head(stack[t]).reg.pc, Tail(stack[t]))'
  BY <1>1 DEF Plain
<1> QED BY <1>1, <1>2, <1>3 DEF Point

\* An exception saves the registers on the stack that the arrays, or sp, name.
LEMMA ExceptionStep ==
  ASSUME TrapsAssumption, IInv, NEW c \in Processors, Exception(c) PROVE IInv'
<1>0. PICK t, r, pc, s : t = Cur(c) /\ r = reg[c] /\ pc = r.pc /\ s = stack[t]
  OBVIOUS
<1>1. t \in Tasks /\ Point(c, t) /\ r \in Regs /\ s \in Seq(Frames) /\ TrapTypes
  BY <1>0 DEF IInv, Placed, Points, TrapTypes
<1>2. PICK code \in {"irq", "sys", "fault"} :
        /\ common_exception(c, code, reg[c].pc)
        /\ r.ie \/ r.user \/ pc = "copy"
        /\ code = "irq" \/ (code = "sys" /\ pc = "user") \/ (code = "fault" /\ pc \in {"user", "copy"})
  <2>1. r.user => pc = "user"
    BY <1>0, <1>1, PointAt
  <2> QED BY <1>0, <2>1 DEF Exception
<1>3. r = Paused(t, pc) /\ Plain(c, t, pc, s) /\ pc \in Pcs /\ (r.user <=> pc = "user")
  <2>1. r.user <=> pc = "user"
    BY <1>0, <1>1, PointAt
  <2> QED BY <1>0, <1>1, <1>2, <2>1, PlainAt, PointAt
<1>4. r.sp = t /\ (pc # "user" => r.s7 = t)
  BY <1>1, <1>3, RegistersTyped
<1>5. r.user => cputhreads[c] = t /\ cpustacks[c] = t
  BY <1>0, <1>3 DEF IInv, ArraysReady, Found
<1> DEFINE f == [code |-> code, reg |-> r, old_in |-> FALSE, adjust |-> FALSE]
<1>6. [r EXCEPT !.pc = pc] = r
  BY <1>0, <1>1 DEF Regs
<1>7. /\ reg' = [reg EXCEPT ![c] = Kernel(t, "trap")]
      /\ stack' = [stack EXCEPT ![t] = <<f>> \o s]
      /\ UNCHANGED <<arrays, places, spls, died>>
  BY <1>0, <1>2, <1>3, <1>4, <1>5, <1>6 DEF common_exception, Kernel
<1>8. f \in TrapFrames /\ f.code = code /\ f.reg = r
  BY <1>1 DEF TrapFrames
<1>9. f \in Frames
  BY <1>8 DEF Frames
<1> HIDE DEF f
<1>10. /\ stack' \in [Tasks -> Seq(Frames)] /\ \A u \in Tasks \ {t} : stack'[u] = stack[u]
       /\ stack'[t] # <<>> /\ Head(stack'[t]) = f /\ Tail(stack'[t]) = s
  BY <1>1, <1>7, <1>9, StackSet
<1>11. /\ Kernel(t, "trap") \in Regs /\ Kernel(t, "trap").pc = "trap" /\ Kernel(t, "trap").sp = t
  BY <1>1, RegistersTyped DEF Pcs
<1>12. reg' \in [Processors -> Regs] /\ reg'[c] = Kernel(t, "trap") /\ \A d \in Processors \ {c} : reg'[d] = reg[d]
  BY <1>1, <1>7, <1>11 DEF TrapTypes
<1>13. TrapTypes'
  BY <1>1, <1>7, <1>10, <1>12 DEF TrapTypes, arrays, places, spls
<1>14. Plain(c, t, pc, s)'
  BY <1>3, <1>7, PlainKept DEF places, spls
<1>15. CameFrom(f)
  <2>1. f.reg.pc = pc
    BY <1>0, <1>8
  <2> QED BY <1>2, <1>8, <2>1 DEF CameFrom
<1>16. Point(c, t)'
  BY <1>1, <1>3, <1>8, <1>10, <1>12, <1>14, <1>15, AtFrame
<1>17. Cur(c)' = t
  BY <1>11, <1>12 DEF Cur
<1> QED BY <1>0, <1>7, <1>10, <1>11, <1>12, <1>13, <1>16, <1>17, OneProcessor DEF arrays, places, spls, IInv

\* Registers of one processor set, and moved on in the kernel.
LEMMA RegSet ==
  ASSUME TrapTypes, NEW c \in Processors, NEW q \in Regs, reg' = [reg EXCEPT ![c] = q]
  PROVE  reg' \in [Processors -> Regs] /\ reg'[c] = q /\ \A d \in Processors \ {c} : reg'[d] = reg[d]
BY DEF TrapTypes

\* Registers are what they hold.
LEMMA SameRegs ==
  ASSUME NEW x \in Regs, NEW y \in Regs, x.pc = y.pc, x.user = y.user, x.ie = y.ie, x.s7 = y.s7, x.sp = y.sp
  PROVE  x = y
BY DEF Regs

\* The kernel moves on, with interrupts off.
LEMMA Jumped ==
  ASSUME TrapTypes, NEW c \in Processors, NEW t \in Tasks, NEW from \in Pcs, NEW to \in Pcs,
         reg[c] = Kernel(t, from), Jump(c, to)
  PROVE  /\ reg' \in [Processors -> Regs] /\ reg'[c] = Kernel(t, to)
         /\ \A d \in Processors \ {c} : reg'[d] = reg[d]
         /\ to # "off" => Cur(c)' = t
<1>1. [reg[c] EXCEPT !.pc = to] = Kernel(t, to)
  <2> DEFINE x == [reg[c] EXCEPT !.pc = to]
  <2>1. /\ reg[c] \in Regs /\ reg[c].sp = t /\ reg[c].s7 = t /\ reg[c].user = FALSE /\ reg[c].ie = FALSE
        /\ Kernel(t, to) \in Regs /\ Kernel(t, to).pc = to /\ Kernel(t, to).sp = t /\ Kernel(t, to).s7 = t
        /\ Kernel(t, to).user = FALSE /\ Kernel(t, to).ie = FALSE
    BY RegistersTyped
  <2>2. /\ x \in Regs /\ x.pc = to /\ x.sp = reg[c].sp /\ x.s7 = reg[c].s7
        /\ x.user = reg[c].user /\ x.ie = reg[c].ie
    BY <2>1 DEF Regs
  <2> QED BY <2>1, <2>2, SameRegs
<1>2. reg' = [reg EXCEPT ![c] = Kernel(t, to)]
  BY <1>1 DEF TrapTypes, Jump
<1>3. Kernel(t, to) \in Regs /\ Kernel(t, to).pc = to /\ Kernel(t, to).sp = t
  BY RegistersTyped
<1>4. reg' \in [Processors -> Regs] /\ reg'[c] = Kernel(t, to) /\ \A d \in Processors \ {c} : reg'[d] = reg[d]
  BY <1>2, <1>3, RegSet
<1>5. to # "off" => Cur(c)' = t
  BY <1>3, <1>4 DEF Cur
<1> QED BY <1>4, <1>5

\* A frame notes what it found.
LEMMA Noted ==
  ASSUME NEW f \in TrapFrames, NEW o \in BOOLEAN, NEW a \in BOOLEAN
  PROVE  [f EXCEPT !.old_in = o, !.adjust = a] \in TrapFrames
BY DEF TrapFrames

\* mips_trap for an interrupt: in the handler the level is one, whatever it was.
LEMMA TakeIrqStep ==
  ASSUME TrapsAssumption, IInv, NEW c \in Processors, TakeIrq(c) PROVE IInv'
<1>0. PICK t, s, f, w, pc : t = Cur(c) /\ s = stack[t] /\ f = Head(s) /\ w = Tail(s) /\ pc = f.reg.pc
  OBVIOUS
<1>1. /\ reg[c].pc = "trap" /\ f.code = "irq"
      /\ reg[c].sp = t /\ self(c) = t /\ t \in Tasks /\ Point(c, t) /\ s \in Seq(Frames) /\ TrapTypes
      /\ level[t] \in BOOLEAN /\ raised[t] \in Nat
  <2>1. reg[c].pc = "trap" /\ ~reg[c].user /\ Head(stack[reg[c].sp]).code = "irq"
    BY DEF TakeIrq, Executes, Saved
  <2> QED BY <1>0, <2>1, Acting DEF IInv
<1>2. /\ reg[c] = Kernel(t, "trap") /\ s # <<>> /\ f \in TrapFrames /\ f.reg = Paused(t, pc) /\ Plain(c, t, pc, w)
  BY <1>0, <1>1, PointAt, KernelAt
<1>3. w \in Seq(Frames)
  BY <1>0, <1>1, <1>2, Popped
<1> DEFINE g == [f EXCEPT !.old_in = t \in in_irq, !.adjust = ~level[t]]
<1>4. g \in TrapFrames /\ g.code = "irq" /\ g.reg = f.reg /\ (g.old_in <=> t \in in_irq) /\ (g.adjust <=> ~level[t])
  <2>1. (t \in in_irq) \in BOOLEAN /\ (~level[t]) \in BOOLEAN
    OBVIOUS
  <2>2. g \in TrapFrames
    BY <1>2, <2>1, Noted, Zenon
  <2> QED BY <1>1, <1>2, <2>2 DEF TrapFrames
<1>5. /\ stack' = [stack EXCEPT ![t] = <<g>> \o w]
      /\ in_irq' = in_irq \cup {t} /\ level' = [level EXCEPT ![t] = TRUE]
      /\ raised' = IF level[t] THEN raised ELSE [raised EXCEPT ![t] = @ + 1]
      /\ died' = IF ~level[t] /\ raised[t] # 0 THEN "level at interrupt" ELSE "no"
      /\ Jump(c, "handler") /\ UNCHANGED <<arrays, places>>
  BY <1>0, <1>1 DEF TakeIrq, Saved, SavedAs
<1>6. g \in Frames
  BY <1>4 DEF Frames
<1> HIDE DEF g
<1>7. /\ stack' \in [Tasks -> Seq(Frames)] /\ \A u \in Tasks \ {t} : stack'[u] = stack[u]
      /\ stack'[t] # <<>> /\ Head(stack'[t]) = g /\ Tail(stack'[t]) = w
  BY <1>1, <1>3, <1>5, <1>6, StackSet
<1>8. /\ reg' \in [Processors -> Regs] /\ reg'[c] = Kernel(t, "handler")
      /\ \A d \in Processors \ {c} : reg'[d] = reg[d]
      /\ Cur(c)' = t
  BY <1>1, <1>2, <1>5, Jumped DEF Pcs
<1>9. (~level[t] /\ raised[t] = 0) \/ (level[t] /\ raised[t] = 1)
  BY <1>2 DEF Plain
<1>10. /\ level' \in [Tasks -> BOOLEAN] /\ level'[t] = TRUE /\ \A u \in Tasks \ {t} : level'[u] = level[u]
  BY <1>1, <1>5 DEF TrapTypes
<1>11. raised' \in [Tasks -> Nat] /\ raised'[t] = 1 /\ \A u \in Tasks \ {t} : raised'[u] = raised[u]
  <2>1. CASE level[t]
    BY <1>1, <1>5, <1>9, <2>1 DEF TrapTypes
  <2>2. CASE ~level[t]
    <3>1. raised' = [raised EXCEPT ![t] = @ + 1]
      BY <1>5, <2>2, Zenon
    <3>2. raised[t] = 0
      BY <1>9, <2>2, Zenon
    <3> QED BY <1>1, <3>1, <3>2 DEF TrapTypes
  <2> QED BY <2>1, <2>2
<1>12. TrapTypes'
  BY <1>1, <1>5, <1>7, <1>8, <1>10, <1>11 DEF TrapTypes, arrays, places
<1>13. died' = "no"
  BY <1>5, <1>9
<1>14. pc \in Pcs /\ Paused(t, pc).pc = pc
  <2>1. pc \in Pcs
    BY <1>2 DEF Plain, Works, Pcs
  <2> QED BY <1>1, <2>1, RegistersTyped
<1>15. c \in idling' => HandlesIdle(t, stack'[t])
  <2>1. ASSUME c \in idling
        PROVE  HandlesIdle(t, stack'[t])
    <3>1. pc = "idle" /\ Switched(t, w) /\ level[t] /\ (t \in in_irq <=> Head(w).pc = "handler")
      BY <1>2, <2>1 DEF Plain
    <3>2. Over(t, stack'[t], {"irq"}, "idle")
      BY <1>2, <1>4, <1>7, <3>1 DEF Over
    <3> QED BY <1>4, <1>7, <3>1, <3>2 DEF HandlesIdle
  <2> QED BY <1>5, <2>1 DEF places
<1>16. c \notin idling' => Handles(t, stack'[t])
  <2>1. ASSUME c \notin idling
        PROVE  Handles(t, stack'[t])
    <3>1. Works(t, pc, w) /\ ~level[t] /\ t \notin in_irq
      BY <1>2, <2>1 DEF Plain
    <3>2. Over(t, stack'[t], {"irq"}, Head(stack'[t]).reg.pc) /\ Head(stack'[t]).reg.pc = pc
      BY <1>2, <1>4, <1>7, <1>14 DEF Over
    <3> QED BY <1>4, <1>7, <3>1, <3>2 DEF Handles
  <2> QED BY <1>5, <2>1 DEF places
<1>17. Point(c, t)'
  BY <1>5, <1>8, <1>10, <1>11, <1>15, <1>16 DEF Point
<1>18. reg'[c].pc = "handler"
  BY <1>1, <1>8, RegistersTyped DEF Pcs
<1> QED BY <1>0, <1>5, <1>7, <1>8, <1>10, <1>11, <1>12, <1>13, <1>17, <1>18, OneProcessor DEF arrays, places

\* ... and afterwards it is again what it was.
LEMMA IrqDoneStep ==
  ASSUME TrapsAssumption, IInv, NEW c \in Processors, IrqDone(c) PROVE IInv'
<1>0. PICK t, s, f, w, pc : t = Cur(c) /\ s = stack[t] /\ f = Head(s) /\ w = Tail(s) /\ pc = f.reg.pc
  OBVIOUS
<1>1. /\ reg[c].pc = "handler"
      /\ reg[c].sp = t /\ self(c) = t /\ t \in Tasks /\ Point(c, t) /\ s \in Seq(Frames) /\ TrapTypes
      /\ level[t] \in BOOLEAN /\ raised[t] \in Nat
  <2>1. reg[c].pc = "handler" /\ ~reg[c].user
    BY DEF IrqDone, Executes
  <2> QED BY <1>0, <2>1, Acting DEF IInv
<1>2. /\ reg[c] = Kernel(t, "handler") /\ level[t] /\ raised[t] = 1 /\ t \in in_irq
      /\ c \in idling => HandlesIdle(t, s)
      /\ c \notin idling => Handles(t, s)
  BY <1>0, <1>1, PointAt, KernelAt
<1>3. s # <<>> /\ f \in TrapFrames /\ f.reg = Paused(t, pc) /\ pc \in Pcs
  <2>1. CASE c \in idling
    <3>1. Over(t, s, {"irq"}, "idle")
      BY <1>2, <2>1 DEF HandlesIdle
    <3>2. f.reg = Paused(t, "idle") /\ Paused(t, "idle").pc = "idle"
      BY <1>0, <1>1, <3>1, RegistersTyped DEF Over, Pcs
    <3> QED BY <1>0, <3>1, <3>2 DEF Over, Pcs
  <2>2. CASE c \notin idling
    BY <1>0, <1>2, <2>2 DEF Handles, Over, Works, Pcs
  <2> QED BY <2>1, <2>2
<1>4. /\ died' = IF f.adjust /\ (~level[t] \/ raised[t] # 1) THEN "level after interrupt" ELSE "no"
      /\ raised' = IF f.adjust THEN [raised EXCEPT ![t] = @ - 1] ELSE raised
      /\ level' = IF f.adjust THEN [level EXCEPT ![t] = FALSE] ELSE level
      /\ in_irq' = IF f.old_in THEN in_irq ELSE in_irq \ {t}
      /\ Jump(c, "done2") /\ UNCHANGED <<arrays, places, stack>>
  BY <1>0, <1>1 DEF IrqDone, Saved
<1>5. died' = "no"
  BY <1>2, <1>4
<1>6. /\ reg' \in [Processors -> Regs] /\ reg'[c] = Kernel(t, "done2")
      /\ \A d \in Processors \ {c} : reg'[d] = reg[d]
      /\ Cur(c)' = t
  BY <1>1, <1>2, <1>4, Jumped DEF Pcs
<1>7. /\ level' \in [Tasks -> BOOLEAN] /\ \A u \in Tasks \ {t} : level'[u] = level[u]
      /\ level'[t] <=> ~f.adjust
  BY <1>1, <1>2, <1>4 DEF TrapTypes
<1>8. /\ raised' \in [Tasks -> Nat] /\ \A u \in Tasks \ {t} : raised'[u] = raised[u]
      /\ raised'[t] = IF f.adjust THEN 0 ELSE 1
  <2>1. CASE f.adjust
    BY <1>1, <1>2, <1>4, <2>1 DEF TrapTypes
  <2>2. CASE ~f.adjust
    BY <1>1, <1>2, <1>4, <2>2 DEF TrapTypes
  <2> QED BY <2>1, <2>2
<1>9. TrapTypes' /\ (\A u \in Tasks \ {t} : u \in in_irq' <=> u \in in_irq) /\ (t \in in_irq' <=> f.old_in)
  BY <1>1, <1>2, <1>4, <1>6, <1>7, <1>8 DEF TrapTypes, arrays, places
<1>10. Plain(c, t, pc, w)'
  <2>1. CASE c \in idling
    <3>1. pc = "idle" /\ Switched(t, w) /\ ~f.adjust /\ (f.old_in <=> Head(w).pc = "handler")
      <4>1. f.reg = Paused(t, "idle")
        BY <1>0, <1>2, <2>1 DEF HandlesIdle, Over
      <4>2. pc = "idle"
        BY <1>0, <1>1, <4>1, RegistersTyped DEF Pcs
      <4> QED BY <1>0, <1>2, <2>1, <4>2 DEF HandlesIdle
    <3> QED BY <1>4, <1>7, <1>8, <1>9, <2>1, <3>1 DEF Plain, places
  <2>2. CASE c \notin idling
    <3>1. Works(t, pc, w) /\ f.adjust /\ ~f.old_in
      BY <1>0, <1>2, <2>2 DEF Handles
    <3> QED BY <1>4, <1>7, <1>8, <1>9, <2>2, <3>1 DEF Plain, places
  <2> QED BY <2>1, <2>2
<1>11. Point(c, t)'
  <2>1. stack'[t] # <<>> /\ Head(stack'[t]) = f /\ Tail(stack'[t]) = w
    BY <1>0, <1>3, <1>4
  <2> QED BY <1>1, <1>3, <1>6, <1>10, <2>1, AtFrame
<1>12. reg'[c].pc = "done2"
  BY <1>1, <1>6, RegistersTyped DEF Pcs
<1> QED BY <1>0, <1>4, <1>5, <1>6, <1>7, <1>8, <1>9, <1>11, <1>12, OneProcessor DEF arrays, places

\* The level is set.
LEMMA LevelSet ==
  ASSUME TrapTypes, NEW t \in Tasks, NEW l \in BOOLEAN, level' = [level EXCEPT ![t] = l]
  PROVE  level' \in [Tasks -> BOOLEAN] /\ level'[t] = l /\ \A u \in Tasks \ {t} : level'[u] = level[u]
BY DEF TrapTypes

\* The level is raised some number of times.
LEMMA RaisedSet ==
  ASSUME TrapTypes, NEW t \in Tasks, NEW n \in Nat, raised' = [raised EXCEPT ![t] = n]
  PROVE  raised' \in [Tasks -> Nat] /\ raised'[t] = n /\ \A u \in Tasks \ {t} : raised'[u] = raised[u]
BY DEF TrapTypes
\* Where the kernel moves on and turns interrupts on,
LEMMA JumpsOn ==
  ASSUME TrapTypes, NEW c \in Processors, NEW t \in Tasks, reg[c].sp = t, reg[c].s7 = t, ~reg[c].user,
         NEW to \in Pcs, to # "user", to # "off", reg' = [reg EXCEPT ![c].pc = to, ![c].ie = TRUE]
  PROVE  /\ reg' \in [Processors -> Regs] /\ reg'[c] = Paused(t, to)
         /\ \A d \in Processors \ {c} : reg'[d] = reg[d]
         /\ reg'[c].pc = to /\ Cur(c)' = t
<1> DEFINE x == [[reg[c] EXCEPT !.pc = to] EXCEPT !.ie = TRUE]
<1>1. reg[c] \in Regs /\ reg[c].user = FALSE
  BY DEF TrapTypes, Regs
<1>2. x \in Regs /\ x.pc = to /\ x.sp = t /\ x.s7 = t /\ x.user = FALSE /\ x.ie = TRUE
  BY <1>1 DEF Regs
<1>3. LET y == Paused(t, to) IN
      y \in Regs /\ y.pc = to /\ y.sp = t /\ y.s7 = t /\ y.user = FALSE /\ y.ie = TRUE
  <2>1. Paused(t, to) \in Regs /\ Paused(t, to).user \in BOOLEAN /\ Paused(t, to).ie \in BOOLEAN
    BY RegistersTyped DEF Regs
  <2> QED BY <2>1, RegistersTyped
<1> HIDE DEF x
<1>4. x = Paused(t, to)
  BY <1>2, <1>3, SameRegs
<1>5. reg' = [reg EXCEPT ![c] = x]
  BY DEF TrapTypes, x
<1>6. reg' \in [Processors -> Regs] /\ reg'[c] = x /\ \A d \in Processors \ {c} : reg'[d] = reg[d]
  BY <1>2, <1>5, RegSet, Zenon
<1>7. Cur(c)' = t
  BY <1>2, <1>6 DEF Cur
<1> QED BY <1>2, <1>4, <1>6, <1>7

\* ... and where it turns them off.
LEMMA JumpsOff ==
  ASSUME TrapTypes, NEW c \in Processors, NEW t \in Tasks, reg[c].sp = t, reg[c].s7 = t, ~reg[c].user,
         NEW to \in Pcs, to # "user", to # "off", reg' = [reg EXCEPT ![c].pc = to, ![c].ie = FALSE]
  PROVE  /\ reg' \in [Processors -> Regs] /\ reg'[c] = Kernel(t, to)
         /\ \A d \in Processors \ {c} : reg'[d] = reg[d]
         /\ reg'[c].pc = to /\ Cur(c)' = t
<1> DEFINE x == [[reg[c] EXCEPT !.pc = to] EXCEPT !.ie = FALSE]
<1>1. reg[c] \in Regs /\ reg[c].user = FALSE
  BY DEF TrapTypes, Regs
<1>2. x \in Regs /\ x.pc = to /\ x.sp = t /\ x.s7 = t /\ x.user = FALSE /\ x.ie = FALSE
  BY <1>1 DEF Regs
<1>3. LET y == Kernel(t, to) IN
      y \in Regs /\ y.pc = to /\ y.sp = t /\ y.s7 = t /\ y.user = FALSE /\ y.ie = FALSE
  <2>1. Kernel(t, to) \in Regs /\ Kernel(t, to).user \in BOOLEAN /\ Kernel(t, to).ie \in BOOLEAN
    BY RegistersTyped DEF Regs
  <2> QED BY <2>1, RegistersTyped
<1> HIDE DEF x
<1>4. x = Kernel(t, to)
  BY <1>2, <1>3, SameRegs
<1>5. reg' = [reg EXCEPT ![c] = x]
  BY DEF TrapTypes, x
<1>6. reg' \in [Processors -> Regs] /\ reg'[c] = x /\ \A d \in Processors \ {c} : reg'[d] = reg[d]
  BY <1>2, <1>5, RegSet, Zenon
<1>7. Cur(c)' = t
  BY <1>2, <1>6 DEF Cur
<1> QED BY <1>2, <1>4, <1>6, <1>7

\* The kernel works, or a program runs.
LEMMA AtWork ==
  ASSUME NEW c, NEW t \in Tasks, NEW pc \in Pcs, NEW w, reg'[c] = Paused(t, pc), stack'[t] = w, Plain(c, t, pc, w)'
  PROVE  Point(c, t)'
<1>1. reg'[c].pc = pc
  BY RegistersTyped
<1> QED BY <1>1 DEF Point, Plain

\* mips_trap for a system call or a fault: the kernel runs as what came did.
LEMMA TrapStep ==
  ASSUME TrapsAssumption, IInv, NEW c \in Processors, mips_trap(c) PROVE IInv'
<1>0. PICK t, s, f, w, pc : t = Cur(c) /\ s = stack[t] /\ f = Head(s) /\ w = Tail(s) /\ pc = f.reg.pc
  OBVIOUS
<1>1. /\ reg[c].pc = "trap" /\ ~reg[c].user /\ f.code # "irq"
      /\ reg[c].sp = t /\ self(c) = t /\ t \in Tasks /\ Point(c, t) /\ s \in Seq(Frames) /\ TrapTypes
      /\ level[t] \in BOOLEAN /\ raised[t] \in Nat
  <2>1. reg[c].pc = "trap" /\ ~reg[c].user /\ Head(stack[reg[c].sp]).code # "irq"
    BY DEF mips_trap, Executes, Saved
  <2> QED BY <1>0, <2>1, Acting DEF IInv
<1>2. /\ reg[c] = Kernel(t, "trap") /\ s # <<>> /\ f \in TrapFrames /\ f.reg = Paused(t, pc) /\ Plain(c, t, pc, w) /\ CameFrom(f)
  BY <1>0, <1>1, PointAt, KernelAt
<1>3. (f.code = "sys" /\ pc = "user") \/ (f.code = "fault" /\ pc \in {"user", "copy"})
  BY <1>0, <1>1, <1>2 DEF CameFrom
<1>4. Works(t, pc, w) /\ ~level[t] /\ raised[t] = 0 /\ t \notin in_irq /\ c \notin idling
  BY <1>2, <1>3 DEF Plain
<1>5. /\ died' = IF f.code = "sys" /\ (level[t] \/ raised[t] # 0) THEN "level at system call" ELSE "no"
      /\ reg' = [reg EXCEPT ![c].pc = "kernel", ![c].ie = ~level[t] /\ raised[t] = 0]
      /\ UNCHANGED <<arrays, places, stack, spls>>
  BY <1>0, <1>1 DEF mips_trap, Saved
<1>6. reg' = [reg EXCEPT ![c].pc = "kernel", ![c].ie = TRUE] /\ died' = "no"
  <2>1. (~level[t] /\ raised[t] = 0) = TRUE
    BY <1>4
  <2>2. reg' = [reg EXCEPT ![c].pc = "kernel", ![c].ie = TRUE]
    BY <1>5, <2>1, Zenon
  <2>3. died' = "no"
    BY <1>4, <1>5
  <2> QED BY <2>2, <2>3
<1>7. /\ reg' \in [Processors -> Regs] /\ reg'[c] = Paused(t, "kernel") /\ \A d \in Processors \ {c} : reg'[d] = reg[d]
      /\ reg'[c].pc = "kernel" /\ Cur(c)' = t
  <2>1. reg[c].s7 = t /\ "kernel" \in Pcs
    BY <1>1, <1>2, PointAt DEF Pcs
  <2> QED BY <1>1, <1>6, <2>1, JumpsOn, Zenon
<1>8. Calls(t, s)
  <2>1. CASE pc = "user"
    BY <1>0, <1>2, <1>3, <1>4, <2>1 DEF Works, Calls, Over
  <2>2. CASE pc = "copy"
    BY <1>0, <1>2, <1>3, <1>4, <2>2 DEF Works, Calls, Over
  <2> QED BY <1>3, <2>1, <2>2
<1>9. Plain(c, t, "kernel", s)'
  BY <1>4, <1>5, <1>8 DEF Plain, Works, places, spls
<1>10. Point(c, t)'
  BY <1>0, <1>1, <1>5, <1>7, <1>9, AtWork DEF Pcs
<1>11. TrapTypes'
  BY <1>1, <1>5, <1>7 DEF TrapTypes, arrays, places, spls
<1> QED BY <1>0, <1>5, <1>6, <1>7, <1>10, <1>11, OneProcessor DEF arrays, places, spls

\* What the end of kernel work returns to.
LEMMA CallReturns ==
  ASSUME NEW t \in Tasks, NEW s, Calls(t, s), s # <<>>
  PROVE  /\ Head(s) \in TrapFrames
         /\ \E pc \in {"user", "copy"} : Head(s).reg = Paused(t, pc) /\ Works(t, pc, Tail(s))
BY DEF Calls, Over, Works

\* The kernel's registers after kernel work: a system call's or a fault's end.
LEMMA AtEnd ==
  ASSUME IInv, NEW c \in Processors, IrqOver(c)
  PROVE  /\ reg[c].sp = Cur(c) /\ self(c) = Cur(c) /\ Cur(c) \in Tasks
         /\ stack[Cur(c)] \in Seq(Frames) /\ stack[Cur(c)] # <<>>
         /\ reg[c] = Paused(Cur(c), "kernel") /\ Calls(Cur(c), stack[Cur(c)])
         /\ ~level[Cur(c)] /\ raised[Cur(c)] = 0 /\ Cur(c) \notin in_irq /\ c \notin idling
<1>0. PICK t : t = Cur(c)
  OBVIOUS
<1>1. reg[c].pc = "kernel" /\ ~reg[c].user /\ stack[reg[c].sp] # <<>> /\ raised[self(c)] = 0
  BY DEF IrqOver, Executes
<1>2. reg[c].sp = t /\ self(c) = t /\ t \in Tasks /\ Point(c, t) /\ stack[t] \in Seq(Frames)
  BY <1>0, <1>1, Acting
<1>3. raised[t] = 0 /\ stack[t] # <<>>
  BY <1>1, <1>2
<1> QED BY <1>0, <1>1, <1>2, <1>3, KernelAt

\* A system call, or a fault that succeeds, ends with interrupts off.
LEMMA EndStep ==
  ASSUME TrapsAssumption, IInv, NEW c \in Processors, done(c) PROVE IInv'
<1>0. PICK t, s, f, w : t = Cur(c) /\ s = stack[t] /\ f = Head(s) /\ w = Tail(s)
  OBVIOUS
<1>1. /\ reg[c].sp = t /\ t \in Tasks /\ s \in Seq(Frames) /\ s # <<>> /\ reg[c] = Paused(t, "kernel") /\ Calls(t, s)
      /\ ~level[t] /\ raised[t] = 0 /\ t \notin in_irq /\ c \notin idling /\ TrapTypes
  BY <1>0, AtEnd DEF done, IInv
<1>2. reg' = [reg EXCEPT ![c].pc = "done2", ![c].ie = FALSE] /\ UNCHANGED <<arrays, places, stack, spls, died>>
  BY DEF done
<1>3. f \in TrapFrames /\ \E pc \in {"user", "copy"} : f.reg = Paused(t, pc) /\ Works(t, pc, w)
  BY <1>0, <1>1, CallReturns
<1>4. PICK pc \in {"user", "copy"} : f.reg = Paused(t, pc) /\ Works(t, pc, w)
  BY <1>3
<1>5. /\ reg' \in [Processors -> Regs] /\ reg'[c] = Kernel(t, "done2")
      /\ \A d \in Processors \ {c} : reg'[d] = reg[d]
      /\ reg'[c].pc = "done2" /\ Cur(c)' = t
  <2>1. "done2" \in Pcs /\ "done2" # "user" /\ "done2" # "off" /\ "kernel" \in Pcs /\ "kernel" # "user"
    BY DEF Pcs
  <2>2. reg[c].s7 = t /\ ~reg[c].user
    BY <1>1, <2>1, RegistersTyped
  <2> QED BY <1>1, <1>2, <2>1, <2>2, JumpsOff, Zenon
<1>6. Plain(c, t, pc, w)'
  BY <1>1, <1>2, <1>4 DEF Plain, Works, places, spls
<1>7. Point(c, t)'
  <2>1. stack'[t] # <<>> /\ Head(stack'[t]) = f /\ Tail(stack'[t]) = w
    BY <1>0, <1>1, <1>2
  <2> QED BY <1>1, <1>3, <1>4, <1>5, <1>6, <2>1, AtFrame DEF Pcs
<1>8. TrapTypes'
  BY <1>1, <1>2, <1>5 DEF TrapTypes, arrays, places, spls
<1>9. died' \in {"no", "fatal fault"}
  BY <1>2 DEF IInv
<1> QED BY <1>0, <1>2, <1>5, <1>7, <1>8, <1>9, OneProcessor DEF arrays, places, spls

\* A copy that faults goes on at copyfail.
LEMMA BadFaultStep ==
  ASSUME TrapsAssumption, IInv, NEW c \in Processors, BadFault(c) PROVE IInv'
<1>0. PICK t, s, f, w : t = Cur(c) /\ s = stack[t] /\ f = Head(s) /\ w = Tail(s)
  OBVIOUS
<1>1. /\ reg[c].sp = t /\ t \in Tasks /\ s \in Seq(Frames) /\ s # <<>> /\ reg[c] = Paused(t, "kernel") /\ Calls(t, s)
      /\ ~level[t] /\ raised[t] = 0 /\ t \notin in_irq /\ c \notin idling /\ TrapTypes
  BY <1>0, AtEnd DEF BadFault, IInv
<1> DEFINE g == [f EXCEPT !.reg.pc = "kernel"]
<1>2. /\ f.code = "fault" /\ f.reg.pc = "copy"
      /\ stack' = [stack EXCEPT ![t] = <<g>> \o w]
      /\ reg' = [reg EXCEPT ![c].pc = "done2", ![c].ie = FALSE] /\ UNCHANGED <<arrays, places, spls, died>>
  BY <1>0, <1>1 DEF BadFault, Saved, SavedAs
<1>3. f \in TrapFrames /\ f.reg = Paused(t, "copy") /\ InSystemCall(t, w)
  <2>1. Paused(t, "user").pc = "user"
    BY <1>1, RegistersTyped DEF Pcs
  <2> QED BY <1>0, <1>1, <1>2, <2>1 DEF Calls, Over
<1>4. g \in TrapFrames /\ g.reg = Paused(t, "kernel")
  <2>1. [f.reg EXCEPT !.pc = "kernel"] = Paused(t, "kernel")
    <3> DEFINE x == [f.reg EXCEPT !.pc = "kernel"]
    <3>1. /\ f.reg.sp = t /\ f.reg.s7 = t /\ f.reg.user = FALSE /\ f.reg.ie = TRUE /\ f.reg \in Regs
          /\ Paused(t, "kernel") \in Regs /\ Paused(t, "kernel").pc = "kernel" /\ Paused(t, "kernel").sp = t
          /\ Paused(t, "kernel").s7 = t /\ Paused(t, "kernel").user = FALSE /\ Paused(t, "kernel").ie = TRUE
      <4>1. "copy" \in Pcs /\ "kernel" \in Pcs /\ "copy" # "user" /\ "kernel" # "user"
        BY DEF Pcs
      <4>2. Paused(t, "copy").ie \in BOOLEAN /\ Paused(t, "kernel").ie \in BOOLEAN
            /\ Paused(t, "copy").user \in BOOLEAN /\ Paused(t, "kernel").user \in BOOLEAN
        BY <1>1, <4>1, RegistersTyped DEF Regs
      <4> QED BY <1>1, <1>3, <4>1, <4>2, RegistersTyped
    <3>2. x \in Regs /\ x.pc = "kernel" /\ x.sp = t /\ x.s7 = t /\ x.user = FALSE /\ x.ie = TRUE
      BY <3>1 DEF Regs, Pcs
    <3> HIDE DEF x
    <3>3. x = Paused(t, "kernel")
      BY <3>1, <3>2, SameRegs
    <3> QED BY <3>3 DEF x
  <2>2. g = [f EXCEPT !.reg = Paused(t, "kernel")]
    BY <1>3, <2>1 DEF TrapFrames
  <2>3. Paused(t, "kernel") \in Regs
    BY <1>1, RegistersTyped DEF Pcs
  <2> QED BY <1>3, <2>2, <2>3 DEF TrapFrames
<1>5. g \in Frames
  BY <1>4 DEF Frames
<1> HIDE DEF g
<1>6. w \in Seq(Frames)
  BY <1>0, <1>1, Popped
<1>7. /\ stack' \in [Tasks -> Seq(Frames)] /\ \A u \in Tasks \ {t} : stack'[u] = stack[u]
      /\ stack'[t] # <<>> /\ Head(stack'[t]) = g /\ Tail(stack'[t]) = w
  <2>1. stack' = [stack EXCEPT ![t] = <<g>> \o w]
    BY <1>2
  <2> QED BY <1>1, <1>5, <1>6, <2>1, StackSet
<1>8. /\ reg' \in [Processors -> Regs] /\ reg'[c] = Kernel(t, "done2")
      /\ \A d \in Processors \ {c} : reg'[d] = reg[d]
      /\ reg'[c].pc = "done2" /\ Cur(c)' = t
  <2>1. "done2" \in Pcs /\ "done2" # "user" /\ "done2" # "off" /\ "kernel" \in Pcs /\ "kernel" # "user"
    BY DEF Pcs
  <2>2. reg[c].s7 = t /\ ~reg[c].user
    BY <1>1, <2>1, RegistersTyped
  <2> QED BY <1>1, <1>2, <2>1, <2>2, JumpsOff, Zenon
<1>9. Plain(c, t, "kernel", w)'
  BY <1>1, <1>2, <1>3 DEF Plain, Works, Calls, InSystemCall, Over, places, spls
<1>10. Point(c, t)'
  BY <1>1, <1>4, <1>7, <1>8, <1>9, AtFrame DEF Pcs
<1>11. TrapTypes'
  BY <1>1, <1>2, <1>7, <1>8 DEF TrapTypes, arrays, places, spls
<1>12. died' \in {"no", "fatal fault"}
  BY <1>2 DEF IInv
<1> QED BY <1>0, <1>2, <1>7, <1>8, <1>10, <1>11, <1>12, OneProcessor DEF arrays, places, spls

\* Nothing that the invariant is about changes: wakeups, and the kernel's stop.
LEMMA Unmoved ==
  ASSUME IInv, UNCHANGED <<reg, arrays, idling, runs_on, stack, spls>>, died' \in {"no", "fatal fault"}
  PROVE  IInv'
<1>1. UNCHANGED <<reg, cputhreads, cpustacks, idling, runs_on, stack, level, raised, in_irq>>
  BY DEF arrays, spls
<1>2. TrapTypes' /\ Placed'
  BY <1>1 DEF IInv, TrapTypes, Placed, Cur
<1>3. ArraysReady'
  BY <1>1 DEF IInv, ArraysReady, Found, Cur
<1>4. Points'
  <2> SUFFICES ASSUME NEW d \in Processors, NEW u, u = Cur(d)' PROVE Point(d, u)'
    BY DEF Points
  <2>1. Point(d, u)
    BY <1>1 DEF IInv, Points, Cur
  <2>2. Plain(d, u, reg[d].pc, stack[u])' <=> Plain(d, u, reg[d].pc, stack[u])
    BY <1>1 DEF Plain
  <2>3. Plain(d, u, Head(stack[u]).reg.pc, Tail(stack[u]))' <=> Plain(d, u, Head(stack[u]).reg.pc, Tail(stack[u]))
    BY <1>1 DEF Plain
  <2> QED BY <1>1, <2>1, <2>2, <2>3 DEF Point
<1>5. Waits'
  <2> SUFFICES ASSUME NEW u \in Tasks, u # Cur(runs_on[u])' PROVE Waiting(u)'
    BY DEF Waits
  <2>1. u # Cur(runs_on[u])
    BY <1>1 DEF Cur
  <2> QED BY <1>1, <2>1 DEF IInv, Waits, Waiting
<1> QED BY <1>2, <1>3, <1>4, <1>5 DEF IInv

\* A fatal fault of a program stops the kernel (kill_curthread, in trap.c).
LEMMA KillStep ==
  ASSUME IInv, NEW c \in Processors, kill_curthread(c) PROVE IInv'
BY Unmoved DEF kill_curthread, places

\* A wakeup changes the state of a thread only.
LEMMA WakeStep ==
  ASSUME IInv, NEW c \in Processors, NEW t \in Tasks, Wake(c, t) PROVE IInv'
BY Unmoved DEF Wake, IInv

\* The arrays follow the thread that is about to return to its program.
LEMMA Done2Step ==
  ASSUME TrapsAssumption, IInv, NEW c \in Processors, done2(c) PROVE IInv'
<1>0. PICK t, s, f, w, pc : t = Cur(c) /\ s = stack[t] /\ f = Head(s) /\ w = Tail(s) /\ pc = f.reg.pc
  OBVIOUS
<1>1. /\ reg[c].pc = "done2" /\ reg[c].sp = t /\ self(c) = t /\ t \in Tasks /\ Point(c, t) /\ s \in Seq(Frames) /\ TrapTypes
  <2>1. reg[c].pc = "done2" /\ ~reg[c].user
    BY DEF done2, Executes
  <2> QED BY <1>0, <2>1, Acting DEF IInv
<1>2. /\ reg[c] = Kernel(t, "done2") /\ s # <<>> /\ f \in TrapFrames /\ f.reg = Paused(t, pc) /\ Plain(c, t, pc, w)
  BY <1>0, <1>1, PointAt, KernelAt
<1>3. /\ Jump(c, "return") /\ IF HasStack(t) THEN SetArrays(c) ELSE UNCHANGED <<arrays, died>>
      /\ UNCHANGED <<places, stack, spls>>
  BY <1>1 DEF done2
<1>4. HasStack(t) => /\ cputhreads' = [cputhreads EXCEPT ![c] = t] /\ cpustacks' = [cpustacks EXCEPT ![c] = t] /\ died' = "no"
  BY <1>1, <1>3 DEF SetArrays
<1>5. ~HasStack(t) => UNCHANGED <<cputhreads, cpustacks, died>>
  BY <1>3 DEF arrays
<1>6. /\ cputhreads' \in [Processors -> Tasks \cup {Nowhere}] /\ cpustacks' \in [Processors -> Tasks \cup {Nowhere}]
      /\ \A d \in Processors \ {c} : cputhreads'[d] = cputhreads[d] /\ cpustacks'[d] = cpustacks[d]
      /\ HasStack(t) => cputhreads'[c] = t /\ cpustacks'[c] = t
      /\ died' \in {"no", "fatal fault"}
  <2>1. CASE HasStack(t)
    <3>1. cputhreads' = [cputhreads EXCEPT ![c] = t] /\ cpustacks' = [cpustacks EXCEPT ![c] = t] /\ died' = "no"
      BY <1>4, <2>1, Zenon
    <3> QED BY <1>1, <3>1 DEF TrapTypes
  <2>2. CASE ~HasStack(t)
    BY <1>1, <1>5, <2>2 DEF IInv, TrapTypes
  <2> QED BY <2>1, <2>2
<1>7. /\ reg' \in [Processors -> Regs] /\ reg'[c] = Kernel(t, "return")
      /\ \A d \in Processors \ {c} : reg'[d] = reg[d]
      /\ Cur(c)' = t
  BY <1>1, <1>2, <1>3, Jumped DEF Pcs
<1>8. reg'[c].pc = "return"
  BY <1>1, <1>7, RegistersTyped DEF Pcs
<1>9. pc \in Pcs
  BY <1>2 DEF Plain, Works, Pcs
<1>10. Plain(c, t, pc, w)'
  BY <1>2, <1>3, PlainKept DEF places, spls
<1>11. stack'[t] = s
  BY <1>0, <1>3
<1>12. Point(c, t)'
  BY <1>0, <1>1, <1>2, <1>7, <1>9, <1>10, <1>11, AtFrame
<1>13. TrapTypes'
  BY <1>1, <1>3, <1>6, <1>7 DEF TrapTypes, places, spls
<1>14. pc = "user" => HasStack(t)
  BY <1>2 DEF Plain, Works
<1> QED BY <1>0, <1>3, <1>6, <1>7, <1>8, <1>11, <1>12, <1>13, <1>14, OneProcessor DEF places, spls

\* The return from an exception goes on where it came.
LEMMA ReturnStep ==
  ASSUME TrapsAssumption, IInv, NEW c \in Processors, exception_return(c) PROVE IInv'
<1>0. PICK t, s, f, w, pc : t = Cur(c) /\ s = stack[t] /\ f = Head(s) /\ w = Tail(s) /\ pc = f.reg.pc
  OBVIOUS
<1>1. /\ reg[c].pc = "return" /\ reg[c].sp = t /\ t \in Tasks /\ Point(c, t) /\ s \in Seq(Frames) /\ TrapTypes
  <2>1. reg[c].pc = "return" /\ ~reg[c].user
    BY DEF exception_return, Executes
  <2> QED BY <1>0, <2>1, Acting DEF IInv
<1>2. /\ s # <<>> /\ f \in TrapFrames /\ f.reg = Paused(t, pc) /\ Plain(c, t, pc, w)
  BY <1>0, <1>1, KernelAt
<1>3. /\ reg' = [reg EXCEPT ![c] = f.reg] /\ stack' = [stack EXCEPT ![t] = w] /\ UNCHANGED <<arrays, places, spls, died>>
  BY <1>0, <1>1 DEF exception_return, Saved
<1>4. w \in Seq(Frames) /\ pc \in Pcs /\ pc # "off"
  <2>1. pc \in Pcs /\ pc # "off"
    BY <1>2 DEF Plain, Works, Pcs
  <2> QED BY <1>0, <1>1, <1>2, <2>1, Popped
<1>5. f.reg \in Regs /\ Paused(t, pc).pc = pc /\ Paused(t, pc).sp = t
  BY <1>1, <1>2, <1>4, RegistersTyped DEF TrapFrames
<1>6. reg' \in [Processors -> Regs] /\ reg'[c] = Paused(t, pc) /\ \A d \in Processors \ {c} : reg'[d] = reg[d]
  BY <1>1, <1>2, <1>3, <1>5 DEF TrapTypes
<1>7. reg'[c].pc = pc /\ Cur(c)' = t
  BY <1>4, <1>5, <1>6 DEF Cur
<1>8. stack' \in [Tasks -> Seq(Frames)] /\ stack'[t] = w /\ \A u \in Tasks \ {t} : stack'[u] = stack[u]
  BY <1>1, <1>3, <1>4 DEF TrapTypes
<1>9. Plain(c, t, pc, w)'
  BY <1>2, <1>3, PlainKept DEF places, spls
<1>10. Point(c, t)'
  BY <1>1, <1>4, <1>6, <1>8, <1>9, AtWork
<1>11. TrapTypes'
  BY <1>1, <1>3, <1>6, <1>8 DEF TrapTypes, arrays, places, spls
<1>12. pc = "user" => cputhreads[c] = t /\ cpustacks[c] = t
  BY <1>0, <1>1 DEF IInv, ArraysReady, Found
<1>13. pc # "return" /\ died' \in {"no", "fatal fault"}
  BY <1>2, <1>3 DEF Plain, Works, IInv
<1> QED BY <1>0, <1>3, <1>4, <1>6, <1>7, <1>8, <1>10, <1>11, <1>12, <1>13, OneProcessor DEF arrays, places, spls

\* A process enters its program on an empty stack.
LEMMA UsermodeStep ==
  ASSUME TrapsAssumption, IInv, NEW c \in Processors, mips_usermode(c) PROVE IInv'
<1>0. PICK t, s : t = Cur(c) /\ s = stack[t]
  OBVIOUS
<1>1. /\ reg[c].pc = "entry" /\ reg[c].sp = t /\ self(c) = t /\ t \in Tasks /\ Point(c, t) /\ TrapTypes
  <2>1. reg[c].pc = "entry" /\ ~reg[c].user
    BY DEF mips_usermode, Executes
  <2> QED BY <1>0, <2>1, Acting DEF IInv
<1>2. reg[c] = Paused(t, "entry") /\ Works(t, "entry", s) /\ ~level[t] /\ raised[t] = 0 /\ t \notin in_irq /\ c \notin idling
  BY <1>0, <1>1, PlainAt DEF Plain
<1> DEFINE f == [code |-> "none", reg |-> Program(t), old_in |-> FALSE, adjust |-> FALSE]
<1>3. /\ SetArrays(c) /\ stack' = [stack EXCEPT ![t] = <<f>>]
      /\ reg' = [reg EXCEPT ![c].pc = "return", ![c].ie = FALSE] /\ UNCHANGED <<places, spls>>
  BY <1>0, <1>1 DEF mips_usermode
<1>4. cputhreads' = [cputhreads EXCEPT ![c] = t] /\ cpustacks' = [cpustacks EXCEPT ![c] = t] /\ died' = "no"
  BY <1>1, <1>3 DEF SetArrays
<1>5. f \in TrapFrames /\ f.reg = Paused(t, "user") /\ f.code = "none"
  BY <1>1, RegistersTyped DEF TrapFrames, Pcs
<1>6. f \in Frames
  BY <1>5 DEF Frames
<1> HIDE DEF f
<1>7. /\ stack' \in [Tasks -> Seq(Frames)] /\ \A u \in Tasks \ {t} : stack'[u] = stack[u]
      /\ stack'[t] # <<>> /\ Head(stack'[t]) = f /\ Tail(stack'[t]) = <<>>
  <2>1. stack' = [stack EXCEPT ![t] = <<f>>]
    BY <1>3
  <2>2. <<f>> \in Seq(Frames) /\ <<f>> # <<>> /\ Head(<<f>>) = f /\ Tail(<<f>>) = <<>>
    BY <1>6
  <2> QED BY <1>1, <2>1, <2>2 DEF TrapTypes
<1>8. /\ reg' \in [Processors -> Regs] /\ reg'[c] = Kernel(t, "return")
      /\ \A d \in Processors \ {c} : reg'[d] = reg[d]
      /\ reg'[c].pc = "return" /\ Cur(c)' = t
  <2>1. "return" \in Pcs /\ "return" # "user" /\ "return" # "off" /\ "entry" \in Pcs /\ "entry" # "user"
    BY DEF Pcs
  <2>2. reg[c].s7 = t /\ ~reg[c].user
    BY <1>1, <1>2, <2>1, RegistersTyped
  <2> QED BY <1>1, <1>3, <2>1, <2>2, JumpsOff, Zenon
<1>9. Plain(c, t, "user", <<>>)'
  BY <1>2, <1>3 DEF Plain, Works, places, spls
<1>10. Point(c, t)'
  BY <1>1, <1>5, <1>7, <1>8, <1>9, AtFrame DEF Pcs
<1>11. /\ cputhreads' \in [Processors -> Tasks \cup {Nowhere}] /\ cpustacks' \in [Processors -> Tasks \cup {Nowhere}]
       /\ \A d \in Processors \ {c} : cputhreads'[d] = cputhreads[d] /\ cpustacks'[d] = cpustacks[d]
       /\ cputhreads'[c] = t /\ cpustacks'[c] = t
  BY <1>1, <1>4 DEF TrapTypes
<1>12. TrapTypes'
  BY <1>1, <1>3, <1>7, <1>8, <1>11 DEF TrapTypes, places, spls
<1> QED BY <1>0, <1>3, <1>4, <1>7, <1>8, <1>10, <1>11, <1>12, OneProcessor DEF places, spls

\* A step of the kernel with interrupts on.
LEMMA Stepped ==
  ASSUME TrapTypes, NEW c \in Processors, NEW t \in Tasks, NEW from \in Pcs, NEW to \in Pcs, from # "user",
         to # "user", to # "off", reg[c] = Paused(t, from), Jump(c, to)
  PROVE  /\ reg' \in [Processors -> Regs] /\ reg'[c] = Paused(t, to)
         /\ \A d \in Processors \ {c} : reg'[d] = reg[d]
         /\ reg'[c].pc = to /\ Cur(c)' = t
<1> DEFINE x == [reg[c] EXCEPT !.pc = to]
<1>1. /\ Paused(t, from) \in Regs /\ Paused(t, from).user \in BOOLEAN /\ Paused(t, from).ie \in BOOLEAN
      /\ Paused(t, to) \in Regs /\ Paused(t, to).user \in BOOLEAN /\ Paused(t, to).ie \in BOOLEAN
  BY RegistersTyped DEF Regs
<1>2. /\ reg[c] \in Regs /\ reg[c].sp = t /\ reg[c].s7 = t /\ reg[c].user = FALSE /\ reg[c].ie = TRUE
      /\ Paused(t, to).pc = to /\ Paused(t, to).sp = t /\ Paused(t, to).s7 = t
      /\ Paused(t, to).user = FALSE /\ Paused(t, to).ie = TRUE
  BY <1>1, RegistersTyped
<1>3. x \in Regs /\ x.pc = to /\ x.sp = t /\ x.s7 = t /\ x.user = FALSE /\ x.ie = TRUE
  BY <1>2 DEF Regs
<1> HIDE DEF x
<1>4. x = Paused(t, to)
  BY <1>1, <1>2, <1>3, SameRegs
<1>5. reg' = [reg EXCEPT ![c] = x]
  BY DEF TrapTypes, x, Jump
<1>6. reg' \in [Processors -> Regs] /\ reg'[c] = x /\ \A d \in Processors \ {c} : reg'[d] = reg[d]
  BY <1>3, <1>5, RegSet, Zenon
<1>7. Cur(c)' = t
  BY <1>3, <1>6 DEF Cur
<1> QED BY <1>3, <1>4, <1>6, <1>7

\* A system call copies, from or to its program.
LEMMA CopyStep ==
  ASSUME TrapsAssumption, IInv, NEW c \in Processors, copy(c) PROVE IInv'
<1>0. PICK t, s, from, to : t = Cur(c) /\ s = stack[t] /\ from = reg[c].pc /\ to = IF from = "kernel" THEN "copy" ELSE "kernel"
  OBVIOUS
<1>1. /\ reg[c].sp = t /\ self(c) = t /\ t \in Tasks /\ Point(c, t) /\ TrapTypes
      /\ from \in {"kernel", "copy"} /\ raised[t] = 0 /\ s # <<>> /\ Head(s).code = "sys"
  <2>1. reg[c].pc \in {"kernel", "copy"} /\ ~reg[c].user
    BY DEF copy, Executes
  <2>2. reg[c].sp = t /\ self(c) = t /\ t \in Tasks /\ Point(c, t) /\ TrapTypes
    BY <1>0, <2>1, Acting DEF IInv
  <2> QED BY <1>0, <2>1, <2>2 DEF copy, Saved
<1>2. Jump(c, to) /\ UNCHANGED <<arrays, places, stack, spls, died>>
  BY <1>0 DEF copy
<1>3. reg[c] = Paused(t, from) /\ InSystemCall(t, s) /\ ~level[t] /\ raised[t] = 0 /\ t \notin in_irq /\ c \notin idling
  <2>1. CASE from = "kernel"
    <3>1. Calls(t, s) /\ reg[c] = Paused(t, from) /\ ~level[t] /\ t \notin in_irq /\ c \notin idling
      <4>1. reg[c].pc = "kernel"
        BY <1>0, <2>1
      <4> QED BY <1>0, <1>1, <2>1, <4>1, KernelAt
    <3>2. InSystemCall(t, s)
      BY <1>1, <3>1 DEF Calls, Over, InSystemCall
    <3> QED BY <1>1, <3>1, <3>2
  <2>2. CASE from = "copy"
    <3>1. reg[c].pc = "copy"
      BY <1>0, <2>2
    <3>2. reg[c] = Paused(t, "copy") /\ Plain(c, t, "copy", s)
      BY <1>0, <1>1, <3>1, PlainAt
    <3> QED BY <1>1, <2>2, <3>2 DEF Plain, Works
  <2> QED BY <1>1, <2>1, <2>2
<1>4. /\ reg' \in [Processors -> Regs] /\ reg'[c] = Paused(t, to)
      /\ \A d \in Processors \ {c} : reg'[d] = reg[d]
      /\ reg'[c].pc = to /\ Cur(c)' = t /\ to \in {"kernel", "copy"}
  <2>1. /\ from \in Pcs /\ to \in Pcs /\ from # "user" /\ to # "user" /\ to # "off" /\ to \in {"kernel", "copy"}
    BY <1>0, <1>1 DEF Pcs
  <2>2. /\ reg' \in [Processors -> Regs] /\ reg'[c] = Paused(t, to)
        /\ \A d \in Processors \ {c} : reg'[d] = reg[d]
        /\ reg'[c].pc = to /\ Cur(c)' = t
    BY <1>1, <1>2, <1>3, <2>1, Stepped
  <2> QED BY <2>1, <2>2
<1>5. Works(t, to, s)
  BY <1>3, <1>4 DEF Works, Calls, InSystemCall, Over
<1>6. Plain(c, t, to, s)'
  BY <1>2, <1>3, <1>5 DEF Plain, places, spls
<1>7. Point(c, t)'
  BY <1>0, <1>1, <1>2, <1>4, <1>6, AtWork DEF Pcs
<1>8. TrapTypes' /\ died' \in {"no", "fatal fault"}
  BY <1>1, <1>2, <1>4 DEF TrapTypes, arrays, places, spls, IInv
<1> QED BY <1>0, <1>2, <1>4, <1>7, <1>8, OneProcessor DEF arrays, places, spls

\* A spinlock taken in the kernel turns interrupts off; released, on.
LEMMA SpinStep ==
  ASSUME TrapsAssumption, IInv, NEW c \in Processors, Spin(c) PROVE IInv'
<1>0. PICK t, s : t = Cur(c) /\ s = stack[t]
  OBVIOUS
<1>1. reg[c].pc = "kernel" /\ reg[c].sp = t /\ self(c) = t /\ t \in Tasks /\ Point(c, t) /\ TrapTypes /\ reg[c] \in Regs
  <2>1. reg[c].pc = "kernel" /\ ~reg[c].user
    BY DEF Spin, Executes
  <2> QED BY <1>0, <2>1, Acting DEF IInv
<1>2. /\ Calls(t, s) /\ ~level[t] /\ t \notin in_irq /\ c \notin idling
      /\ \/ raised[t] = 0 /\ reg[c] = Paused(t, "kernel")
         \/ raised[t] = 1 /\ reg[c] = Kernel(t, "kernel")
  BY <1>0, <1>1, KernelAt
<1>3. /\ raised' = [raised EXCEPT ![t] = 1 - @]
      /\ reg' = [reg EXCEPT ![c].ie = ~@]
      /\ UNCHANGED <<arrays, places, stack, level, in_irq, died>>
  BY <1>1 DEF Spin
<1>4. /\ Paused(t, "kernel") \in Regs /\ Kernel(t, "kernel") \in Regs
      /\ Paused(t, "kernel").pc = "kernel" /\ Kernel(t, "kernel").pc = "kernel"
      /\ Paused(t, "kernel").sp = t /\ Kernel(t, "kernel").sp = t
      /\ Paused(t, "kernel").s7 = t /\ Kernel(t, "kernel").s7 = t
      /\ Paused(t, "kernel").user = FALSE /\ Kernel(t, "kernel").user = FALSE
      /\ Paused(t, "kernel").ie = TRUE /\ Kernel(t, "kernel").ie = FALSE
  <2>1. Paused(t, "kernel") \in Regs /\ Kernel(t, "kernel") \in Regs
    BY <1>1, RegistersTyped DEF Pcs
  <2>2. /\ Paused(t, "kernel").user \in BOOLEAN /\ Kernel(t, "kernel").user \in BOOLEAN
        /\ Paused(t, "kernel").ie \in BOOLEAN /\ Kernel(t, "kernel").ie \in BOOLEAN
    BY <2>1 DEF Regs
  <2> QED BY <1>1, <2>1, <2>2, RegistersTyped DEF Pcs
<1> DEFINE x == [reg[c] EXCEPT !.ie = ~reg[c].ie]
<1>5. reg' = [reg EXCEPT ![c] = x]
  BY <1>1, <1>3 DEF TrapTypes
<1>6. \/ raised[t] = 0 /\ x = Kernel(t, "kernel")
      \/ raised[t] = 1 /\ x = Paused(t, "kernel")
  <2>1. CASE raised[t] = 0 /\ reg[c] = Paused(t, "kernel")
    <3>1. x = [reg[c] EXCEPT !.ie = FALSE]
      BY <1>4, <2>1
    <3>2. x \in Regs /\ x.pc = "kernel" /\ x.sp = t /\ x.s7 = t /\ x.user = FALSE /\ x.ie = FALSE
      <4> HIDE DEF x
      <4> QED BY <1>1, <1>4, <2>1, <3>1 DEF Regs
    <3> HIDE DEF x
    <3> QED BY <1>4, <2>1, <3>2, SameRegs
  <2>2. CASE raised[t] = 1 /\ reg[c] = Kernel(t, "kernel")
    <3>1. x = [reg[c] EXCEPT !.ie = TRUE]
      BY <1>4, <2>2
    <3>2. x \in Regs /\ x.pc = "kernel" /\ x.sp = t /\ x.s7 = t /\ x.user = FALSE /\ x.ie = TRUE
      <4> HIDE DEF x
      <4> QED BY <1>1, <1>4, <2>2, <3>1 DEF Regs
    <3> HIDE DEF x
    <3> QED BY <1>4, <2>2, <3>2, SameRegs
  <2> QED BY <1>2, <2>1, <2>2
<1> HIDE DEF x
<1>7. x \in Regs /\ x.pc = "kernel" /\ x.sp = t
  BY <1>4, <1>6
<1>8. reg' \in [Processors -> Regs] /\ reg'[c] = x /\ \A d \in Processors \ {c} : reg'[d] = reg[d]
  BY <1>5, <1>7, <1>1, RegSet, Zenon
<1>9. Cur(c)' = t /\ reg'[c].pc = "kernel"
  BY <1>7, <1>8 DEF Cur
<1>10. /\ raised' \in [Tasks -> Nat] /\ raised'[t] = 1 - raised[t] /\ \A u \in Tasks \ {t} : raised'[u] = raised[u]
  <2>1. raised[t] \in {0, 1} /\ raised' = [raised EXCEPT ![t] = 1 - raised[t]]
    BY <1>2, <1>3
  <2>2. 1 - raised[t] \in Nat
    BY <2>1
  <2> QED BY <1>1, <2>1, <2>2, RaisedSet
<1>11. Point(c, t)'
  <2>1. CASE raised[t] = 0 /\ x = Kernel(t, "kernel")
    <3>1. reg'[c] = Kernel(t, "kernel") /\ raised'[t] = 1
      BY <1>8, <1>10, <2>1
    <3> QED BY <1>0, <1>2, <1>3, <3>1 DEF Point, places
  <2>2. CASE raised[t] = 1 /\ x = Paused(t, "kernel")
    <3>1. reg'[c] = Paused(t, "kernel") /\ raised'[t] = 0 /\ stack'[t] = s
      BY <1>0, <1>3, <1>8, <1>10, <2>2
    <3>2. Plain(c, t, "kernel", s)'
      BY <1>2, <1>3, <3>1 DEF Plain, Works, places
    <3> QED BY <1>1, <3>1, <3>2, AtWork DEF Pcs
  <2> QED BY <1>6, <2>1, <2>2
<1>12. TrapTypes' /\ died' \in {"no", "fatal fault"}
  BY <1>1, <1>3, <1>8, <1>10 DEF TrapTypes, arrays, places, IInv
<1> QED BY <1>0, <1>3, <1>8, <1>9, <1>10, <1>11, <1>12, OneProcessor DEF arrays, places

\* A processor starts as its first thread.
LEMMA StartStep ==
  ASSUME TrapsAssumption, IInv, NEW c \in Processors, cpu_start_secondary(c) PROVE IInv'
<1>0. PICK t, s : t = Cur(c) /\ s = stack[t]
  OBVIOUS
<1>1. reg[c].pc = "off" /\ t \in Tasks /\ Point(c, t) /\ TrapTypes /\ cputhreads[c] = t /\ cpustacks[c] = t
  <2>1. reg[c].pc = "off"
    BY DEF cpu_start_secondary, Executes
  <2> QED BY <1>0, <2>1 DEF IInv, Placed, Points, ArraysReady, Found
<1>2. s = <<>> /\ level[t] /\ raised[t] = 1 /\ t \notin in_irq /\ c \notin idling
  BY <1>0, <1>1, KernelAt
<1>3. reg' = [reg EXCEPT ![c] = Kernel(t, "hatch")] /\ UNCHANGED <<arrays, places, stack, spls, died>>
  BY <1>1 DEF cpu_start_secondary, Kernel
<1>4. Kernel(t, "hatch") \in Regs /\ Kernel(t, "hatch").pc = "hatch" /\ Kernel(t, "hatch").sp = t
  BY <1>1, RegistersTyped DEF Pcs
<1>5. /\ reg' \in [Processors -> Regs] /\ reg'[c] = Kernel(t, "hatch") /\ \A d \in Processors \ {c} : reg'[d] = reg[d]
  BY <1>1, <1>3, <1>4 DEF TrapTypes
<1>6. reg'[c].pc = "hatch" /\ Cur(c)' = t
  BY <1>4, <1>5 DEF Cur
<1>7. Point(c, t)'
  BY <1>0, <1>2, <1>3, <1>5 DEF Point, places, spls
<1>8. TrapTypes' /\ died' \in {"no", "fatal fault"}
  BY <1>1, <1>3, <1>5 DEF TrapTypes, arrays, places, spls, IInv
<1> QED BY <1>0, <1>3, <1>5, <1>6, <1>7, <1>8, OneProcessor DEF arrays, places, spls

\* cpu_hatch lowers the level that cpu_create raised.
LEMMA HatchStep ==
  ASSUME TrapsAssumption, IInv, NEW c \in Processors, cpu_hatch(c) PROVE IInv'
<1>0. PICK t, s : t = Cur(c) /\ s = stack[t]
  OBVIOUS
<1>1. /\ reg[c].pc = "hatch" /\ reg[c].sp = t /\ self(c) = t /\ t \in Tasks /\ Point(c, t) /\ TrapTypes
      /\ ~reg[c].user /\ reg[c].s7 = t
  <2>1. reg[c].pc = "hatch" /\ ~reg[c].user
    BY DEF cpu_hatch, Executes
  <2> QED BY <1>0, <2>1, Acting DEF IInv, self
<1>2. s = <<>> /\ t \notin in_irq /\ c \notin idling
  BY <1>0, <1>1, KernelAt
<1>3. /\ reg' = [reg EXCEPT ![c].pc = "kernel", ![c].ie = TRUE]
      /\ level' = [level EXCEPT ![t] = FALSE] /\ raised' = [raised EXCEPT ![t] = 0]
      /\ UNCHANGED <<arrays, places, stack, in_irq, died>>
  BY <1>1 DEF cpu_hatch
<1>4. /\ reg' \in [Processors -> Regs] /\ reg'[c] = Paused(t, "kernel")
      /\ \A d \in Processors \ {c} : reg'[d] = reg[d]
      /\ reg'[c].pc = "kernel" /\ Cur(c)' = t
  <2>1. "kernel" \in Pcs /\ "kernel" # "user" /\ "kernel" # "off"
    BY DEF Pcs
  <2> QED BY <1>1, <1>3, <2>1, JumpsOn, Zenon
<1>5. level' \in [Tasks -> BOOLEAN] /\ level'[t] = FALSE /\ \A u \in Tasks \ {t} : level'[u] = level[u]
  BY <1>1, <1>3 DEF TrapTypes
<1>6. raised' \in [Tasks -> Nat] /\ raised'[t] = 0 /\ \A u \in Tasks \ {t} : raised'[u] = raised[u]
  BY <1>1, <1>3 DEF TrapTypes
<1>7. Plain(c, t, "kernel", s)'
  BY <1>2, <1>3, <1>5, <1>6 DEF Plain, Works, Calls, places
<1>8. Point(c, t)'
  BY <1>0, <1>1, <1>3, <1>4, <1>7, AtWork DEF Pcs
<1>9. TrapTypes' /\ died' \in {"no", "fatal fault"}
  BY <1>1, <1>3, <1>4, <1>5, <1>6 DEF TrapTypes, arrays, places, IInv
<1> QED BY <1>0, <1>3, <1>4, <1>5, <1>6, <1>8, <1>9, OneProcessor DEF arrays, places

\* A processor without work idles as the thread it was.
LEMMA IdleStep ==
  ASSUME TrapsAssumption, IInv, NEW c \in Processors, cpu_idle(c) PROVE IInv'
<1>0. PICK t, s : t = Cur(c) /\ s = stack[t]
  OBVIOUS
<1>1. /\ reg[c].pc \in {"pick", "idle"} /\ reg[c].sp = t /\ self(c) = t /\ t \in Tasks /\ Point(c, t) /\ TrapTypes
      /\ ~reg[c].user /\ reg[c].s7 = t
  <2>1. reg[c].pc \in {"pick", "idle"} /\ ~reg[c].user
    BY DEF cpu_idle, Executes
  <2> QED BY <1>0, <2>1, Acting DEF IInv, self
<1>2. UNCHANGED <<arrays, places, stack, level, in_irq, died>>
  BY DEF cpu_idle
<1>3. /\ Switched(t, s) /\ level[t] /\ c \in idling /\ (t \in in_irq <=> Head(s).pc = "handler")
      /\ reg[c].pc = "pick" => raised[t] = 2
      /\ reg[c].pc = "idle" => raised[t] = 1
  <2>1. CASE reg[c].pc = "pick"
    BY <1>0, <1>1, <2>1, KernelAt
  <2>2. CASE reg[c].pc = "idle"
    <3>1. Plain(c, t, "idle", s)
      BY <1>0, <1>1, <2>2, PlainAt
    <3> QED BY <2>2, <3>1 DEF Plain, Works
  <2> QED BY <1>1, <2>1, <2>2
<1>4. CASE reg[c].pc = "pick"
  <2>1. reg' = [reg EXCEPT ![c].pc = "idle", ![c].ie = TRUE] /\ raised' = [raised EXCEPT ![t] = 1]
    <3>1. (reg[c].pc = "pick") = TRUE
      BY <1>4
    <3>2. reg' = [reg EXCEPT ![c].pc = "idle", ![c].ie = TRUE]
      BY <3>1, Zenon DEF cpu_idle
    <3>3. raised' = [raised EXCEPT ![t] = @ - 1]
      BY <1>1, <3>1, Zenon DEF cpu_idle
    <3>4. raised[t] - 1 = 1
      BY <1>3, <1>4
    <3> QED BY <3>2, <3>3, <3>4, Zenon
  <2>2. /\ reg' \in [Processors -> Regs] /\ reg'[c] = Paused(t, "idle")
        /\ \A d \in Processors \ {c} : reg'[d] = reg[d]
        /\ reg'[c].pc = "idle" /\ Cur(c)' = t
    <3>1. "idle" \in Pcs /\ "idle" # "user" /\ "idle" # "off"
      BY DEF Pcs
    <3> QED BY <1>1, <2>1, <3>1, JumpsOn, Zenon
  <2>3. raised' \in [Tasks -> Nat] /\ raised'[t] = 1 /\ \A u \in Tasks \ {t} : raised'[u] = raised[u]
    BY <1>1, <2>1, RaisedSet
  <2>4. Plain(c, t, "idle", s)'
    BY <1>2, <1>3, <2>3 DEF Plain, places
  <2>5. Point(c, t)'
    BY <1>0, <1>1, <1>2, <2>2, <2>4, AtWork DEF Pcs
  <2>6. TrapTypes' /\ died' \in {"no", "fatal fault"}
    BY <1>1, <1>2, <2>2, <2>3 DEF TrapTypes, arrays, places, IInv
  <2> QED BY <1>0, <1>2, <2>2, <2>3, <2>5, <2>6, OneProcessor DEF arrays, places
<1>5. CASE reg[c].pc = "idle"
  <2>1. reg' = [reg EXCEPT ![c].pc = "pick", ![c].ie = FALSE] /\ raised' = [raised EXCEPT ![t] = 2]
    <3>1. (reg[c].pc = "pick") = FALSE
      BY <1>5
    <3>2. reg' = [reg EXCEPT ![c].pc = "pick", ![c].ie = FALSE]
      BY <3>1, Zenon DEF cpu_idle
    <3>3. raised' = [raised EXCEPT ![t] = @ + 1]
      BY <1>1, <3>1, Zenon DEF cpu_idle
    <3>4. raised[t] + 1 = 2
      BY <1>3, <1>5
    <3> QED BY <3>2, <3>3, <3>4, Zenon
  <2>2. /\ reg' \in [Processors -> Regs] /\ reg'[c] = Kernel(t, "pick")
        /\ \A d \in Processors \ {c} : reg'[d] = reg[d]
        /\ reg'[c].pc = "pick" /\ Cur(c)' = t
    <3>1. "pick" \in Pcs /\ "pick" # "user" /\ "pick" # "off"
      BY DEF Pcs
    <3> QED BY <1>1, <2>1, <3>1, JumpsOff, Zenon
  <2>3. raised' \in [Tasks -> Nat] /\ raised'[t] = 2 /\ \A u \in Tasks \ {t} : raised'[u] = raised[u]
    BY <1>1, <2>1, RaisedSet
  <2>4. Point(c, t)'
    BY <1>0, <1>2, <1>3, <2>2, <2>3 DEF Point, places
  <2>5. TrapTypes' /\ died' \in {"no", "fatal fault"}
    BY <1>1, <1>2, <2>2, <2>3 DEF TrapTypes, arrays, places, IInv
  <2> QED BY <1>0, <1>2, <2>2, <2>3, <2>4, <2>5, OneProcessor DEF arrays, places
<1> QED BY <1>1, <1>4, <1>5

\* A thread gives the processor up: what it needs to go on is on its stack.
LEMMA SwitchStep ==
  ASSUME TrapsAssumption, IInv, NEW c \in Processors, NEW new \in {"ready", "sleep", "dead"}, thread_switch(c, new)
  PROVE  IInv'
<1>0. PICK t, s, pc, old : t = Cur(c) /\ s = stack[t] /\ pc = reg[c].pc /\ old = level[t]
  OBVIOUS
<1>1. /\ pc \in {"kernel", "handler"} /\ reg[c].sp = t /\ self(c) = t /\ t \in Tasks /\ Point(c, t) /\ s \in Seq(Frames)
      /\ TrapTypes /\ ~reg[c].user /\ reg[c].s7 = t /\ old \in BOOLEAN /\ raised[t] \in Nat
  <2>1. reg[c].pc \in {"kernel", "handler"} /\ ~reg[c].user
    BY DEF thread_switch, Executes
  <2> QED BY <1>0, <2>1, Acting DEF IInv, self
<1> DEFINE f == [pc |-> pc, old |-> old]
<1>2. /\ pc = "kernel" => raised[t] = 0
      /\ c \notin idling
      /\ stack' = [stack EXCEPT ![t] = <<f>> \o s]
      /\ level' = [level EXCEPT ![t] = TRUE]
      /\ raised' = [raised EXCEPT ![t] = @ + (IF old THEN 1 ELSE 2)]
      /\ reg' = [reg EXCEPT ![c].pc = "pick", ![c].ie = FALSE]
      /\ idling' = idling \cup {c} /\ UNCHANGED <<arrays, runs_on, in_irq, died>>
  BY <1>0, <1>1 DEF thread_switch
<1>3. \/ pc = "kernel" /\ ~old /\ raised[t] = 0 /\ Works(t, "kernel", s) /\ t \notin in_irq
      \/ pc = "handler" /\ old /\ raised[t] = 1 /\ Handles(t, s) /\ t \in in_irq
  <2>1. CASE pc = "kernel"
    <3>1. reg[c].pc = "kernel"
      BY <1>0, <2>1
    <3>2. Calls(t, s) /\ ~level[t] /\ t \notin in_irq
      BY <1>0, <1>1, <3>1, KernelAt
    <3> QED BY <1>0, <1>2, <2>1, <3>2 DEF Works
  <2>2. CASE pc = "handler"
    <3>1. reg[c].pc = "handler"
      BY <1>0, <2>2
    <3>2. Handles(t, s) /\ level[t] /\ raised[t] = 1 /\ t \in in_irq
      BY <1>0, <1>1, <1>2, <3>1, KernelAt
    <3> QED BY <1>0, <2>2, <3>2
  <2> QED BY <1>1, <2>1, <2>2
<1>4. raised' = [raised EXCEPT ![t] = 2]
  <2>1. raised' = [raised EXCEPT ![t] = raised[t] + (IF old THEN 1 ELSE 2)]
    BY <1>2
  <2>2. raised[t] + (IF old THEN 1 ELSE 2) = 2
    BY <1>3
  <2> QED BY <2>1, <2>2
<1>5. f \in SwitchFrames /\ f \in Frames /\ f.pc = pc /\ f.old = old
  BY <1>1 DEF SwitchFrames, Frames, Pcs
<1>6. stack' = [stack EXCEPT ![t] = <<f>> \o s]
  BY <1>2
<1> HIDE DEF f
<1>7. /\ stack' \in [Tasks -> Seq(Frames)] /\ \A u \in Tasks \ {t} : stack'[u] = stack[u]
      /\ stack'[t] # <<>> /\ Head(stack'[t]) = f /\ Tail(stack'[t]) = s
  BY <1>1, <1>5, <1>6, StackSet
<1>8. /\ reg' \in [Processors -> Regs] /\ reg'[c] = Kernel(t, "pick")
      /\ \A d \in Processors \ {c} : reg'[d] = reg[d]
      /\ reg'[c].pc = "pick" /\ Cur(c)' = t
  <2>1. "pick" \in Pcs /\ "pick" # "user" /\ "pick" # "off" /\ reg' = [reg EXCEPT ![c].pc = "pick", ![c].ie = FALSE]
    BY <1>2 DEF Pcs
  <2> QED BY <1>1, <2>1, JumpsOff, Zenon
<1>9. level' \in [Tasks -> BOOLEAN] /\ level'[t] = TRUE /\ \A u \in Tasks \ {t} : level'[u] = level[u]
  BY <1>1, <1>2 DEF TrapTypes
<1>10. raised' \in [Tasks -> Nat] /\ raised'[t] = 2 /\ \A u \in Tasks \ {t} : raised'[u] = raised[u]
  BY <1>1, <1>4, RaisedSet
<1>11. Switched(t, stack'[t])
  <2>1. CASE pc = "kernel" /\ ~old /\ Works(t, "kernel", s)
    BY <1>5, <1>7, <2>1 DEF Switched
  <2>2. CASE pc = "handler" /\ old /\ Handles(t, s)
    BY <1>5, <1>7, <2>2 DEF Switched
  <2> QED BY <1>3, <2>1, <2>2
<1>12. /\ t \in in_irq' <=> Head(stack'[t]).pc = "handler"
       /\ \A u \in Tasks : u \in in_irq' <=> u \in in_irq
       /\ \A d \in Processors \ {c} : d \in idling' <=> d \in idling
       /\ c \in idling'
  BY <1>2, <1>3, <1>5, <1>7
<1>13. Point(c, t)'
  BY <1>8, <1>9, <1>10, <1>11, <1>12 DEF Point
<1>14. TrapTypes' /\ died' \in {"no", "fatal fault"}
  BY <1>1, <1>2, <1>7, <1>8, <1>9, <1>10 DEF TrapTypes, arrays, IInv
<1> QED BY <1>0, <1>2, <1>7, <1>8, <1>9, <1>10, <1>12, <1>13, <1>14, OneProcessor DEF arrays

\* ... and gets it back: the level is what it was.
LEMMA ResumeStep ==
  ASSUME TrapsAssumption, IInv, NEW c \in Processors, Resume(c) PROVE IInv'
<1>0. PICK t, s, f, w, pc, old, n : t = Cur(c) /\ s = stack[t] /\ f = Head(s) /\ w = Tail(s) /\ pc = f.pc /\ old = f.old
                                    /\ n = raised[t] - (IF old THEN 1 ELSE 2)
  OBVIOUS
<1>1. /\ reg[c].pc = "resume" /\ reg[c].sp = t /\ self(c) = t /\ t \in Tasks /\ Point(c, t) /\ s \in Seq(Frames)
      /\ TrapTypes /\ ~reg[c].user /\ reg[c].s7 = t
  <2>1. reg[c].pc = "resume" /\ ~reg[c].user
    BY DEF Resume, Executes
  <2> QED BY <1>0, <2>1, Acting DEF IInv, self
<1>2. /\ level' = [level EXCEPT ![t] = old] /\ raised' = [raised EXCEPT ![t] = n]
      /\ reg' = [reg EXCEPT ![c].pc = pc, ![c].ie = ~old /\ n = 0]
      /\ stack' = [stack EXCEPT ![t] = w]
      /\ UNCHANGED <<arrays, places, in_irq, died>>
  BY <1>0, <1>1 DEF Resume, Saved
<1>3. /\ Switched(t, s) /\ level[t] /\ raised[t] = 2
      /\ t \in in_irq <=> pc = "handler"
      /\ c \notin idling
  BY <1>0, <1>1, KernelAt
<1>4. /\ s # <<>> /\ f \in SwitchFrames
      /\ \/ pc = "handler" /\ old /\ Handles(t, w)
         \/ pc \in {"kernel", "entry"} /\ ~old /\ Works(t, pc, w)
  BY <1>0, <1>3 DEF Switched
<1>5. w \in Seq(Frames) /\ old \in BOOLEAN /\ pc \in Pcs
  BY <1>0, <1>1, <1>4, Popped DEF SwitchFrames
<1>6. stack' \in [Tasks -> Seq(Frames)] /\ stack'[t] = w /\ \A u \in Tasks \ {t} : stack'[u] = stack[u]
  BY <1>1, <1>2, <1>5 DEF TrapTypes
<1>7. level' \in [Tasks -> BOOLEAN] /\ level'[t] = old /\ \A u \in Tasks \ {t} : level'[u] = level[u]
  BY <1>1, <1>2, <1>5, LevelSet
<1>8. n \in Nat /\ (old => n = 1) /\ (~old => n = 0)
  BY <1>0, <1>3, <1>5
<1>9. raised' \in [Tasks -> Nat] /\ raised'[t] = n /\ \A u \in Tasks \ {t} : raised'[u] = raised[u]
  BY <1>1, <1>2, <1>8, RaisedSet
<1>10. CASE pc = "handler" /\ old /\ Handles(t, w)
  <2>1. reg' = [reg EXCEPT ![c].pc = "handler", ![c].ie = FALSE]
    <3>1. (~old /\ n = 0) = FALSE
      BY <1>10
    <3>2. pc = "handler"
      BY <1>10
    <3>3. reg' = [reg EXCEPT ![c].pc = pc, ![c].ie = ~old /\ n = 0]
      BY <1>2
    <3> QED BY <3>1, <3>2, <3>3, Zenon
  <2>2. /\ reg' \in [Processors -> Regs] /\ reg'[c] = Kernel(t, "handler")
        /\ \A d \in Processors \ {c} : reg'[d] = reg[d]
        /\ reg'[c].pc = "handler" /\ Cur(c)' = t
    <3>1. "handler" \in Pcs /\ "handler" # "user" /\ "handler" # "off"
      BY DEF Pcs
    <3> QED BY <1>1, <2>1, <3>1, JumpsOff, Zenon
  <2>3. Point(c, t)'
    BY <1>2, <1>3, <1>6, <1>7, <1>8, <1>9, <1>10, <2>2 DEF Point, places
  <2>4. TrapTypes' /\ died' \in {"no", "fatal fault"}
    BY <1>1, <1>2, <1>6, <1>7, <1>9, <2>2 DEF TrapTypes, arrays, places, IInv
  <2> QED BY <1>0, <1>2, <1>6, <1>7, <1>9, <2>2, <2>3, <2>4, OneProcessor DEF arrays, places
<1>11. CASE pc \in {"kernel", "entry"} /\ ~old /\ Works(t, pc, w)
  <2>1. reg' = [reg EXCEPT ![c].pc = pc, ![c].ie = TRUE]
    <3>1. (~old /\ n = 0) = TRUE
      BY <1>8, <1>11
    <3>2. reg' = [reg EXCEPT ![c].pc = pc, ![c].ie = ~old /\ n = 0]
      BY <1>2
    <3> QED BY <3>1, <3>2, Zenon
  <2>2. /\ reg' \in [Processors -> Regs] /\ reg'[c] = Paused(t, pc)
        /\ \A d \in Processors \ {c} : reg'[d] = reg[d]
        /\ reg'[c].pc = pc /\ Cur(c)' = t
    <3>1. pc \in Pcs /\ pc # "user" /\ pc # "off"
      BY <1>11 DEF Pcs
    <3> QED BY <1>1, <2>1, <3>1, JumpsOn, Zenon
  <2>3. Plain(c, t, pc, w)'
    <3>1. t \notin in_irq /\ ~old /\ n = 0
      BY <1>3, <1>8, <1>11
    <3> QED BY <1>2, <1>3, <1>7, <1>9, <1>11, <3>1 DEF Plain, places
  <2>4. Point(c, t)'
    BY <1>1, <1>5, <1>6, <2>2, <2>3, AtWork
  <2>5. TrapTypes' /\ died' \in {"no", "fatal fault"}
    BY <1>1, <1>2, <1>6, <1>7, <1>9, <2>2 DEF TrapTypes, arrays, places, IInv
  <2> QED BY <1>0, <1>2, <1>6, <1>7, <1>9, <1>11, <2>2, <2>4, <2>5, OneProcessor DEF arrays, places
<1> QED BY <1>4, <1>10, <1>11

\* A thread on a run queue that is not the one its processor is on waits.
LEMMA Queued ==
  ASSUME IInv, NEW c \in Processors, NEW u \in Tasks, runs_on[u] = c, u # Cur(c)
  PROVE  Waiting(u)
BY DEF IInv, Waits

\* A thread is on no processor but the one it runs on.
LEMMA Alone ==
  ASSUME IInv, NEW c \in Processors, NEW d \in Processors \ {c}, NEW u, runs_on[u] = c
  PROVE  Cur(d) # u
BY DEF IInv, Placed

\* The processor goes over to the stack of a thread of its queue: from then on
\* it is that thread which runs, and the other waits.
LEMMA SwitchframeStep ==
  ASSUME TrapsAssumption, IInv, NEW c \in Processors, NEW u \in Tasks, switchframe_switch(c, u) PROVE IInv'
<1>0. PICK t : t = Cur(c)
  OBVIOUS
<1>1. /\ reg[c].pc = "pick" /\ reg[c].sp = t /\ t \in Tasks /\ Point(c, t) /\ TrapTypes /\ runs_on[t] = c
  <2>1. reg[c].pc = "pick" /\ ~reg[c].user
    BY DEF switchframe_switch, Executes
  <2> QED BY <1>0, <2>1, Acting DEF IInv, Placed
<1>2. /\ runs_on[u] = c /\ idling' = idling \ {c} /\ reg' = [reg EXCEPT ![c] = Kernel(u, "resume")]
      /\ UNCHANGED <<arrays, runs_on, stack, spls, died>>
  BY DEF switchframe_switch, Queue
<1>3. Waiting(t)
  BY <1>1, KernelAt DEF Waiting
<1>4. Waiting(u)
  BY <1>0, <1>2, <1>3, Queued
<1>5. UNCHANGED <<cputhreads, cpustacks, runs_on, stack, level, raised, in_irq, died>>
  BY <1>2 DEF arrays, spls
<1>6. Kernel(u, "resume") \in Regs /\ Kernel(u, "resume").pc = "resume" /\ Kernel(u, "resume").sp = u
  BY RegistersTyped DEF Pcs
<1>7. /\ reg' \in [Processors -> Regs] /\ reg'[c] = Kernel(u, "resume") /\ \A d \in Processors \ {c} : reg'[d] = reg[d]
  BY <1>1, <1>2, <1>6 DEF TrapTypes
<1>8. reg'[c].pc = "resume" /\ Cur(c)' = u
  BY <1>6, <1>7 DEF Cur
<1>9. TrapTypes'
  BY <1>1, <1>2, <1>5, <1>7 DEF TrapTypes
<1>10. Point(c, u)'
  <2>1. /\ Switched(u, stack[u]) /\ level[u] /\ raised[u] = 2
        /\ u \in in_irq <=> Head(stack[u]).pc = "handler"
    BY <1>4 DEF Waiting
  <2>2. c \notin idling'
    BY <1>2
  <2> QED BY <1>5, <1>7, <1>8, <2>1, <2>2 DEF Point
<1>11. Placed'
  <2> SUFFICES ASSUME NEW d \in Processors
               PROVE  Cur(d)' \in Tasks /\ runs_on[Cur(d)'] = d
    BY <1>5 DEF Placed
  <2>1. CASE d = c
    BY <1>2, <1>8, <2>1
  <2>2. CASE d # c
    <3>1. Cur(d)' = Cur(d)
      BY <1>7, <2>2 DEF Cur
    <3> QED BY <3>1 DEF IInv, Placed
  <2> QED BY <2>1, <2>2
<1>12. Points'
  <2> SUFFICES ASSUME NEW d \in Processors, NEW v, v = Cur(d)'
               PROVE  Point(d, v)'
    BY DEF Points
  <2>1. CASE d = c
    BY <1>8, <1>10, <2>1
  <2>2. CASE d # c
    <3>1. Cur(d)' = Cur(d)
      BY <1>7, <2>2 DEF Cur
    <3>2. Point(d, v)
      BY <3>1 DEF IInv, Points
    <3>3. reg'[d] = reg[d] /\ (d \in idling' <=> d \in idling)
      BY <1>2, <1>7, <2>2
    <3>4. Plain(d, v, reg[d].pc, stack[v])' <=> Plain(d, v, reg[d].pc, stack[v])
      BY <1>5, <3>3 DEF Plain
    <3>5. Plain(d, v, Head(stack[v]).reg.pc, Tail(stack[v]))' <=> Plain(d, v, Head(stack[v]).reg.pc, Tail(stack[v]))
      BY <1>5, <3>3 DEF Plain
    <3> QED BY <1>5, <3>2, <3>3, <3>4, <3>5 DEF Point
  <2> QED BY <2>1, <2>2
<1>13. Waits'
  <2> SUFFICES ASSUME NEW v \in Tasks, v # Cur(runs_on[v])'
               PROVE  Waiting(v)'
    BY DEF Waits
  <2>1. Waiting(v)
    <3>1. CASE runs_on[v] = c
      BY <1>0, <1>3, <3>1, Queued
    <3>2. CASE runs_on[v] # c
      <4>1. runs_on[v] \in Processors /\ runs_on'[v] = runs_on[v]
        BY <1>1, <1>5 DEF TrapTypes
      <4>2. v # Cur(runs_on[v])
        BY <1>7, <3>2, <4>1 DEF Cur
      <4> QED BY <4>2 DEF IInv, Waits
    <3> QED BY <3>1, <3>2
  <2> QED BY <1>5, <2>1 DEF Waiting
<1>14. ArraysReady'
  <2> SUFFICES ASSUME NEW d \in Processors,
                      \/ reg'[d].pc \in {"off", "user"}
                      \/ reg'[d].pc = "return" /\ Head(stack'[Cur(d)']).reg.pc = "user"
               PROVE  cputhreads'[d] = Cur(d)' /\ cpustacks'[d] = Cur(d)'
    BY DEF ArraysReady, Found
  <2>1. d # c
    BY <1>8
  <2>2. Cur(d)' = Cur(d) /\ reg'[d] = reg[d]
    BY <1>7, <2>1 DEF Cur
  <2>3. Found(d)
    BY <1>5, <2>2 DEF IInv, ArraysReady
  <2> QED BY <1>5, <2>2, <2>3 DEF Found
<1> QED BY <1>5, <1>9, <1>11, <1>12, <1>13, <1>14 DEF IInv

\* The clock gives a waiting thread to another processor: nobody is on it.
LEMMA MigrateStep ==
  ASSUME TrapsAssumption, IInv, NEW c \in Processors, NEW u \in Tasks, NEW d \in Processors, Migrate(c, u, d) PROVE IInv'
<1>1. /\ reg[c].pc = "handler" /\ ~reg[c].user /\ runs_on[u] = c /\ u # self(c)
      /\ runs_on' = [runs_on EXCEPT ![u] = d]
      /\ UNCHANGED <<reg, cputhreads, cpustacks, idling, stack, level, raised, in_irq, died>>
  BY DEF Migrate, MayMove, Executes, arrays, spls
<1>2. self(c) = Cur(c) /\ u # Cur(c)
  BY <1>1, Acting
<1>3. Waiting(u)
  BY <1>1, <1>2, Queued
<1>4. \A e \in Processors : Cur(e) # u
  BY <1>1, <1>2, Alone
<1>5. runs_on' \in [Tasks -> Processors] /\ \A v \in Tasks \ {u} : runs_on'[v] = runs_on[v]
  BY <1>1 DEF IInv, TrapTypes
<1>6. TrapTypes'
  BY <1>1, <1>5 DEF IInv, TrapTypes
<1>7. Placed'
  <2> SUFFICES ASSUME NEW e \in Processors
               PROVE  Cur(e)' \in Tasks /\ runs_on'[Cur(e)'] = e
    BY DEF Placed
  <2>1. Cur(e)' = Cur(e)
    BY <1>1 DEF Cur
  <2>2. Cur(e) \in Tasks /\ runs_on[Cur(e)] = e
    BY DEF IInv, Placed
  <2> QED BY <1>4, <1>5, <2>1, <2>2
<1>8. Points'
  <2> SUFFICES ASSUME NEW e \in Processors, NEW v, v = Cur(e)' PROVE Point(e, v)'
    BY DEF Points
  <2>1. Point(e, v)
    BY <1>1 DEF IInv, Points, Cur
  <2>2. Plain(e, v, reg[e].pc, stack[v])' <=> Plain(e, v, reg[e].pc, stack[v])
    BY <1>1 DEF Plain
  <2>3. Plain(e, v, Head(stack[v]).reg.pc, Tail(stack[v]))' <=> Plain(e, v, Head(stack[v]).reg.pc, Tail(stack[v]))
    BY <1>1 DEF Plain
  <2> QED BY <1>1, <2>1, <2>2, <2>3 DEF Point
<1>9. Waits'
  <2> SUFFICES ASSUME NEW v \in Tasks, v # Cur(runs_on[v])'
               PROVE  Waiting(v)'
    BY DEF Waits
  <2>1. Waiting(v)
    <3>1. CASE v = u
      BY <1>3, <3>1
    <3>2. CASE v # u
      <4>1. runs_on'[v] = runs_on[v]
        BY <1>5, <3>2
      <4>2. v # Cur(runs_on[v])
        BY <1>1, <4>1 DEF Cur
      <4> QED BY <4>2 DEF IInv, Waits
    <3> QED BY <3>1, <3>2
  <2> QED BY <1>1, <2>1 DEF Waiting
<1>10. ArraysReady'
  BY <1>1 DEF IInv, ArraysReady, Found, Cur
<1> QED BY <1>1, <1>6, <1>7, <1>8, <1>9, <1>10 DEF IInv

\* The system starts with the boot processor in its first thread, the others off,
\* and every process's thread as thread_fork left it.
LEMMA Starts == ASSUME TrapsAssumption PROVE TrapInit => IInv
<1> SUFFICES ASSUME TrapInit PROVE IInv
  OBVIOUS
<1> DEFINE First(t) == \E c \in Processors : FirstTask[c] = t
<1>1. /\ BootTask \in Tasks /\ BootCpu \in Processors /\ Nowhere \notin Tasks
      /\ \A c \in Processors : FirstTask[c] \in Tasks /\ (FirstTask[c] = BootTask <=> c = BootCpu)
      /\ \A c, d \in Processors : FirstTask[c] = FirstTask[d] => c = d
  BY DEF TrapsAssumption, BootTask
<1>2. \A c \in Processors : First(FirstTask[c]) /\ (CHOOSE d \in Processors : FirstTask[d] = FirstTask[c]) = c
  BY <1>1
<1>3. /\ cpustacks = [c \in Processors |-> IF HasStack(FirstTask[c]) THEN FirstTask[c] ELSE Nowhere]
      /\ cputhreads = cpustacks
      /\ stack = [t \in Tasks |-> IF First(t) THEN <<>> ELSE <<[pc |-> "entry", old |-> FALSE]>>]
      /\ reg = [c \in Processors |-> IF c = BootCpu THEN [Kernel(BootTask, "kernel") EXCEPT !.ie = TRUE] ELSE Kernel(Nowhere, "off")]
      /\ idling = {} /\ in_irq = {} /\ died = "no"
      /\ runs_on = [t \in Tasks |-> IF First(t) THEN CHOOSE c \in Processors : FirstTask[c] = t ELSE BootCpu]
      /\ where = [t \in Tasks |-> IF First(t) THEN "run" ELSE "ready"]
      /\ level = [t \in Tasks |-> t # BootTask]
      /\ raised = [t \in Tasks |-> IF t = BootTask THEN 0 ELSE IF where[t] = "run" THEN 1 ELSE 2]
  BY DEF TrapInit, cpu_machdep_init, switchframe_init
<1>4. [Kernel(BootTask, "kernel") EXCEPT !.ie = TRUE] = Paused(BootTask, "kernel")
  <2> DEFINE x == [Kernel(BootTask, "kernel") EXCEPT !.ie = TRUE]
  <2>1. Paused(BootTask, "kernel") \in Regs /\ Kernel(BootTask, "kernel") \in Regs /\ "kernel" \in Pcs /\ "kernel" # "user"
    BY <1>1, RegistersTyped DEF Pcs
  <2>2. /\ Kernel(BootTask, "kernel").user \in BOOLEAN
        /\ Paused(BootTask, "kernel").user \in BOOLEAN /\ Paused(BootTask, "kernel").ie \in BOOLEAN
    BY <2>1 DEF Regs
  <2>3. /\ x \in Regs /\ x.pc = Kernel(BootTask, "kernel").pc /\ x.sp = Kernel(BootTask, "kernel").sp
        /\ x.s7 = Kernel(BootTask, "kernel").s7 /\ x.user = Kernel(BootTask, "kernel").user /\ x.ie = TRUE
    BY <2>1 DEF Regs
  <2> HIDE DEF x
  <2>4. x = Paused(BootTask, "kernel")
    <3>1. /\ Kernel(BootTask, "kernel").pc = "kernel" /\ Paused(BootTask, "kernel").pc = "kernel"
          /\ Kernel(BootTask, "kernel").sp = BootTask /\ Paused(BootTask, "kernel").sp = BootTask
          /\ Kernel(BootTask, "kernel").s7 = BootTask /\ Paused(BootTask, "kernel").s7 = BootTask
          /\ Kernel(BootTask, "kernel").user = FALSE /\ Paused(BootTask, "kernel").user = FALSE
          /\ Paused(BootTask, "kernel").ie = TRUE
      BY <1>1, <2>1, <2>2, RegistersTyped
    <3> QED BY <2>1, <2>3, <3>1, SameRegs
  <2> QED BY <2>4 DEF x
<1>5. /\ Paused(BootTask, "kernel") \in Regs /\ Kernel(Nowhere, "off") \in Regs
      /\ Paused(BootTask, "kernel").pc = "kernel" /\ Paused(BootTask, "kernel").sp = BootTask
      /\ Kernel(Nowhere, "off").pc = "off"
  BY <1>1 DEF Kernel, Paused, Regs, Pcs
<1>6. /\ reg[BootCpu] = Paused(BootTask, "kernel")
      /\ \A c \in Processors : c # BootCpu => reg[c] = Kernel(Nowhere, "off")
      /\ reg \in [Processors -> Regs]
  BY <1>1, <1>3, <1>4, <1>5
<1>7. \A c \in Processors : Cur(c) = FirstTask[c]
  BY <1>1, <1>5, <1>6 DEF Cur, BootTask
<1>8. [pc |-> "entry", old |-> FALSE] \in SwitchFrames
  BY DEF SwitchFrames, Pcs
<1> HIDE DEF First
<1>9. TrapTypes
  <2>1. stack \in [Tasks -> Seq(Frames)]
    <3>1. <<[pc |-> "entry", old |-> FALSE]>> \in Seq(Frames)
      BY <1>8 DEF Frames
    <3> QED BY <1>3, <3>1
  <2>2. runs_on \in [Tasks -> Processors]
    BY <1>1, <1>3 DEF First
  <2>3. raised \in [Tasks -> Nat] /\ level \in [Tasks -> BOOLEAN]
    BY <1>3
  <2>4. cpustacks \in [Processors -> Tasks \cup {Nowhere}]
    BY <1>1, <1>3
  <2> QED BY <1>3, <1>6, <2>1, <2>2, <2>3, <2>4 DEF TrapTypes
<1>10. Placed
  BY <1>1, <1>2, <1>3, <1>7 DEF Placed
<1>11. Points
  <2> SUFFICES ASSUME NEW c \in Processors PROVE Point(c, FirstTask[c])
    BY <1>7 DEF Points
  <2>1. CASE c = BootCpu
    <3>1. /\ FirstTask[c] = BootTask /\ stack[BootTask] = <<>> /\ ~level[BootTask] /\ raised[BootTask] = 0
      BY <1>1, <1>2, <1>3, <2>1
    <3>2. Plain(c, BootTask, "kernel", stack[BootTask])
      BY <1>3, <3>1 DEF Plain, Works, Calls
    <3>3. reg[c] = Paused(BootTask, reg[c].pc) /\ reg[c].pc = "kernel"
      BY <1>5, <1>6, <2>1
    <3> QED BY <3>1, <3>2, <3>3 DEF Point
  <2>2. CASE c # BootCpu
    <3>1. FirstTask[c] \in Tasks /\ FirstTask[c] # BootTask /\ First(FirstTask[c])
      BY <1>1, <1>2, <2>2
    <3>2. stack[FirstTask[c]] = <<>> /\ level[FirstTask[c]] /\ raised[FirstTask[c]] = 1
      BY <1>3, <3>1
    <3> QED BY <1>3, <1>6, <2>2, <3>2 DEF Point
  <2> QED BY <2>1, <2>2
<1>12. Waits
  <2> SUFFICES ASSUME NEW t \in Tasks, t # Cur(runs_on[t]) PROVE Waiting(t)
    BY DEF Waits
  <2>1. ~First(t)
    <3> SUFFICES ASSUME First(t) PROVE FALSE
      OBVIOUS
    <3>1. PICK c \in Processors : FirstTask[c] = t
      BY DEF First
    <3>2. runs_on[t] = c
      BY <1>2, <1>3, <3>1
    <3> QED BY <1>7, <3>1, <3>2
  <2>2. t # BootTask
    BY <1>1, <2>1 DEF First
  <2> DEFINE f == [pc |-> "entry", old |-> FALSE]
  <2>3. stack[t] = <<f>> /\ level[t] /\ raised[t] = 2 /\ t \notin in_irq
    BY <1>3, <2>1, <2>2
  <2>4. <<f>> # <<>> /\ Head(<<f>>) = f /\ Tail(<<f>>) = <<>> /\ f.pc = "entry" /\ ~f.old
    OBVIOUS
  <2>5. Works(t, "entry", <<>>)
    BY <2>2 DEF Works, HasStack
  <2> HIDE DEF f
  <2>6. Switched(t, stack[t])
    BY <1>8, <2>3, <2>4, <2>5 DEF Switched, f
  <2> QED BY <2>3, <2>4, <2>6 DEF Waiting
<1>13. ArraysReady
  <2> SUFFICES ASSUME NEW c \in Processors, reg[c].pc \in {"off", "user", "return"} PROVE Found(c)
    BY DEF ArraysReady
  <2>1. c # BootCpu
    BY <1>5, <1>6
  <2>2. FirstTask[c] # BootTask
    BY <1>1, <2>1
  <2> QED BY <1>3, <1>7, <2>2 DEF Found, HasStack
<1> QED BY <1>3, <1>9, <1>10, <1>11, <1>12, <1>13 DEF IInv

\* The invariant is inductive: one lemma for each action above.
THEOREM Inductive == TrapSpec => []IInv
<1>1. TrapInit => IInv
  BY TrapsAssumption, Starts
<1>2. IInv /\ [TrapNext]_trapvars => IInv'
  <2> SUFFICES ASSUME IInv, [TrapNext]_trapvars PROVE IInv'
    OBVIOUS
  <2>1. CASE UNCHANGED trapvars
    BY <2>1, Unmoved DEF trapvars, places, IInv
  <2>2. CASE TrapNext
    <3>1. PICK c \in Processors :
            \/ cpu_start_secondary(c) \/ cpu_hatch(c)
            \/ Exception(c) \/ TakeIrq(c) \/ IrqDone(c) \/ mips_trap(c)
            \/ done(c) \/ kill_curthread(c) \/ BadFault(c) \/ done2(c) \/ exception_return(c) \/ mips_usermode(c)
            \/ copy(c) \/ Spin(c) \/ cpu_idle(c) \/ Resume(c)
            \/ \E t \in Tasks : Wake(c, t) \/ switchframe_switch(c, t) \/ \E d \in Processors : Migrate(c, t, d)
            \/ \E new \in {"ready", "sleep", "dead"} : thread_switch(c, new)
      BY <2>2 DEF TrapNext
    <3>2. CASE cpu_start_secondary(c) \/ cpu_hatch(c) \/ cpu_idle(c)
      BY <3>2, TrapsAssumption, StartStep, HatchStep, IdleStep
    <3>3. CASE Exception(c) \/ TakeIrq(c) \/ IrqDone(c) \/ mips_trap(c)
      BY <3>3, TrapsAssumption, ExceptionStep, TakeIrqStep, IrqDoneStep, TrapStep
    <3>4. CASE done(c) \/ kill_curthread(c) \/ BadFault(c)
      BY <3>4, TrapsAssumption, EndStep, KillStep, BadFaultStep
    <3>5. CASE done2(c) \/ exception_return(c) \/ mips_usermode(c)
      BY <3>5, TrapsAssumption, Done2Step, ReturnStep, UsermodeStep
    <3>6. CASE copy(c) \/ Spin(c) \/ Resume(c)
      BY <3>6, TrapsAssumption, CopyStep, SpinStep, ResumeStep
    <3>7. CASE \E t \in Tasks : Wake(c, t) \/ switchframe_switch(c, t) \/ \E d \in Processors : Migrate(c, t, d)
      BY <3>7, TrapsAssumption, WakeStep, SwitchframeStep, MigrateStep
    <3>8. CASE \E new \in {"ready", "sleep", "dead"} : thread_switch(c, new)
      BY <3>8, TrapsAssumption, SwitchStep
    <3> QED BY <3>1, <3>2, <3>3, <3>4, <3>5, <3>6, <3>7, <3>8
  <2> QED BY <2>1, <2>2
<1> QED BY <1>1, <1>2, PTL DEF TrapSpec

\* An interrupt's frame on a stack, on top or under something.
Interrupted(s) == \E i \in DOMAIN s : "code" \in DOMAIN s[i] /\ s[i].code = "irq"

\* ... on top,
LEMMA OnTop ==
  ASSUME NEW s \in Seq(Frames), s # <<>>, Head(s) \in TrapFrames, Head(s).code = "irq"
  PROVE  Interrupted(s)
<1>1. 1 \in DOMAIN s /\ s[1] = Head(s)
  OBVIOUS
<1>2. "code" \in DOMAIN Head(s)
  BY DEF TrapFrames
<1> QED BY <1>1, <1>2 DEF Interrupted

\* ... under something.
LEMMA Under ==
  ASSUME NEW s \in Seq(Frames), s # <<>>, Interrupted(Tail(s))
  PROVE  Interrupted(s)
<1>1. PICK i \in DOMAIN Tail(s) : "code" \in DOMAIN Tail(s)[i] /\ Tail(s)[i].code = "irq"
  BY DEF Interrupted
<1>2. i + 1 \in DOMAIN s /\ Tail(s)[i] = s[i + 1]
  BY HeadTailProperties
<1> QED BY <1>1, <1>2 DEF Interrupted

\* A thread switched from in a handler has the interrupt's frame under the switch's.
LEMMA SwitchedInterrupted ==
  ASSUME NEW t, NEW s \in Seq(Frames), Switched(t, s), Head(s).pc = "handler"
  PROVE  Interrupted(s)
<1>1. s # <<>> /\ Handles(t, Tail(s))
  BY DEF Switched
<1>2. Tail(s) \in Seq(Frames)
  BY <1>1, Popped
<1>3. Interrupted(Tail(s))
  BY <1>1, <1>2, OnTop DEF Handles, Over
<1> QED BY <1>1, <1>3, Under

\* The invariant says what TrapsSound does: of stacks,
LEMMA Exclusive == ASSUME TrapsAssumption, IInv PROVE StacksExclusive
<1> SUFFICES ASSUME NEW c \in Processors
             PROVE  /\ reg[c].sp # Nowhere => \A d \in Processors \ {c} : reg[d].sp # reg[c].sp
                    /\ ~reg[c].user => self(c) = reg[c].sp
  BY DEF StacksExclusive
<1>1. \A d \in Processors : /\ Cur(d) \in Tasks /\ runs_on[Cur(d)] = d
                            /\ reg[d].pc = "off" => reg[d].sp = Nowhere /\ reg[d].s7 = Nowhere
                            /\ reg[d].pc # "off" => reg[d].sp = Cur(d)
                            /\ ~reg[d].user /\ reg[d].pc # "off" => reg[d].s7 = Cur(d)
  <2> TAKE d \in Processors
  <2>1. Cur(d) \in Tasks /\ runs_on[Cur(d)] = d /\ Point(d, Cur(d))
    BY DEF IInv, Placed, Points
  <2>2. CASE reg[d].pc = "off"
    <3>1. reg[d] = Kernel(Nowhere, "off")
      BY <2>1, <2>2, PointAt
    <3> QED BY <2>1, <2>2, <3>1 DEF Kernel
  <2>3. CASE reg[d].pc # "off"
    <3>1. reg[d].sp = Cur(d) /\ (reg[d].user <=> reg[d].pc = "user") /\ (reg[d].pc # "user" => reg[d].s7 = Cur(d))
      BY <2>1, <2>3, PointAt
    <3> QED BY <2>1, <2>3, <3>1
  <2> QED BY <2>2, <2>3
<1>2. reg[c].sp # Nowhere => \A d \in Processors \ {c} : reg[d].sp # reg[c].sp
  <2> SUFFICES ASSUME reg[c].sp # Nowhere, NEW d \in Processors, d # c, reg[d].sp = reg[c].sp PROVE FALSE
    OBVIOUS
  <2>1. reg[c].pc # "off" /\ reg[d].pc # "off"
    BY <1>1
  <2> QED BY <1>1, <2>1
<1>3. ~reg[c].user => self(c) = reg[c].sp
  BY <1>1 DEF self
<1> QED BY <1>2, <1>3

\* ... of programs,
LEMMA Ready == ASSUME IInv PROVE TrapsReady
<1> SUFFICES ASSUME NEW c \in Processors, reg[c].user
             PROVE  LET t == reg[c].sp IN
                    /\ reg[c].ie /\ cputhreads[c] = t /\ cpustacks[c] = t /\ stack[t] = <<>>
                    /\ ~level[t] /\ raised[t] = 0 /\ t \notin in_irq
  BY DEF TrapsReady, IInv
<1>0. PICK t : t = Cur(c)
  OBVIOUS
<1>1. t \in Tasks /\ Point(c, t)
  BY <1>0 DEF IInv, Placed, Points
<1>2. reg[c].pc = "user" /\ reg[c].sp = t
  BY <1>1, PointAt
<1>3. reg[c] = Paused(t, "user") /\ Plain(c, t, "user", stack[t])
  BY <1>1, <1>2, PlainAt
<1>4. stack[t] = <<>> /\ ~level[t] /\ raised[t] = 0 /\ t \notin in_irq
  BY <1>3 DEF Plain, Works
<1>5. cputhreads[c] = t /\ cpustacks[c] = t
  BY <1>0, <1>2 DEF IInv, ArraysReady, Found
<1>6. reg[c].ie
  BY <1>1, <1>3, RegistersTyped DEF Pcs
<1> QED BY <1>2, <1>4, <1>5, <1>6

\* ... and of levels.
LEMMA Levels == ASSUME IInv PROVE LevelsTrue
<1>1. ASSUME NEW c \in Processors, Executes(c, {"kernel", "copy", "handler", "entry"})
      PROVE  /\ reg[c].ie <=> ~level[self(c)] /\ raised[self(c)] = 0
             /\ self(c) \in in_irq <=> reg[c].pc = "handler"
  <2>0. PICK t : t = Cur(c)
    OBVIOUS
  <2>1. /\ reg[c].pc \in {"kernel", "copy", "handler", "entry"} /\ self(c) = t /\ t \in Tasks /\ Point(c, t)
    <3>1. reg[c].pc \in {"kernel", "copy", "handler", "entry"} /\ ~reg[c].user
      BY <1>1 DEF Executes
    <3> QED BY <2>0, <3>1, Acting
  <2>2. CASE reg[c].pc = "handler"
    <3>1. level[t] /\ t \in in_irq /\ reg[c] = Kernel(t, "handler")
      BY <2>1, <2>2, KernelAt, PointAt
    <3>2. ~reg[c].ie
      BY <2>1, <3>1, RegistersTyped DEF Pcs
    <3> QED BY <2>1, <2>2, <3>1, <3>2
  <2>3. CASE reg[c].pc = "kernel"
    <3>1. /\ ~level[t] /\ t \notin in_irq
          /\ \/ raised[t] = 0 /\ reg[c] = Paused(t, "kernel")
             \/ raised[t] = 1 /\ reg[c] = Kernel(t, "kernel")
      BY <2>1, <2>3, KernelAt
    <3>2. reg[c].ie <=> raised[t] = 0
      BY <2>1, <3>1, RegistersTyped DEF Pcs
    <3> QED BY <2>1, <2>3, <3>1, <3>2
  <2>4. CASE reg[c].pc \in {"copy", "entry"}
    <3>1. reg[c] = Paused(t, reg[c].pc) /\ Plain(c, t, reg[c].pc, stack[t])
      BY <2>1, <2>4, PlainAt
    <3>2. ~level[t] /\ raised[t] = 0 /\ t \notin in_irq
      BY <2>4, <3>1 DEF Plain
    <3>3. reg[c].ie
      BY <2>1, <2>4, <3>1, RegistersTyped DEF Pcs
    <3> QED BY <2>1, <2>4, <3>2, <3>3
  <2> QED BY <2>1, <2>2, <2>3, <2>4
<1>2. ASSUME NEW t \in Tasks, t \in in_irq
      PROVE  Interrupted(stack[t])
  <2>0. PICK c, s : c = runs_on[t] /\ s = stack[t]
    OBVIOUS
  <2>1. c \in Processors /\ s \in Seq(Frames)
    BY <2>0 DEF IInv, TrapTypes
  <2>2. CASE t # Cur(c)
    <3>1. Switched(t, s) /\ Head(s).pc = "handler"
      BY <1>2, <2>0, <2>1, <2>2, Queued DEF Waiting
    <3> QED BY <2>0, <2>1, <3>1, SwitchedInterrupted
  <2>3. CASE t = Cur(c)
    <3>1. Point(c, t)
      BY <2>1, <2>3 DEF IInv, Points
    <3>2. reg[c].pc \in Pcs
      BY <3>1, PointAt
    <3>3. CASE reg[c].pc = "handler"
      <4>1. s # <<>> /\ Head(s) \in TrapFrames /\ Head(s).code = "irq"
        BY <2>0, <3>1, <3>3, KernelAt DEF Handles, HandlesIdle, Over
      <4> QED BY <2>0, <2>1, <4>1, OnTop
    <3>4. CASE reg[c].pc \in {"pick", "resume"}
      BY <1>2, <2>0, <2>1, <3>1, <3>4, KernelAt, SwitchedInterrupted
    <3>5. CASE reg[c].pc \in {"trap", "done2", "return"}
      <4>1. s # <<>> /\ Plain(c, t, Head(s).reg.pc, Tail(s))
        BY <2>0, <3>1, <3>5, KernelAt
      <4>2. Switched(t, Tail(s)) /\ Head(Tail(s)).pc = "handler"
        BY <1>2, <4>1 DEF Plain
      <4>3. Tail(s) \in Seq(Frames)
        BY <2>1, <4>1, Popped
      <4> QED BY <2>0, <2>1, <4>1, <4>2, <4>3, SwitchedInterrupted, Under
    <3>6. CASE reg[c].pc \in {"user", "entry", "copy", "idle"}
      <4>1. Plain(c, t, reg[c].pc, s)
        BY <2>0, <3>1, <3>6, PlainAt
      <4>2. Switched(t, s) /\ Head(s).pc = "handler"
        BY <1>2, <4>1 DEF Plain
      <4> QED BY <2>0, <2>1, <4>2, SwitchedInterrupted
    <3>7. CASE reg[c].pc \in {"kernel", "off", "hatch"}
      BY <1>2, <3>1, <3>7, KernelAt
    <3> QED BY <3>2, <3>3, <3>4, <3>5, <3>6, <3>7 DEF Pcs
  <2> QED BY <2>2, <2>3
<1> QED BY <1>1, <1>2 DEF LevelsTrue, Interrupted

\* No two processors are on one stack, the next exception of a program finds its
\* own, empty, and the levels are what the processor does (trap.c, exception-mips1.S,
\* cpu.c, switch.S), for any number of processors and threads.
THEOREM TrapsAreSound == TrapSpec => []TrapsSound
<1>1. IInv => TrapsSound
  BY TrapsAssumption, Exclusive, Ready, Levels DEF TrapsSound
<1> QED BY <1>1, Inductive, PTL
=============================================================================
