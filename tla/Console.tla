------------------------------- MODULE Console -------------------------------
(***************************************************************************)
(* The console on its serial port.  con_io and the kernel print through    *)
(* putch: waiting for the port's interrupt, or, with interrupts off or a   *)
(* spinlock held, polling it.  Input comes by interrupts into a ring.      *)
(***************************************************************************)
EXTENDS Bus, Naturals, Sequences, SequencesExt, FiniteSets

CONSTANTS
  Ring,       \* CONSOLE_INPUT_BUFFER_SIZE
  Message,    \* the characters a thread prints: a sequence over {"x", "nl"}
  MaxReads    \* characters a reader asks for

ASSUME ConsoleAssumption == Ring \in Nat \ {0, 1} /\ MaxReads \in Nat

VARIABLES
  console,         \* the_console is set
  delayed,         \* delayed_outbuf
  wsem, rsem,      \* cs_wsem and cs_rsem
  userlock,        \* holders of con_userlock_read, con_userlock_write, kprintf_lock and kprintf_spinlock
  gotchars, head, tail,
  wbusy, slock,    \* ls_wbusy, and who has ls_lock
  wirq, rirq,      \* the port's interrupt registers: sets of "active", "enable", "force"
  sending, inchar, \* the character going out, and the one that came in
  out,             \* what the port has sent of every writer
  typed,           \* number of characters typed
  accepted, got,   \* what con_input kept, and what readers were given
  handler,         \* lser_irq
  con              \* the call of every thread

front == <<console, delayed, userlock>>
ring  == <<rsem, gotchars, head, tail, accepted, got>>
line  == <<wbusy, sending, wirq, out>>
keys  == <<rirq, inchar, typed>>
convars == <<front, ring, line, keys, wsem, slock, handler, con>>

NoOne == "no one"
NoChar == "none"
NotIn == [pc |-> "out"]
Finished == [pc |-> "end"]   \* after a message
Resting == [pc |-> "off", start |-> FALSE, input |-> NoChar]

ConsoleInit ==
  /\ console = FALSE /\ delayed = <<>> /\ wsem = 1 /\ rsem = 0 /\ userlock = [l \in {"read", "write", "kprintf", "spin"} |-> NoOne]
  /\ gotchars = [i \in 0..Ring - 1 |-> NoChar] /\ head = 0 /\ tail = 0
  /\ wbusy = FALSE /\ slock = NoOne /\ wirq = {} /\ rirq = {} /\ sending = <<>> /\ inchar = NoChar
  /\ out = [t \in Threads |-> <<>>] /\ typed = 0 /\ accepted = <<>> /\ got = <<>> /\ handler = Resting
  /\ con = [t \in Threads |-> NotIn]

In(t, pc) == con[t].pc = pc
Interrupting == {"active", "enable"} \subseteq wirq \/ "force" \in wirq \/ {"active", "enable"} \subseteq rirq

(* The port (external): a character is sent, or comes in. *)
Port(text) ==
  \/ /\ sending # <<>> /\ sending' = <<>> /\ out' = [out EXCEPT ![sending[1][1]] = Append(@, sending[1][2])] /\ wirq' = wirq \union {"active"}
     /\ UNCHANGED <<front, wsem, ring, wbusy, slock, keys, handler, con>>
  \/ /\ console /\ typed < Len(text) /\ "active" \notin rirq
     /\ typed' = typed + 1 /\ inchar' = text[typed + 1] /\ rirq' = rirq \union {"active"}
     /\ UNCHANGED <<front, wsem, ring, line, slock, handler, con>>

(* Printing. *)
Encode(c) == IF c = "nl" THEN <<"cr", "nl">> ELSE <<c>>
EncodeAll(m) == FlattenSeq([i \in 1..Len(m) |-> Encode(m[i])])
Of(t, s) == LET theirs(c) == c[1] = t IN SelectSeq(s, theirs)
Marked(t, m) == [i \in 1..Len(m) |-> <<t, m[i]>>]
Put(t) == Marked(t, out[t]) \o Of(t, sending \o delayed)   \* what t has printed so far

\* Thread t begins to print m under a lock, or under none.
Say(t, m, lock, poll) ==
  con' = [con EXCEPT ![t] = [pc |-> "putch", rest |-> m, msg |-> m, base |-> Len(Put(t)), lock |-> lock, poll |-> poll, pending |-> FALSE]]

\* con_io for writing.
con_io_Write(t) ==
  /\ In(t, "out") /\ userlock["write"] = NoOne
  /\ userlock' = [userlock EXCEPT !["write"] = t]
  /\ Say(t, EncodeAll(Message), "write", FALSE)
  /\ UNCHANGED <<console, delayed, wsem, ring, line, slock, keys, handler>>

\* kprintf has kprintf_lock, or kprintf_spinlock when it may not sleep.
kprintf(t, m, poll) ==
  LET lock == IF poll THEN "spin" ELSE "kprintf" IN
  /\ con[t].pc \in {"out", "end"} /\ userlock[lock] = NoOne
  /\ userlock' = [userlock EXCEPT ![lock] = t]
  /\ Say(t, m, lock, poll)
  /\ UNCHANGED <<console, delayed, wsem, ring, line, slock, keys, handler>>

\* Characters put out one by one.
putch(t, m) ==
  /\ con[t].pc \in {"out", "end"} /\ Say(t, m, "none", FALSE)
  /\ UNCHANGED <<front, wsem, ring, line, slock, keys, handler>>

putch_delayed(t) ==
  /\ In(t, "putch") /\ ~console /\ con[t].rest # <<>>
  /\ delayed' = Append(delayed, <<t, Head(con[t].rest)>>)
  /\ con' = [con EXCEPT ![t].rest = Tail(@)]
  /\ UNCHANGED <<console, wsem, ring, userlock, line, slock, keys, handler>>

\* putch_intr: P(cs_wsem), then lser_write under ls_lock.
putch_intr(t) ==
  /\ In(t, "putch") /\ console /\ ~con[t].poll /\ con[t].rest # <<>> /\ wsem > 0
  /\ wsem' = wsem - 1 /\ con' = [con EXCEPT ![t].pc = "send"]
  /\ UNCHANGED <<front, ring, line, slock, keys, handler>>

lser_write(t) ==
  /\ In(t, "send") /\ slock = NoOne /\ ~wbusy
  /\ wbusy' = TRUE /\ sending' = << <<t, Head(con[t].rest)>> >>
  /\ con' = [con EXCEPT ![t].pc = "putch", ![t].rest = Tail(@)]
  /\ UNCHANGED <<front, wsem, ring, slock, wirq, keys, out, handler>>

\* lser_writepolled: ls_lock is held while the port is polled.
PollStart(t) ==
  /\ In(t, "putch") /\ console /\ con[t].poll /\ con[t].rest # <<>> /\ slock = NoOne
  /\ slock' = t /\ con' = [con EXCEPT ![t].pc = IF wbusy THEN "drain" ELSE "poll", ![t].pending = wbusy, ![t].rest = IF wbusy THEN @ ELSE Tail(@)]
  /\ wirq' = IF wbusy THEN wirq ELSE {}
  /\ sending' = IF wbusy THEN sending ELSE << <<t, Head(con[t].rest)>> >>
  /\ UNCHANGED <<front, wsem, ring, wbusy, keys, out, handler>>

Drained(t) ==
  /\ In(t, "drain") /\ "active" \in wirq
  /\ wirq' = {"force", "enable"} /\ sending' = << <<t, Head(con[t].rest)>> >> /\ con' = [con EXCEPT ![t].pc = "poll", ![t].rest = Tail(@)]
  /\ UNCHANGED <<front, wsem, ring, wbusy, slock, keys, out, handler>>

\* Mutant: a pending interrupt is cleared as well.
PollDone_Clears(t) ==
  /\ In(t, "poll") /\ "active" \in wirq
  /\ wirq' = {"enable"} /\ slock' = NoOne
  /\ con' = [con EXCEPT ![t].pc = "putch"]
  /\ UNCHANGED <<front, wsem, ring, wbusy, keys, sending, out, handler>>

PollDone(t) ==
  /\ In(t, "poll") /\ "active" \in wirq
  /\ wirq' = (IF con[t].pending THEN wirq ELSE {"enable"}) /\ slock' = NoOne
  /\ con' = [con EXCEPT ![t].pc = "putch"]
  /\ UNCHANGED <<front, wsem, ring, wbusy, keys, sending, out, handler>>

Printed(t) ==
  /\ In(t, "putch") /\ con[t].rest = <<>>
  /\ userlock' = [l \in DOMAIN userlock |-> IF l # "read" /\ userlock[l] = t THEN NoOne ELSE userlock[l]]
  /\ con' = [con EXCEPT ![t] = Finished]
  /\ UNCHANGED <<console, delayed, wsem, ring, line, slock, keys, handler>>

(* Configuration: the port interrupts from config_lser on; config_con lets the rest print what was delayed. *)
config_lser ==
  /\ wirq' = {"enable"} /\ rirq' = {"enable"} /\ wbusy' = FALSE
  /\ UNCHANGED <<front, wsem, ring, slock, sending, inchar, out, typed, handler, con>>

config_con(t) ==
  /\ ~console /\ con[t].pc \in {"out", "end"}
  /\ console' = TRUE /\ delayed' = <<>>
  /\ con' = [con EXCEPT ![t] = LET m == [i \in 1..Len(delayed) |-> delayed[i][2]] IN
                                [pc |-> "putch", rest |-> m, msg |-> m, base |-> 0, lock |-> "none", poll |-> FALSE, pending |-> FALSE]]
  /\ UNCHANGED <<wsem, ring, userlock, line, slock, keys, handler>>

(* Reading. *)
\* sys_read of the standard input calls getch itself, without the lock.
getch(t, n) ==
  /\ console /\ con' = [con EXCEPT ![t] = [pc |-> "getch", left |-> n, ch |-> NoChar]]
  /\ UNCHANGED <<front, wsem, ring, line, slock, keys, handler>>
sys_read(t) == In(t, "out") /\ getch(t, MaxReads)

con_io_Read(t) ==
  /\ In(t, "out") /\ console /\ userlock["read"] = NoOne
  /\ userlock' = [userlock EXCEPT !["read"] = t]
  /\ con' = [con EXCEPT ![t] = [pc |-> "getch", left |-> MaxReads, ch |-> NoChar]]
  /\ UNCHANGED <<console, delayed, wsem, ring, line, slock, keys, handler>>

\* getch_intr reads the slot and then moves the tail; con_input may come in between.
getch_intr(t) ==
  /\ In(t, "getch") /\ rsem > 0
  /\ rsem' = rsem - 1 /\ con' = [con EXCEPT ![t].pc = "tail", ![t].ch = gotchars[tail]]
  /\ UNCHANGED <<front, wsem, gotchars, head, tail, line, slock, keys, accepted, got, handler>>

\* The tail moves on, the character is handed over; con_io stops at the end of a line.
Got(t) ==
  /\ In(t, "tail")
  /\ tail' = (tail + 1) % Ring
  /\ got' = Append(got, con[t].ch)
  /\ LET more == con[t].left > 1 /\ ~(con[t].ch = "cr" /\ userlock["read"] = t) IN
     /\ con' = [con EXCEPT ![t] = IF more THEN [pc |-> "getch", left |-> @.left - 1, ch |-> NoChar] ELSE [pc |-> "out", ch |-> @.ch]]
     /\ userlock' = [userlock EXCEPT !["read"] = IF more \/ @ # t THEN @ ELSE NoOne]
  /\ UNCHANGED <<console, delayed, wsem, rsem, gotchars, head, line, slock, keys, accepted, handler>>

(* lser_irq: the registers under ls_lock, then con_start and con_input without it. *)
lser_irq ==
  /\ handler.pc = "off" /\ slock = NoOne
  /\ LET w == "active" \in wirq
         r == "active" \in rirq IN
     /\ handler' = [pc |-> "locked", start |-> w, input |-> IF r THEN inchar ELSE NoChar]
     /\ wbusy' = (wbusy /\ ~w) /\ wirq' = (IF w THEN {"enable"} ELSE wirq)
     /\ rirq' = (IF r THEN {"enable"} ELSE rirq) /\ inchar' = (IF r THEN NoChar ELSE inchar)
  /\ UNCHANGED <<front, wsem, ring, slock, sending, out, typed, con>>

con_start ==
  /\ handler.pc = "locked"
  /\ wsem' = (IF handler.start THEN wsem + 1 ELSE wsem) /\ handler' = [handler EXCEPT !.pc = "started"]
  /\ UNCHANGED <<front, ring, line, slock, keys, con>>

con_input ==
  /\ handler.pc = "started" /\ handler' = Resting
  /\ IF handler.input # NoChar /\ (head + 1) % Ring # tail
     THEN gotchars' = [gotchars EXCEPT ![head] = handler.input] /\ head' = (head + 1) % Ring /\ rsem' = rsem + 1 /\ accepted' = Append(accepted, handler.input)
     ELSE UNCHANGED <<gotchars, head, rsem, accepted>>
  /\ UNCHANGED <<front, wsem, tail, line, slock, keys, got, con>>

ConWork(t) == putch_delayed(t) \/ putch_intr(t) \/ lser_write(t) \/ PollStart(t) \/ Drained(t) \/ PollDone(t) \/ Printed(t) \/ getch_intr(t) \/ Got(t)

(***************************************************************************)
(* Properties.                                                             *)
(***************************************************************************)

\* Exactly one right to send exists: in cs_wsem, with a thread about to send,
\* in the busy port, or with the handler on its way to con_start; and a
\* thread with the right finds the port free, so lser_write never panics.
SendersExact ==
  /\ wsem + Cardinality({t \in Threads : In(t, "send")}) + (IF wbusy THEN 1 ELSE 0)
       + (IF handler.pc = "locked" /\ handler.start THEN 1 ELSE 0) = 1
  /\ \A t \in Threads : In(t, "send") => ~wbusy

\* Characters are sent once and in the order they were printed, and no two
\* threads print under the same lock: the messages of users are not mixed,
\* nor are those of the kernel.
Printing == {t \in Threads : "rest" \in DOMAIN con[t]}
OutputExact ==
  \A t \in Printing :
     /\ SubSeq(Put(t), con[t].base + 1, Len(Put(t))) \o Marked(t, con[t].rest) = Marked(t, con[t].msg)
     /\ con[t].lock # "none" => \A u \in Printing \ {t} : con[u].lock # con[t].lock

\* What readers were given, followed by what the ring holds, is what was
\* accepted: nothing is lost after that, given twice or out of order.
Held == (head + Ring - tail) % Ring
InputExact == got \o [i \in 1..Held |-> gotchars[(tail + i - 1) % Ring]] = accepted /\ rsem + Cardinality({t \in Threads : In(t, "tail")}) = Held
=============================================================================
