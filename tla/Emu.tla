--------------------------------- MODULE Emu ---------------------------------
(***************************************************************************)
(* emufs: files of the machine outside, through a card that does one       *)
(* operation at a time on handles.  e_lock guards the card; the vnodes are *)
(* guarded by vfs_biglock (recursive) and e_lock together.                 *)
(***************************************************************************)
EXTENDS Bus, Naturals, FiniteSets, Functions

CONSTANTS
  Handles,    \* handles the card has besides the root's
  MaxChunks,  \* pieces of EMU_MAXIO a read or write takes
  MaxRetries, \* times emu_close tries again (10)
  MaxErrors,  \* operations that fail on the medium, all in all
  MaxRefused  \* allocations that fail, all in all

ASSUME EmuAssumption == IsFiniteSet(Handles) /\ MaxChunks \in Nat \ {0} /\ MaxRetries \in Nat /\ MaxErrors \in Nat /\ MaxRefused \in Nat

VARIABLES
  elock, esem, eresult,  \* e_lock's holder, e_sem, e_result
  oper, operand, answer, \* the card: operation under way, its handle, what it answered
  open,                  \* handles the card has open
  vnodes,                \* ef_vnodes: references of the vnode of each handle
  big, depth,            \* vfs_biglock: its holder, and how often he has it
  emu,                   \* the call of every thread
  errors, refused,       \* failures so far
  astray                 \* handles whose closing failed, for the properties

emuvars == <<elock, esem, eresult, oper, operand, answer, open, vnodes, big, depth, emu, errors, refused, astray>>

Nobody == "nobody"
None == "no handle"
Idle == [pc |-> "out", h |-> None, used |-> FALSE]
Over == [pc |-> "end", h |-> None]

EmuInit ==
  /\ elock = Nobody /\ esem = 0 /\ eresult = "none" /\ oper = "idle" /\ operand = None /\ answer = "none"
  /\ open = {} /\ vnodes = <<>> /\ big = Nobody /\ depth = 0
  /\ emu = [t \in Threads |-> Idle] /\ errors = 0 /\ refused = 0 /\ astray = {}

Is(t, pc) == emu[t].pc = pc
Now(t, pc) == emu' = [emu EXCEPT ![t].pc = pc]

cardvars == <<esem, eresult, oper, operand, answer, open, errors>>
locks    == <<elock, big, depth>>

\* vfs_biglock_acquire and vfs_biglock_release.
vfs_biglock_acquire(t) == big \in {Nobody, t} /\ big' = t /\ depth' = depth + 1
vfs_biglock_release(t) == depth' = depth - 1 /\ big' = IF depth = 1 THEN Nobody ELSE big

(* What the vnode operations of files and directories do: ask the card, answer at once, or fail. *)
Unsupported == {"symlink", "mkdir", "link", "remove", "rmdir", "rename"}
NeedsDir == Unsupported \union {"getdirentry", "namefile", "creat", "lookup", "lookparent"}
NeedsFile == {"read", "write", "readlink", "fsync", "mmap"}
emufs_fileops(op) ==
  IF op \in {"read", "write", "stat", "truncate"} THEN "card" ELSE IF op \in NeedsDir THEN "ENOTDIR" ELSE "no card"
emufs_dirops(op) ==
  IF op \in {"getdirentry", "stat", "creat", "lookup", "lookparent"} THEN "card"
  ELSE IF op \in NeedsFile THEN "EISDIR" ELSE IF op \in Unsupported THEN "ENOSYS" ELSE "no card"

\* A thread, once, looks a file up (vfs_lookup holds vfs_biglock) or creates one (it does not).
Begin(t, create) ==
  /\ Is(t, "out") /\ emu[t].h = None
  /\ IF create THEN UNCHANGED <<big, depth>> ELSE vfs_biglock_acquire(t)
  /\ emu' = [emu EXCEPT ![t] = [pc |-> "open", h |-> None, create |-> create, retries |-> 0]]
  /\ UNCHANGED <<elock, cardvars, vnodes, refused, astray>>

\* One call on what it has; reading and writing go in pieces, the others in one.
Use(t, op, n) ==
  /\ Is(t, "out") /\ emu[t].h # None /\ ~emu[t].used
  /\ (IF emu[t].dir THEN emufs_dirops(op) ELSE emufs_fileops(op)) = "card"
  /\ op \notin {"read", "write"} => n = 1
  /\ emu' = [emu EXCEPT ![t].pc = "io", ![t].used = TRUE, ![t].left = n]
  /\ UNCHANGED <<locks, cardvars, vnodes, refused, astray>>

Command(op, h) == oper' = op /\ operand' = h

\* emu_open and the calls on handles: e_lock, then the card is told what to do.
emu_command(t) ==
  /\ emu[t].pc \in {"open", "io"} /\ elock = Nobody
  /\ elock' = t /\ Command(emu[t].pc, emu[t].h)
  /\ Now(t, IF Is(t, "open") THEN "opening" ELSE "doing")
  /\ UNCHANGED <<esem, eresult, answer, open, errors, vnodes, big, depth, refused, astray>>

(* The card (external) gives every open a handle of its own. *)
EmuCard ==
  /\ oper \in {"open", "io", "close"} /\ oper' = "done"
  /\ \/ oper = "open" /\ \E h \in Handles \ open : operand' = h /\ open' = open \union {h} /\ answer' = "success" /\ UNCHANGED errors
     \/ oper = "open" /\ answer' = "badpath" /\ UNCHANGED <<open, operand, errors>>
     \/ /\ oper # "open" /\ answer' = (IF operand \in open THEN "success" ELSE "badhandle")
        /\ open' = (IF oper = "close" THEN open \ {operand} ELSE open) /\ UNCHANGED <<operand, errors>>
     \/ /\ operand \in open /\ errors < MaxErrors
        /\ answer' = "media" /\ errors' = errors + 1 /\ UNCHANGED <<open, operand>>
  /\ UNCHANGED <<esem, eresult, locks, vnodes, emu, refused, astray>>

emu_irq ==
  /\ IF oper = "done" THEN oper' = "idle" ELSE UNCHANGED oper
  /\ eresult' = answer /\ answer' = "none" /\ esem' = esem + 1
  /\ UNCHANGED <<operand, open, errors, locks, vnodes, emu, refused, astray>>

Answered == esem > 0 /\ esem' = esem - 1

\* emu_open has its answer: the handle is loaded next.
Opened(t) ==
  /\ Is(t, "opening") /\ Answered
  /\ elock' = Nobody
  /\ IF eresult = "success"
     THEN emu' = [emu EXCEPT ![t].pc = "load", ![t].h = operand] /\ UNCHANGED <<big, depth>>
     ELSE emu' = [emu EXCEPT ![t] = Over] /\ IF emu[t].create THEN UNCHANGED <<big, depth>> ELSE vfs_biglock_release(t)
  /\ UNCHANGED <<eresult, oper, operand, answer, open, errors, vnodes, refused, astray>>

\* The answer; the next piece, if there is one.
Done(t) ==
  /\ Is(t, "doing") /\ Answered /\ elock' = Nobody
  /\ emu' = [emu EXCEPT ![t].pc = IF eresult = "success" /\ emu[t].left > 1 THEN "io" ELSE "out", ![t].left = @ - 1]
  /\ UNCHANGED <<eresult, oper, operand, answer, open, errors, big, depth, vnodes, refused, astray>>

\* emufs_loadvnode takes vfs_biglock and e_lock.
LoadBig(t) ==
  /\ Is(t, "load") /\ vfs_biglock_acquire(t) /\ Now(t, "loadlock")
  /\ UNCHANGED <<elock, cardvars, vnodes, refused, astray>>

\* Back from it: vfs_lookup gives its vfs_biglock back too.
Leave(t, n) == depth' = depth - n /\ big' = IF depth = n THEN Nobody ELSE big
Releases(t) == IF emu[t].create THEN 1 ELSE 2

emufs_loadvnode(t, dir) ==
  /\ Is(t, "loadlock") /\ elock = Nobody
  /\ vnodes' = (IF emu[t].h \in DOMAIN vnodes THEN [vnodes EXCEPT ![emu[t].h] = @ + 1]
                ELSE [h \in DOMAIN vnodes \union {emu[t].h} |-> IF h = emu[t].h THEN 1 ELSE vnodes[h]])
  /\ emu' = [emu EXCEPT ![t] = [pc |-> "out", h |-> @.h, dir |-> dir, used |-> FALSE, left |-> 0]]
  /\ Leave(t, Releases(t))
  /\ UNCHANGED <<elock, cardvars, refused, astray>>

\* No memory for the vnode: e_lock is given back, vfs_biglock is not; the handle is closed.
LoadRefused(t, array) ==
  /\ Is(t, "loadlock") /\ elock = Nobody /\ emu[t].h \notin DOMAIN vnodes
  /\ refused < MaxRefused /\ refused' = refused + 1
  /\ IF array THEN Leave(t, 1) ELSE UNCHANGED <<big, depth>>
  /\ Now(t, "undo")
  /\ UNCHANGED <<elock, cardvars, vnodes, astray>>

\* emu_close takes e_lock unless its caller has it.
CloseStart(t) ==
  /\ Is(t, "undo") /\ elock = Nobody
  /\ elock' = t /\ Command("close", emu[t].h) /\ Now(t, "undoing")
  /\ UNCHANGED <<esem, eresult, answer, open, errors, big, depth, vnodes, refused, astray>>

\* The card reports an error of the medium: once more, up to the limit.
Retry(t) ==
  /\ emu[t].pc \in {"undoing", "closing"} /\ Answered
  /\ eresult = "media" /\ emu[t].retries < MaxRetries
  /\ emu' = [emu EXCEPT ![t].retries = @ + 1] /\ Command("close", emu[t].h)
  /\ UNCHANGED <<eresult, answer, open, errors, locks, vnodes, refused, astray>>

Final(t) == Answered /\ ~(eresult = "media" /\ emu[t].retries < MaxRetries)

Undone(t) ==
  /\ Is(t, "undoing") /\ Final(t)
  /\ elock' = Nobody
  /\ IF emu[t].create THEN UNCHANGED <<big, depth>> ELSE vfs_biglock_release(t)
  /\ astray' = (IF eresult = "success" THEN astray ELSE astray \union {emu[t].h})
  /\ emu' = [emu EXCEPT ![t] = Over]
  /\ UNCHANGED <<eresult, oper, operand, answer, open, errors, vnodes, refused>>

(* The last close: emufs_reclaim with both locks. *)
Reclaim(t) ==
  /\ Is(t, "out") /\ emu[t].h # None /\ vfs_biglock_acquire(t)
  /\ emu' = [emu EXCEPT ![t] = [pc |-> "reclaim", h |-> @.h, create |-> FALSE, retries |-> 0]]
  /\ UNCHANGED <<elock, cardvars, vnodes, refused, astray>>

emufs_reclaim(t) ==
  /\ Is(t, "reclaim") /\ elock = Nobody
  /\ IF vnodes[emu[t].h] > 1
     THEN /\ vnodes' = [vnodes EXCEPT ![emu[t].h] = @ - 1] /\ vfs_biglock_release(t)
          /\ emu' = [emu EXCEPT ![t] = Over] /\ UNCHANGED <<elock, oper, operand>>
     ELSE elock' = t /\ Command("close", emu[t].h) /\ Now(t, "closing") /\ UNCHANGED <<big, depth, vnodes>>
  /\ UNCHANGED <<esem, eresult, answer, open, errors, refused, astray>>

\* The vnode goes if its handle is closed; otherwise it stays, with nobody to close it.
Closed(t) ==
  /\ Is(t, "closing") /\ Final(t)
  /\ elock' = Nobody /\ vfs_biglock_release(t)
  /\ IF eresult = "success" THEN vnodes' = Restrict(vnodes, DOMAIN vnodes \ {emu[t].h}) /\ UNCHANGED astray
     ELSE astray' = astray \union {emu[t].h} /\ UNCHANGED vnodes
  /\ emu' = [emu EXCEPT ![t] = Over]
  /\ UNCHANGED <<eresult, oper, operand, answer, open, errors, refused>>

EmuWork(t) ==
  \/ emu_command(t) \/ Opened(t) \/ Done(t) \/ LoadBig(t) \/ (\E dir \in BOOLEAN : emufs_loadvnode(t, dir)) \/ CloseStart(t)
  \/ Retry(t) \/ Undone(t) \/ emufs_reclaim(t) \/ Closed(t)
EmuCall(t) == (\E create \in BOOLEAN : Begin(t, create) \/ LoadRefused(t, create)) \/ Reclaim(t)
              \/ \E op \in {"read", "stat", "getdirentry"}, n \in 1..MaxChunks : Use(t, op, n)

(***************************************************************************)
(* Properties.                                                             *)
(***************************************************************************)

\* Every open handle of the card belongs to one vnode or to one call that is
\* about to make or undo it, and every vnode has its handle open and one
\* reference for each thread that holds it; the card is never asked about a
\* handle it has closed, which would be fatal.
Moving == {emu[t].h : t \in {u \in Threads : emu[u].pc \in {"load", "loadlock", "undo", "undoing"}}}
Told == \/ oper = "done" /\ answer = "success"
        \/ esem > 0 /\ eresult = "success"
Given == {operand : t \in {u \in Threads : Is(u, "opening") /\ Told}}
Closing == IF elock # Nobody /\ emu[elock].pc \in {"closing", "undoing"} THEN {emu[elock].h} ELSE {}
HandlesExact ==
  /\ open \ Closing = (DOMAIN vnodes \union Moving \union Given \union astray) \ Closing
  /\ \A h \in DOMAIN vnodes \ astray : vnodes[h] = Cardinality({t \in Threads : emu[t].h = h})
  /\ answer # "badhandle" /\ eresult # "badhandle"

\* vfs_biglock is with a call that took it, unless memory ran out in
\* emufs_loadvnode, which forgets to give it back.
BigLockExact ==
  refused = 0 => /\ big # Nobody => ~Is(big, "out")
                 /\ depth = IF big = Nobody THEN 0
                            ELSE (IF emu[big].pc \in {"open", "opening", "load", "loadlock", "undo", "undoing"} /\ ~emu[big].create THEN 1 ELSE 0)
                               + (IF emu[big].pc \in {"loadlock", "reclaim", "closing"} THEN 1 ELSE 0)
=============================================================================
