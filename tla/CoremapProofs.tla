--------------------------- MODULE CoremapProofs ---------------------------
(***************************************************************************)
(* For every number of threads, pages and frames: the invariants of        *)
(* Coremap under SerialSpec, and that the allocator implements FramePool.  *)
(*                                                                         *)
(* The argument.  IInv (in Coremap) is inductive: one lemma per action     *)
(* proves IInv', with one step per conjunct that the action can disturb;   *)
(* Assemble puts the conjuncts together and CallOnly does it for the       *)
(* actions that only move a call from one program point to the next.  The  *)
(* safety theorems are consequences of IInv; the refinement uses IInv to   *)
(* show that a frame which Map or Mark hands over has no other user.       *)
(* NoLostPage, for requests of one frame, has an invariant of its own.     *)
(***************************************************************************)
EXTENDS Coremap, WellFoundedInduction, TLAPS

\* Everybody but t is outside the allocator.
Solo(t) == \A u \in Threads \ {t} : call[u] = IdleCall

\* The boot state: all frames clean, nobody in the allocator.
LEMMA InitInv == ASSUME CoremapAssumption, Init PROVE IInv
<1> USE CoremapAssumption DEF CoremapAssumption
<1>1. TypeOK
  BY DEF Init, TypeOK, Calls, Status, Ops, Pcs, IdleCall, Frames, Vas, Threads
<1>2. \A t \in Threads : call[t] = IdleCall /\ call[t].pc = "idle"
  BY DEF Init, IdleCall
<1>3. \A t \in Threads : CallShape(t) /\ ScanState(t) /\ EvictState(t) /\ TakeState(t)
  BY <1>2 DEF CallShape, ScanState, EvictState, TakeState, AllocPcs
<1>4. OneCall /\ HandState /\ FrameZero /\ FreeReset
  BY <1>2 DEF Init, OneCall, HandState, FrameZero, FreeReset, At, Frames, Mapped, NotValid
<1>5. PageFrameSound /\ KernelBlocksIntact /\ NoFixedLeak /\ StealFrontier
  BY <1>2 DEF Init, PageFrameSound, KernelBlocksIntact, NoFixedLeak, StealFrontier, NotValid, Frames
<1> QED BY <1>1, <1>3, <1>4, <1>5 DEF IInv

\* With nobody in the allocator every caller is the only one.
LEMMA SoloWhenQuiet == ASSUME IInv, Quiet, NEW t \in Threads PROVE Solo(t)
BY DEF IInv, Quiet, Solo, CallShape, At

\* A thread inside the allocator is the only one there.
LEMMA SoloWhenBusy == ASSUME IInv, NEW t \in Threads, ~At(t, "idle") PROVE Solo(t)
BY DEF IInv, OneCall, Solo, CallShape, At

\* What a step that rewrites the call of t does to the calls.
LEMMA CallUpdate ==
    ASSUME TypeOK, NEW t \in Threads, Solo(t), NEW c \in Calls, Becomes(t, c)
    PROVE  call'[t] = c /\ Solo(t)' /\ call' \in [Threads -> Calls]
BY DEF TypeOK, Solo, Becomes

\* The record of an idle call is a call record.
LEMMA IdleTyped == CoremapAssumption => IdleCall \in Calls
BY DEF CoremapAssumption, IdleCall, Calls, Ops, Pcs, Vas, Frames

\* The conjuncts of the invariant that do not look at the calls.
LEMMA MemoryUnchanged ==
    ASSUME IInv, UNCHANGED <<status, as, vaddr, alloc_size, pfn, kheld>>
    PROVE  FrameZero' /\ FreeReset' /\ PageFrameSound' /\ KernelBlocksIntact'
<1>1. FrameZero' /\ FreeReset' BY DEF IInv, FrameZero, FreeReset
<1>2. PageFrameSound' BY DEF IInv, PageFrameSound
<1>3. KernelBlocksIntact' BY DEF IInv, KernelBlocksIntact
<1> QED BY <1>1, <1>2, <1>3

\* The invariant is restored once it is restored for the thread that moved.
LEMMA Assemble ==
    ASSUME NEW t \in Threads, Solo(t)', TypeOK', HandState', FrameZero', FreeReset',
           PageFrameSound', KernelBlocksIntact', NoFixedLeak', StealFrontier',
           CallShape(t)', ScanState(t)', EvictState(t)', TakeState(t)'
    PROVE  IInv'
<1>1. \A u \in Threads \ {t} : call'[u] = IdleCall /\ call'[u].pc = "idle"
  BY DEF Solo, IdleCall
<1>2. OneCall'
  BY <1>1 DEF OneCall, At
<1>3. \A u \in Threads \ {t} : CallShape(u)' /\ ScanState(u)' /\ EvictState(u)' /\ TakeState(u)'
  BY <1>1 DEF CallShape, ScanState, EvictState, TakeState, AllocPcs
<1> QED BY <1>2, <1>3 DEF IInv

\* A run that grows by one frame gains its new last frame only.
LEMMA RunExtend ==
    ASSUME NEW a \in Int, NEW n \in Nat
    PROVE  \A f \in Run(a, n + 1) : f \in Run(a, n) \/ f = a + n
BY DEF Run

\* A step that changes only the call of t, which is not recording frames, and
\* perhaps the hand.
LEMMA CallOnly ==
    ASSUME CoremapAssumption, IInv, NEW t \in Threads, Solo(t), InFlight(t) = {},
           NEW d \in Calls, Becomes(t, d),
           UNCHANGED <<status, as, vaddr, alloc_size, firstpaddr, pfn, kheld>>,
           current_victim' \in Frames,
           \/ current_victim' # 0
           \/ current_victim = 0 /\ d.pc \notin {"test", "evict", "unmap"},
           CallShape(t)', ScanState(t)', EvictState(t)', TakeState(t)'
    PROVE  IInv'
<1>1. call'[t] = d /\ Solo(t)' /\ call' \in [Threads -> Calls]
  BY CallUpdate DEF IInv
<1>2. TypeOK'
  BY <1>1 DEF IInv, TypeOK
<1>3. FrameZero' /\ FreeReset' /\ PageFrameSound' /\ KernelBlocksIntact'
  BY MemoryUnchanged
<1>4. \A u \in Threads : InFlight(u) = {}
  BY DEF Solo, IdleCall, InFlight
<1>5. NoFixedLeak' /\ StealFrontier'
  BY <1>4 DEF IInv, NoFixedLeak, StealFrontier
<1>6. HandState'
  BY <1>1 DEF IInv, HandState, Mapped, Solo, IdleCall
<1> QED BY <1>1, <1>2, <1>3, <1>5, <1>6, Assemble

\* The wrap test of the hand: a wrap ends a run only when its length is 0,
\* so that the run stays contiguous.
LEMMA ScanWrapInv ==
    ASSUME CoremapAssumption, IInv, NEW t \in Threads, Solo(t), ScanWrap(t) PROVE IInv'
<1> USE CoremapAssumption DEF CoremapAssumption
<1> DEFINE c == call[t]  d == [c EXCEPT !.pc = "take"]
<1>0. TypeOK /\ c \in Calls /\ c.pc = "wrap" /\ CallShape(t) /\ ScanState(t)
  BY DEF IInv, TypeOK, ScanWrap, At
<1>1. /\ d \in Calls /\ d.pc = "take" /\ d.op = c.op /\ d.va = c.va /\ d.npages = c.npages
      /\ d.pos = c.pos /\ d.len = c.len /\ d.i = c.i /\ d.victim_va = c.victim_va
  BY <1>0 DEF Calls, Pcs
<1>2. call'[t] = d /\ Becomes(t, d)
  BY <1>0, <1>1, CallUpdate DEF ScanWrap
<1> HIDE DEF d
<1>3. UNCHANGED <<status, as, vaddr, alloc_size, firstpaddr, pfn, kheld>>
  BY DEF ScanWrap, entries
<1>4. current_victim' \in Frames /\ (current_victim' # 0 \/ current_victim = 0)
  BY <1>0 DEF ScanWrap, HandWrapped, Frames, TypeOK
<1>5. CallShape(t)'
  BY <1>0, <1>1, <1>2, <1>3 DEF CallShape, AllocPcs, Missing, Alone, Populated, Scanning
<1>6. ScanState(t)'
  <2>1. c.len \in Nat /\ c.npages \in Nat /\ c.len < c.npages /\ current_victim \in Nat
    BY <1>0 DEF TypeOK, Calls, CallShape, AllocPcs, Frames
  <2>2. CASE current_victim + (c.npages - c.len) >= NFrames
    <3>1. c.len = 0 /\ current_victim' = 1
      BY <1>0, <2>1, <2>2 DEF ScanWrap, HandWrapped, ScanState, Room
    <3> QED BY <1>1, <1>2, <3>1 DEF ScanState
  <2>3. CASE current_victim + (c.npages - c.len) < NFrames
    <3>1. current_victim' = current_victim
      BY <2>1, <2>3 DEF ScanWrap, HandWrapped
    <3>2. Room(c, current_victim)
      BY <2>3 DEF Room
    <3> QED BY <1>0, <1>1, <1>2, <1>3, <3>1, <3>2 DEF ScanState, Room, AllEvictable, Evictable
  <2> QED BY <2>1, <2>2, <2>3
<1>7. EvictState(t)' /\ TakeState(t)' /\ InFlight(t) = {}
  BY <1>0, <1>1, <1>2 DEF EvictState, TakeState, InFlight
<1> QED BY <1>1, <1>2, <1>3, <1>4, <1>5, <1>6, <1>7, CallOnly

\* The hand advances: the frame it leaves is the one about to be tested.
LEMMA ScanTakeInv ==
    ASSUME CoremapAssumption, IInv, NEW t \in Threads, Solo(t), ScanTake(t) PROVE IInv'
<1> USE CoremapAssumption DEF CoremapAssumption
<1> DEFINE c == call[t]  d == [c EXCEPT !.pc = "test", !.pos = current_victim]
<1>0. /\ TypeOK /\ c \in Calls /\ c.pc = "take" /\ CallShape(t) /\ ScanState(t) /\ HandState
      /\ current_victim \in Frames
  BY DEF IInv, TypeOK, ScanTake, At
<1>1. /\ d \in Calls /\ d.pc = "test" /\ d.op = c.op /\ d.va = c.va /\ d.npages = c.npages
      /\ d.pos = current_victim /\ d.len = c.len /\ d.i = c.i /\ d.victim_va = c.victim_va
  BY <1>0 DEF Calls, Pcs
<1>2. call'[t] = d /\ Becomes(t, d)
  BY <1>0, <1>1, CallUpdate DEF ScanTake
<1> HIDE DEF d
<1>3. UNCHANGED <<status, as, vaddr, alloc_size, firstpaddr, pfn, kheld>>
  BY DEF ScanTake, entries
<1>4. /\ c.len \in Nat /\ c.npages \in Nat /\ c.len < c.npages /\ current_victim \in Nat
      /\ current_victim <= NFrames - 2
  BY <1>0 DEF Calls, CallShape, AllocPcs, Frames, ScanState, Room
<1>5. current_victim' = current_victim + 1
  BY <1>4 DEF ScanTake, NextHand
<1>6. CallShape(t)'
  BY <1>0, <1>1, <1>2, <1>3 DEF CallShape, AllocPcs, Missing, Alone, Populated, Scanning
<1>7. ScanState(t)'
  <2>1. Room(c, current_victim) \/ (c.len = 0 /\ current_victim = 1)
    BY <1>0 DEF ScanState
  <2>2. \/ current_victim - c.len >= 1
        \/ c.len = 0 /\ current_victim = 0 /\ status[0] = "clean"
    BY <1>0, <1>4 DEF ScanState, HandState
  <2>3. AllEvictable(Run(current_victim - c.len, c.len))
    BY <1>0, <1>4 DEF ScanState, AllEvictable, Run
  <2> QED BY <1>0, <1>1, <1>2, <1>3, <1>4, <1>5, <2>1, <2>2, <2>3
          DEF ScanState, Room, AllEvictable, Evictable
<1>8. EvictState(t)' /\ TakeState(t)' /\ InFlight(t) = {}
  BY <1>0, <1>1, <1>2 DEF EvictState, TakeState, InFlight
<1>9. current_victim' \in Frames /\ current_victim' # 0
  BY <1>4, <1>5 DEF Frames
<1> QED BY <1>1, <1>2, <1>3, <1>6, <1>7, <1>8, <1>9, CallOnly

\* The test of a frame: the run of victims grows, restarts or is complete.
LEMMA ScanTestInv ==
    ASSUME CoremapAssumption, IInv, NEW t \in Threads, Solo(t), ScanTest(t) PROVE IInv'
<1> USE CoremapAssumption DEF CoremapAssumption
<1> DEFINE c == call[t]
<1>0. /\ TypeOK /\ c \in Calls /\ c.pc = "test" /\ CallShape(t) /\ ScanState(t)
      /\ current_victim \in Frames /\ StealFrontier
  BY DEF IInv, TypeOK, ScanTest, At
<1>1. UNCHANGED <<status, as, vaddr, alloc_size, firstpaddr, pfn, kheld, current_victim>>
  BY DEF ScanTest, entries
<1>2. /\ c.len \in Nat /\ c.npages \in 1 .. MaxReq /\ c.len < c.npages /\ c.i = 0
      /\ c.pos \in Frames /\ current_victim = c.pos + 1 /\ c.pos <= NFrames - 2
      /\ AllEvictable(Run(c.pos - c.len, c.len))
  BY <1>0 DEF Calls, CallShape, AllocPcs, Frames, ScanState
<1>3. InFlight(t) = {} /\ current_victim # 0
  BY <1>0, <1>2 DEF InFlight, Frames
<1>4. ASSUME Evictable(c.pos)
      PROVE  Room(c, c.pos) /\ c.pos - c.len >= 1 /\ AllEvictable(Run(c.pos - c.len, c.len + 1))
  <2>1. c.pos # 1
    BY <1>0, <1>4 DEF StealFrontier, Evictable
  <2>2. Room(c, c.pos) /\ c.pos - c.len >= 1
    BY <1>0, <1>2, <1>4, <2>1 DEF ScanState, Evictable
  <2>3. \A f \in Run(c.pos - c.len, c.len + 1) : f \in Run(c.pos - c.len, c.len) \/ f = c.pos
    <3>1. c.pos \in Nat /\ c.pos - c.len \in Int /\ (c.pos - c.len) + c.len = c.pos
      BY <1>2 DEF Frames
    <3> QED BY <1>2, <3>1, RunExtend
  <2> QED BY <1>2, <1>4, <2>2, <2>3 DEF AllEvictable
<1>5. CASE ~Evictable(c.pos) /\ Becomes(t, Restart(c))
  <2> DEFINE d == Restart(c)
  <2>1. /\ d \in Calls /\ d.pc = "wrap" /\ d.op = c.op /\ d.va = c.va /\ d.npages = c.npages
        /\ d.pos = c.pos /\ d.len = 0 /\ d.i = c.i /\ d.victim_va = c.victim_va
    BY <1>0 DEF Calls, Pcs, Restart
  <2>2. call'[t] = d /\ Becomes(t, d)
    BY <1>0, <1>5, <2>1, CallUpdate
  <2> HIDE DEF d
  <2>3. CallShape(t)'
    BY <1>0, <1>1, <1>2, <2>1, <2>2 DEF CallShape, AllocPcs, Missing, Alone, Populated, Scanning
  <2>4. ScanState(t)' /\ EvictState(t)' /\ TakeState(t)'
    BY <2>1, <2>2 DEF ScanState, EvictState, TakeState
  <2> QED BY <1>0, <1>1, <1>3, <2>1, <2>2, <2>3, <2>4, CallOnly
<1>6. CASE /\ Evictable(c.pos) /\ c.len + 1 < c.npages
           /\ Becomes(t, [c EXCEPT !.pc = "wrap", !.len = c.len + 1])
  <2> DEFINE d == [c EXCEPT !.pc = "wrap", !.len = c.len + 1]
  <2>1. /\ d \in Calls /\ d.pc = "wrap" /\ d.op = c.op /\ d.va = c.va /\ d.npages = c.npages
        /\ d.pos = c.pos /\ d.len = c.len + 1 /\ d.i = c.i /\ d.victim_va = c.victim_va
    <3>1. c.len + 1 \in Nat
      BY <1>2
    <3> QED BY <1>0, <3>1 DEF Calls, Pcs
  <2>2. call'[t] = d /\ Becomes(t, d)
    BY <1>0, <1>6, <2>1, CallUpdate
  <2> HIDE DEF d
  <2>3. CallShape(t)'
    BY <1>0, <1>1, <1>2, <1>6, <2>1, <2>2
       DEF CallShape, AllocPcs, Missing, Alone, Populated, Scanning
  <2>4. /\ current_victim - (c.len + 1) = c.pos - c.len
        /\ current_victim + (c.npages - (c.len + 1)) = c.pos + (c.npages - c.len)
    BY <1>2 DEF Frames
  <2>5. ScanState(t)'
    BY <1>1, <1>2, <1>4, <1>6, <2>1, <2>2, <2>4 DEF ScanState, Room, AllEvictable, Evictable
  <2>6. EvictState(t)' /\ TakeState(t)'
    BY <2>1, <2>2 DEF EvictState, TakeState
  <2> QED BY <1>0, <1>1, <1>3, <2>1, <2>2, <2>3, <2>5, <2>6, CallOnly
<1>7. CASE Evictable(c.pos) /\ c.len + 1 >= c.npages /\ Becomes(t, Chosen(t, c))
  <2>1. CASE t \in KernelThreads
    <3>1. IdleCall \in Calls /\ Becomes(t, IdleCall) /\ call'[t] = IdleCall
      BY <1>0, <1>7, <2>1, IdleTyped, CallUpdate DEF Chosen
    <3>2. CallShape(t)' /\ ScanState(t)' /\ EvictState(t)' /\ TakeState(t)'
      BY <3>1 DEF CallShape, AllocPcs, ScanState, EvictState, TakeState, IdleCall
    <3> QED BY <1>0, <1>1, <1>3, <3>1, <3>2, CallOnly
  <2>2. CASE t \notin KernelThreads
    <3> DEFINE d == [c EXCEPT !.pc = "evict", !.pos = c.pos - (c.npages - 1), !.len = 0]
    <3>1. c.npages = c.len + 1 /\ c.pos - (c.npages - 1) = c.pos - c.len /\ c.pos - c.len \in Frames
      BY <1>2, <1>4, <1>7 DEF Frames
    <3>2. /\ d \in Calls /\ d.pc = "evict" /\ d.op = c.op /\ d.va = c.va /\ d.npages = c.npages
          /\ d.pos = c.pos - c.len /\ d.len = 0 /\ d.i = c.i /\ d.victim_va = c.victim_va
      BY <1>0, <3>1 DEF Calls, Pcs
    <3>3. call'[t] = d /\ Becomes(t, d)
      BY <1>0, <1>7, <2>2, <3>2, CallUpdate DEF Chosen
    <3> HIDE DEF d
    <3>4. CallShape(t)'
      BY <1>0, <1>1, <1>2, <2>2, <3>2, <3>3
         DEF CallShape, AllocPcs, Missing, Alone, Populated, Scanning, Threads
    <3>5. \A f \in Run(c.pos - c.len, c.len + 1) : Evictable(f) /\ f \in Managed
      <4>1. \A f \in Run(c.pos - c.len, c.len + 1) : Evictable(f)
        BY <1>4, <1>7 DEF AllEvictable
      <4>2. \A f \in Run(c.pos - c.len, c.len + 1) : f \in 1 .. NFrames - 1
        BY <1>2, <1>4, <1>7 DEF Run, Frames
      <4>3. \A f \in 1 .. NFrames - 1 : Evictable(f) => f \in Managed
        BY <1>0 DEF StealFrontier, Evictable, Managed, TypeOK
      <4> QED BY <4>1, <4>2, <4>3
    <3>6. EvictState(t)'
      <4>1. Victims(d) = Run(c.pos - c.len, c.len + 1)
        BY <3>1, <3>2 DEF Victims
      <4>2. Victims(d) \subseteq Managed /\ AllEvictable(Victims(d))
        BY <3>5, <4>1 DEF AllEvictable
      <4>3. Run(d.pos, d.i) = {}
        BY <1>2, <3>1, <3>2 DEF Run, Frames
      <4> QED BY <1>1, <3>2, <3>3, <4>2, <4>3 DEF EvictState, AllEvictable, Evictable, Managed
    <3>7. ScanState(t)' /\ TakeState(t)'
      BY <3>2, <3>3 DEF ScanState, TakeState
    <3> QED BY <1>0, <1>1, <1>3, <3>2, <3>3, <3>4, <3>6, <3>7, CallOnly
  <2> QED BY <2>1, <2>2
<1> QED BY <1>5, <1>6, <1>7 DEF ScanTest

\* swap_out of a victim: the page it will unmap is the recorded one.
LEMMA EvictInv ==
    ASSUME CoremapAssumption, IInv, NEW t \in Threads, Solo(t), Evict(t) PROVE IInv'
<1> USE CoremapAssumption DEF CoremapAssumption
<1> DEFINE c == call[t]  va == vaddr[c.pos + c.i]  d == [c EXCEPT !.pc = "unmap", !.victim_va = va]
<1>0. /\ TypeOK /\ c \in Calls /\ c.pc = "evict" /\ CallShape(t) /\ EvictState(t) /\ HandState
      /\ current_victim \in Frames
  BY DEF IInv, TypeOK, Evict, At
<1>1. c.i \in Nat /\ c.npages \in Nat /\ c.i < c.npages /\ c.pos \in Nat
  BY <1>0 DEF Calls, CallShape, AllocPcs, Frames
<1>2. c.pos + c.i \in Managed /\ va \in Vas
  <2>1. c.pos + c.i \in Victims(c)
    BY <1>1 DEF Victims, Run
  <2>2. c.pos + c.i \in Managed
    BY <1>0, <2>1 DEF EvictState
  <2>3. c.pos + c.i \in Frames
    BY <1>0, <2>2 DEF Managed, Frames, TypeOK
  <2> QED BY <1>0, <2>2, <2>3 DEF TypeOK
<1>3. /\ d \in Calls /\ d.pc = "unmap" /\ d.op = c.op /\ d.va = c.va /\ d.npages = c.npages
      /\ d.pos = c.pos /\ d.len = c.len /\ d.i = c.i /\ d.victim_va = va
  BY <1>0, <1>2 DEF Calls, Pcs
<1>4. call'[t] = d /\ Becomes(t, d)
  BY <1>0, <1>3, CallUpdate DEF Evict
<1> HIDE DEF d
<1>5. UNCHANGED <<status, as, vaddr, alloc_size, firstpaddr, pfn, kheld, current_victim>>
  BY DEF Evict, entries
<1>6. InFlight(t) = {} /\ current_victim # 0
  BY <1>0 DEF InFlight, HandState
<1>7. CallShape(t)'
  BY <1>0, <1>3, <1>4, <1>5 DEF CallShape, AllocPcs, Missing, Alone, Populated, Scanning
<1>8. EvictState(t)'
  BY <1>0, <1>3, <1>4, <1>5 DEF EvictState, Victims, AllEvictable, Evictable, Managed, Mapped
<1>9. ScanState(t)' /\ TakeState(t)'
  BY <1>3, <1>4 DEF ScanState, TakeState
<1> QED BY <1>0, <1>3, <1>4, <1>5, <1>6, <1>7, <1>8, <1>9, CallOnly

\* A frame with a user is recorded as such, below the steal frontier.
LEMMA UsersRecorded ==
    ASSUME IInv, NEW f \in Frames \ {0}
    PROVE  /\ Mapped(f) => status[f] = "dirty"
           /\ InBlock(f) => status[f] = "fixed"
<1>1. f > 0 /\ PageFrameSound /\ KernelBlocksIntact
  BY DEF IInv, Frames
<1>2. ASSUME NEW t \in UserThreads, NEW v \in Vas, pfn[t][v] = f
      PROVE  status[f] = "dirty"
  BY <1>1, <1>2 DEF PageFrameSound
<1>3. InBlock(f) => status[f] = "fixed"
  BY <1>1 DEF KernelBlocksIntact, InBlock
<1> QED BY <1>2, <1>3 DEF Mapped

\* ram_stealmem hands out frames of the memory, never frame 0.
LEMMA ManagedFrames ==
    ASSUME CoremapAssumption, IInv PROVE Managed \subseteq Frames \ {0}
BY DEF CoremapAssumption, IInv, TypeOK, Managed, Frames

\* Conversely, a frame that is neither clean nor frame 0 is Managed.
LEMMA InUseManaged ==
    ASSUME CoremapAssumption, IInv, NEW f \in Frames \ {0}, status[f] # "clean"
    PROVE  f \in Managed
BY DEF CoremapAssumption, IInv, TypeOK, StealFrontier, Managed, Frames

\* ram_stealmem: frames beyond the frontier have no user.
LEMMA StealInv ==
    ASSUME CoremapAssumption, IInv, NEW t \in Threads, Solo(t), Steal(t) PROVE IInv'
<1> USE CoremapAssumption DEF CoremapAssumption
<1> DEFINE c == call[t]
<1>0. /\ TypeOK /\ c \in Calls /\ c.pc = "steal" /\ CallShape(t) /\ HandState
      /\ current_victim \in Frames /\ firstpaddr \in FirstFree .. NFrames
      /\ c.npages \in 1 .. MaxReq /\ c.len = 0 /\ c.i = 0
  <2>1. TypeOK /\ c \in Calls /\ c.pc = "steal" /\ CallShape(t) /\ HandState
    BY DEF IInv, TypeOK, Steal, At
  <2>2. c.npages \in 1 .. MaxReq /\ c.len = 0 /\ c.i = 0
    BY <2>1 DEF CallShape, AllocPcs, Scanning
  <2> QED BY <2>1, <2>2 DEF TypeOK
<1>1. UNCHANGED <<status, as, vaddr, alloc_size, pfn, kheld, current_victim>>
  BY DEF Steal, entries
<1>2. CASE ~CanSteal(c.npages) /\ Becomes(t, [c EXCEPT !.pc = "wrap"]) /\ UNCHANGED firstpaddr
  <2> DEFINE d == [c EXCEPT !.pc = "wrap"]
  <2>1. /\ d \in Calls /\ d.pc = "wrap" /\ d.op = c.op /\ d.va = c.va /\ d.npages = c.npages
        /\ d.pos = c.pos /\ d.len = 0 /\ d.i = c.i /\ d.victim_va = c.victim_va
    BY <1>0 DEF Calls, Pcs
  <2>2. call'[t] = d /\ Becomes(t, d)
    BY <1>0, <1>2, <2>1, CallUpdate
  <2> HIDE DEF d
  <2>3. CallShape(t)'
    BY <1>0, <1>1, <2>1, <2>2 DEF CallShape, AllocPcs, Missing, Alone, Populated, Scanning
  <2>4. ScanState(t)' /\ EvictState(t)' /\ TakeState(t)' /\ InFlight(t) = {}
    BY <1>0, <2>1, <2>2 DEF ScanState, EvictState, TakeState, InFlight
  <2>5. current_victim # 0 \/ current_victim = 0
    OBVIOUS
  <2> QED BY <1>0, <1>1, <1>2, <2>1, <2>2, <2>3, <2>4, CallOnly
<1>3. CASE /\ CanSteal(c.npages) /\ firstpaddr' = firstpaddr + c.npages
           /\ Becomes(t, [c EXCEPT !.pc = Take(c), !.pos = firstpaddr])
  <2> DEFINE d == [c EXCEPT !.pc = Take(c), !.pos = firstpaddr]
             run == Run(firstpaddr, c.npages)
  <2>1. firstpaddr \in Frames /\ firstpaddr' \in FirstFree .. NFrames
    BY <1>0, <1>3 DEF CanSteal, Frames
  <2>2. /\ d \in Calls /\ d.pc = Take(c) /\ d.op = c.op /\ d.va = c.va /\ d.npages = c.npages
        /\ d.pos = firstpaddr /\ d.len = 0 /\ d.i = 0 /\ d.victim_va = c.victim_va
    BY <1>0, <2>1 DEF Calls, Pcs, Take
  <2>3. call'[t] = d /\ Solo(t)' /\ call' \in [Threads -> Calls]
    BY <1>0, <1>3, <2>2, CallUpdate
  <2> HIDE DEF d
  <2>4. \A f \in run : f \in firstpaddr .. NFrames - 1 /\ f \in Frames /\ f > 0 /\ status[f] = "clean"
    BY <1>0, <1>3, <2>1 DEF IInv, StealFrontier, CanSteal, Run, Frames
  <2>5. Unused(run)
    BY <2>4, UsersRecorded DEF Unused
  <2>6. d.pc \in {"claim", "mark"} /\ (d.pc = "claim" <=> c.op = "page_alloc")
    BY <2>2 DEF Take
  <2>7. InFlight(t) = {} /\ InFlight(t)' = run
    BY <1>0, <2>2, <2>3, <2>6 DEF InFlight
  <2>8. TypeOK'
    BY <1>0, <1>1, <2>1, <2>3 DEF TypeOK
  <2>9. FrameZero' /\ FreeReset' /\ PageFrameSound' /\ KernelBlocksIntact'
    BY <1>1, MemoryUnchanged
  <2>10. \A u \in Threads : InFlight(u) = {}
    BY <2>7 DEF Solo, IdleCall, InFlight
  <2>11. NoFixedLeak'
    BY <1>1, <2>10 DEF IInv, NoFixedLeak
  <2>12. StealFrontier'
    <3>1. \A f \in FirstFree .. firstpaddr' - 1 : f \in FirstFree .. firstpaddr - 1 \/ f \in run
      BY <1>0, <1>3 DEF Run
    <3>2. \A f \in firstpaddr' .. NFrames - 1 : f \in firstpaddr .. NFrames - 1
      BY <1>0, <1>3
    <3> QED BY <1>1, <2>7, <2>10, <3>1, <3>2 DEF IInv, StealFrontier
  <2>13. HandState'
    BY <1>0, <1>1, <2>2, <2>3, <2>6 DEF HandState, Mapped, Solo, IdleCall
  <2>14. CallShape(t)'
    BY <1>0, <1>1, <2>2, <2>3, <2>6 DEF CallShape, AllocPcs, Missing, Alone, Populated, Scanning, Take
  <2>15. ScanState(t)' /\ EvictState(t)'
    BY <2>2, <2>3, <2>6 DEF ScanState, EvictState
  <2>16. TakeState(t)'
    <3>1. Victims(d) = run
      BY <2>2 DEF Victims
    <3>2. run \subseteq Managed'
      BY <1>0, <1>3, <2>1 DEF Run, Managed
    <3>3. \A f \in run : ~Mapped(f)' /\ ~InBlock(f)'
      BY <1>1, <2>5 DEF Unused, Mapped, InBlock
    <3>4. firstpaddr \in run
      BY <1>0 DEF Run
    <3> HIDE DEF run
    <3> QED BY <1>1, <2>2, <2>3, <2>4, <2>6, <3>1, <3>2, <3>3, <3>4 DEF TakeState, Unused, Victims
  <2> QED BY <2>3, <2>8, <2>9, <2>11, <2>12, <2>13, <2>14, <2>15, <2>16, Assemble
<1> QED BY <1>2, <1>3 DEF Steal

\* pt_set_pa(victim_va, 0): the victim's page was the only one to name it.
LEMMA UnmapInv ==
    ASSUME CoremapAssumption, IInv, NEW t \in UserThreads, Solo(t), Unmap(t) PROVE IInv'
<1> USE CoremapAssumption DEF CoremapAssumption
<1>t. t \in Threads
  BY DEF Threads
<1> DEFINE c == call[t]
           d == IF c.i + 1 < c.npages
                THEN [c EXCEPT !.pc = "evict", !.i = c.i + 1]
                ELSE [c EXCEPT !.pc = Take(c), !.i = 0]
<1>0. TypeOK /\ c \in Calls /\ c.pc = "unmap" /\ CallShape(t) /\ EvictState(t) /\ HandState
  BY <1>t DEF IInv, TypeOK, Unmap, At
<1>1. UNCHANGED <<status, as, vaddr, alloc_size, firstpaddr, kheld, current_victim>>
  BY DEF Unmap, entries
<1>2. /\ c.npages \in 1 .. MaxReq /\ c.len = 0 /\ c.i \in Nat /\ c.i < c.npages /\ Alone(t)
      /\ c.pos \in Nat /\ c.victim_va \in Vas /\ c.i + 1 \in Nat
  BY <1>0, <1>t DEF CallShape, AllocPcs, Scanning, Calls, Frames
<1>3. /\ Victims(c) \subseteq Managed /\ AllEvictable(Victims(c))
      /\ \A f \in Run(c.pos, c.i) : ~Mapped(f)
      /\ c.victim_va = vaddr[c.pos + c.i] /\ c.pos + c.i \in Victims(c)
  BY <1>0, <1>2 DEF EvictState, Victims, Run
<1>4. pfn' = [pfn EXCEPT ![t][c.victim_va] = PFN_NOT_USED] /\ Becomes(t, d)
  <2>1. CASE c.i + 1 < c.npages
    BY <1>2, <2>1 DEF Unmap
  <2>2. CASE c.i + 1 >= c.npages
    BY <1>2, <2>2 DEF Unmap
  <2> QED BY <1>2, <2>1, <2>2
<1>5. /\ d \in Calls /\ d.op = c.op /\ d.va = c.va /\ d.npages = c.npages
      /\ d.pos = c.pos /\ d.len = 0 /\ d.victim_va = c.victim_va
      /\ \/ d.pc = "evict" /\ d.i = c.i + 1 /\ c.i + 1 < c.npages
         \/ d.pc = Take(c) /\ d.i = 0 /\ c.i + 1 = c.npages
  <2>1. CASE c.i + 1 < c.npages
    BY <1>0, <1>2, <2>1 DEF Calls, Pcs
  <2>2. CASE c.i + 1 >= c.npages
    <3>1. Take(c) \in Pcs
      BY DEF Take, Pcs
    <3>2. d = [c EXCEPT !.pc = Take(c), !.i = 0] /\ c.i + 1 = c.npages
      BY <1>2, <2>2
    <3> QED BY <1>0, <1>2, <3>1, <3>2 DEF Calls
  <2> QED BY <1>2, <2>1, <2>2
<1>6. call'[t] = d /\ Solo(t)' /\ call' \in [Threads -> Calls]
  BY <1>0, <1>t, <1>4, <1>5, CallUpdate
<1> HIDE DEF d
\* The page table only loses entries, one of them the victim's.
<1>7. /\ \A u \in UserThreads, v \in Vas : pfn'[u][v] = pfn[u][v] \/ pfn'[u][v] = 0
      /\ pfn'[t][c.victim_va] = 0
      /\ \A u \in UserThreads \ {t}, v \in Vas : pfn'[u][v] = pfn[u][v]
      /\ pfn' \in [UserThreads -> [Vas -> Frames \cup {NotValid}]]
  BY <1>0, <1>2, <1>4 DEF TypeOK, PFN_NOT_USED, Frames
<1>8. \A f \in Managed : Mapped(f)' => Mapped(f)
  BY <1>7, ManagedFrames DEF Mapped
<1>9. \A u \in UserThreads, v \in Vas : pfn'[u][v] # c.pos + c.i
  <2>1. SUFFICES ASSUME NEW u \in UserThreads, NEW v \in Vas, pfn'[u][v] = c.pos + c.i PROVE FALSE
    OBVIOUS
  <2>2. c.pos + c.i \in Frames \ {0} /\ c.pos + c.i > 0
    BY <1>3, ManagedFrames DEF Frames
  <2>3. pfn[u][v] = c.pos + c.i
    BY <1>7, <2>1, <2>2
  <2>4. u = t
    BY <1>2, <2>2, <2>3 DEF Alone, Populated, NotValid, Frames
  <2>5. v = c.victim_va
    <3>1. pfn[u][v] > 0 => vaddr[pfn[u][v]] = v
      BY DEF IInv, PageFrameSound
    <3> QED BY <1>3, <2>2, <2>3, <3>1
  <2> QED BY <1>7, <2>1, <2>2, <2>4, <2>5
<1>10. \A f \in Run(c.pos, c.i + 1) : ~Mapped(f)'
  <2>1. \A f \in Run(c.pos, c.i) : f \in Victims(c)
    BY <1>2 DEF Run, Victims
  <2>2. \A f \in Run(c.pos, c.i) : ~Mapped(f)'
    BY <1>3, <1>8, <2>1
  <2>3. \A f \in Run(c.pos, c.i + 1) : f \in Run(c.pos, c.i) \/ f = c.pos + c.i
    BY <1>2, RunExtend
  <2> QED BY <1>9, <2>2, <2>3 DEF Mapped
<1>11. TypeOK'
  BY <1>0, <1>1, <1>6, <1>7 DEF TypeOK
<1>12. FrameZero' /\ FreeReset' /\ KernelBlocksIntact'
  BY <1>1 DEF IInv, FrameZero, FreeReset, KernelBlocksIntact
<1>13. PageFrameSound'
  <2>1. SUFFICES ASSUME NEW u \in UserThreads, NEW v \in Vas, pfn'[u][v] > 0
                 PROVE  /\ status'[pfn'[u][v]] = "dirty" /\ as'[pfn'[u][v]] = u
                        /\ vaddr'[pfn'[u][v]] = v
    BY DEF PageFrameSound
  <2>2. pfn'[u][v] = pfn[u][v]
    BY <1>7, <2>1
  <2>3. pfn[u][v] > 0 => status[pfn[u][v]] = "dirty" /\ as[pfn[u][v]] = u /\ vaddr[pfn[u][v]] = v
    BY DEF IInv, PageFrameSound
  <2> QED BY <1>1, <2>1, <2>2, <2>3
<1>14. \A u \in Threads : InFlight(u) = {}
  BY <1>0 DEF Solo, IdleCall, InFlight
<1>15. NoFixedLeak' /\ StealFrontier'
  BY <1>1, <1>14 DEF IInv, NoFixedLeak, StealFrontier
<1>16. HandState'
  BY <1>0, <1>1, <1>t DEF HandState
<1>17. CallShape(t)'
  <2>1. Alone(t)'
    BY <1>2, <1>7 DEF Alone, Populated
  <2>2. c.op = "page_alloc" => c.va \in Pages /\ pfn'[t][c.va] \in {NotValid, PFN_NOT_USED}
    BY <1>0, <1>7 DEF CallShape, AllocPcs, Missing, PFN_NOT_USED, Vas
  <2> QED BY <1>0, <1>2, <1>5, <1>6, <2>1, <2>2 DEF CallShape, AllocPcs, Scanning, Take, Missing
<1>18. EvictState(t)'
  <2>1. Victims(call'[t]) = Victims(c)
    BY <1>5, <1>6 DEF Victims
  <2>2. Managed' = Managed /\ \A f : Evictable(f)' = Evictable(f)
    BY <1>1 DEF Managed, Evictable
  <2> QED BY <1>2, <1>3, <1>5, <1>6, <1>10, <2>1, <2>2 DEF EvictState, AllEvictable, Take
<1>19. TakeState(t)'
  <2>1. CASE d.pc = "evict"
    BY <1>6, <2>1 DEF TakeState
  <2>2. CASE d.pc = Take(c) /\ c.i + 1 = c.npages
    <3>1. Victims(call'[t]) = Victims(c) /\ Victims(c) = Run(c.pos, c.i + 1) /\ Managed' = Managed
      BY <1>1, <1>5, <1>6, <2>2 DEF Victims, Managed
    <3>2. \A f \in Victims(c) : ~Mapped(f)' /\ ~InBlock(f)' /\ status[f] # "fixed"
      <4>1. \A f \in Victims(c) : status[f] # "fixed" /\ ~InBlock(f)
        BY <1>3, UsersRecorded, ManagedFrames DEF AllEvictable, Evictable
      <4> QED BY <1>1, <1>10, <3>1, <4>1 DEF InBlock
    <3>3. c.pos \in Victims(c)
      BY <1>2 DEF Victims, Run
    <3> QED BY <1>1, <1>3, <1>5, <1>6, <2>2, <3>1, <3>2, <3>3 DEF TakeState, Unused, Take
  <2> QED BY <1>5, <2>1, <2>2
<1>20. ScanState(t)'
  BY <1>5, <1>6 DEF ScanState, Take
<1> QED BY <1>t, <1>6, <1>11, <1>12, <1>13, <1>15, <1>16, <1>17, <1>18, <1>19, <1>20, Assemble

\* The parts of the invariant about the entries of memory, when the frames of
\* `run', which nobody uses, change hands.
LEMMA SoundOutside ==
    ASSUME IInv, NEW run, \A f \in run : ~Mapped(f),
           \A f \in Frames \ run : status'[f] = status[f] /\ as'[f] = as[f] /\ vaddr'[f] = vaddr[f],
           UNCHANGED pfn
    PROVE  PageFrameSound'
<1>1. SUFFICES ASSUME NEW u \in UserThreads, NEW v \in Vas, pfn'[u][v] > 0
               PROVE  /\ status'[pfn'[u][v]] = "dirty" /\ as'[pfn'[u][v]] = u
                      /\ vaddr'[pfn'[u][v]] = v
  BY DEF PageFrameSound
<1>2. pfn[u][v] \in Frames
  BY <1>1 DEF IInv, TypeOK, NotValid
<1>3. pfn[u][v] \notin run
  BY DEF Mapped
<1>4. pfn[u][v] > 0 => status[pfn[u][v]] = "dirty" /\ as[pfn[u][v]] = u /\ vaddr[pfn[u][v]] = v
  BY DEF IInv, PageFrameSound
<1> QED BY <1>1, <1>2, <1>3, <1>4

\* Likewise for the kernel's blocks.
LEMMA BlocksOutside ==
    ASSUME CoremapAssumption, IInv, NEW run, \A f \in run : ~InBlock(f),
           \A f \in Frames \ run : status'[f] = status[f] /\ alloc_size'[f] = alloc_size[f],
           UNCHANGED kheld
    PROVE  KernelBlocksIntact'
<1>1. ASSUME NEW b \in kheld, NEW f \in Frames_of(b)
      PROVE  f \in Frames /\ f \notin run /\ b.first \in Frames_of(b)
  BY <1>1 DEF CoremapAssumption, IInv, TypeOK, KernelBlocksIntact, InBlock, Frames_of, Run, Frames
<1>2. ASSUME NEW b \in kheld PROVE b.first \in Frames /\ b.first \notin run
  <2>1. b.first \in Frames_of(b)
    BY <1>2 DEF IInv, TypeOK, Frames_of, Run, Frames
  <2> QED BY <1>1, <2>1
<1> QED BY <1>1, <1>2 DEF IInv, KernelBlocksIntact

\* getppage_user records its frame.
LEMMA ClaimInv ==
    ASSUME CoremapAssumption, IInv, NEW t \in Threads, Solo(t), Claim(t) PROVE IInv'
<1> USE CoremapAssumption DEF CoremapAssumption
<1> DEFINE c == call[t]  d == [c EXCEPT !.pc = "map"]  p == c.pos
<1>0. TypeOK /\ c \in Calls /\ c.pc = "claim" /\ CallShape(t) /\ TakeState(t) /\ HandState
  BY DEF IInv, TypeOK, Claim, At
<1>1. /\ c.op = "page_alloc" /\ c.npages = 1 /\ c.len = 0 /\ c.i = 0 /\ t \in UserThreads
      /\ c.va \in Pages /\ c.va \in Vas
  BY <1>0 DEF CallShape, AllocPcs, Scanning, Vas
<1>2. p \in Victims(c) /\ Victims(c) = {p} /\ p \in Nat
  BY <1>0, <1>1 DEF Victims, Run, Calls, Frames
<1>3. p \in Managed /\ p \in Frames \ {0} /\ ~Mapped(p) /\ ~InBlock(p) /\ p >= FirstFree
  BY <1>0, <1>2, ManagedFrames DEF TakeState, Unused, Managed
<1>4. /\ d \in Calls /\ d.pc = "map" /\ d.op = c.op /\ d.va = c.va /\ d.npages = c.npages
      /\ d.pos = p /\ d.len = c.len /\ d.i = c.i /\ d.victim_va = c.victim_va
  BY <1>0 DEF Calls, Pcs
<1>5. call'[t] = d /\ Solo(t)' /\ call' \in [Threads -> Calls]
  BY <1>0, <1>4, CallUpdate DEF Claim
<1> HIDE DEF d
<1>6. UNCHANGED <<firstpaddr, current_victim, pfn, kheld>>
  BY DEF Claim
<1>7. /\ status' = [status EXCEPT ![p] = "dirty"] /\ as' = [as EXCEPT ![p] = t]
      /\ vaddr' = [vaddr EXCEPT ![p] = c.va] /\ alloc_size' = [alloc_size EXCEPT ![p] = 1]
  BY DEF Claim
<1> HIDE DEF p
<1>8. TypeOK'
  <2>1. /\ status' \in [Frames -> Status] /\ as' \in [Frames -> Threads \cup {NoAs}]
        /\ vaddr' \in [Frames -> Vas]
    BY <1>0, <1>1, <1>3, <1>7 DEF TypeOK, Status
  <2>2. alloc_size' \in [Frames -> 0 .. MaxReq]
    BY <1>0, <1>3, <1>7 DEF TypeOK
  <2> QED BY <1>0, <1>5, <1>6, <2>1, <2>2 DEF TypeOK
<1>9. \A f \in Frames \ {p} : /\ status'[f] = status[f] /\ as'[f] = as[f]
                              /\ vaddr'[f] = vaddr[f] /\ alloc_size'[f] = alloc_size[f]
  BY <1>0, <1>7 DEF TypeOK
<1>10. status'[p] = "dirty" /\ as'[p] = t /\ vaddr'[p] = c.va
  BY <1>0, <1>3, <1>7 DEF TypeOK
<1>11. PageFrameSound' /\ KernelBlocksIntact'
  <2>1. \A f \in {p} : ~Mapped(f) /\ ~InBlock(f)
    BY <1>3
  <2>2. PageFrameSound'
    BY <1>6, <1>9, <2>1, SoundOutside, ZenonT(40)
  <2>3. KernelBlocksIntact'
    BY <1>6, <1>9, <2>1, BlocksOutside, ZenonT(40)
  <2> QED BY <2>2, <2>3
<1>12. FrameZero' /\ FreeReset'
  <2>1. 0 \in Frames \ {p} /\ FrameZero /\ FreeReset
    BY <1>3 DEF Frames, IInv
  <2>2. FrameZero'
    BY <1>9, <2>1 DEF FrameZero
  <2>3. FreeReset'
    BY <1>9, <1>10, <2>1 DEF FreeReset
  <2> QED BY <2>2, <2>3
<1>13. \A u \in Threads, f \in Frames \ {p} : f \notin InFlight(u)
  BY <1>0, <1>2 DEF Solo, IdleCall, InFlight, Victims
<1>14. NoFixedLeak'
  BY <1>6, <1>9, <1>10, <1>13 DEF IInv, NoFixedLeak
<1>15. StealFrontier'
  <2>1. p \in FirstFree .. firstpaddr - 1 /\ firstpaddr \in FirstFree .. NFrames
    BY <1>0, <1>3 DEF Managed, TypeOK
  <2>2. /\ \A f \in 1 .. FirstFree - 1 : f \in Frames \ {p}
        /\ \A f \in firstpaddr .. NFrames - 1 : f \in Frames \ {p}
        /\ \A f \in FirstFree .. firstpaddr - 1 : f = p \/ f \in Frames \ {p}
    BY <2>1 DEF Frames
  <2>3. StealFrontier
    BY DEF IInv
  <2> QED BY <1>6, <1>9, <1>10, <1>13, <2>2, <2>3 DEF StealFrontier
<1>16. HandState'
  <2>1. 0 \in Frames \ {p}
    BY <1>3 DEF Frames
  <2>2. \A u \in Threads : call'[u].pc \notin {"test", "evict", "unmap"}
    BY <1>4, <1>5 DEF Solo, IdleCall
  <2> QED BY <1>0, <1>6, <1>9, <2>1, <2>2 DEF HandState, Mapped
<1>17. CallShape(t)'
  BY <1>0, <1>1, <1>4, <1>5, <1>6 DEF CallShape, AllocPcs, Missing, Alone, Populated, Scanning
<1>18. ScanState(t)' /\ EvictState(t)'
  BY <1>4, <1>5 DEF ScanState, EvictState
<1>19. TakeState(t)'
  BY <1>3, <1>4, <1>5, <1>6, <1>10 DEF TakeState, Managed, Mapped
<1> QED BY <1>5, <1>8, <1>11, <1>12, <1>14, <1>15, <1>16, <1>17, <1>18, <1>19, Assemble

\* A step that ends the call of t leaves nothing to say about it.
LEMMA EndsIdle ==
    ASSUME NEW t \in Threads, call'[t] = IdleCall
    PROVE  CallShape(t)' /\ ScanState(t)' /\ EvictState(t)' /\ TakeState(t)'
BY DEF CallShape, ScanState, EvictState, TakeState, IdleCall, AllocPcs

\* vm_fault enters the frame in the page table.
LEMMA MapInv ==
    ASSUME CoremapAssumption, IInv, NEW t \in UserThreads, Solo(t), Map(t) PROVE IInv'
<1> USE CoremapAssumption DEF CoremapAssumption
<1>t. t \in Threads
  BY DEF Threads
<1> DEFINE c == call[t]  p == c.pos
<1>0. TypeOK /\ c \in Calls /\ c.pc = "map" /\ CallShape(t) /\ TakeState(t) /\ HandState
  BY <1>t DEF IInv, TypeOK, Map, At
<1>1. c.va \in Vas /\ p \in Managed /\ p \in Frames \ {0} /\ p > 0
  BY <1>0, ManagedFrames DEF CallShape, AllocPcs, Vas, TakeState, Frames
<1>2. status[p] = "dirty" /\ as[p] = t /\ vaddr[p] = c.va
  BY <1>0 DEF TakeState
<1>3. call'[t] = IdleCall /\ Solo(t)' /\ call' \in [Threads -> Calls]
  BY <1>0, <1>t, IdleTyped, CallUpdate DEF Map
<1>4. UNCHANGED <<status, as, vaddr, alloc_size, firstpaddr, current_victim, kheld>>
  BY DEF Map, entries
<1>5. /\ pfn' = [pfn EXCEPT ![t][c.va] = p] /\ pfn' \in [UserThreads -> [Vas -> Frames \cup {NotValid}]]
  BY <1>0, <1>1 DEF Map, TypeOK
<1>6. TypeOK'
  BY <1>0, <1>3, <1>4, <1>5 DEF TypeOK
<1>7. FrameZero' /\ FreeReset' /\ KernelBlocksIntact'
  BY <1>4 DEF IInv, FrameZero, FreeReset, KernelBlocksIntact
<1>8. PageFrameSound'
  <2>1. SUFFICES ASSUME NEW u \in UserThreads, NEW v \in Vas, pfn'[u][v] > 0
                 PROVE  /\ status'[pfn'[u][v]] = "dirty" /\ as'[pfn'[u][v]] = u
                        /\ vaddr'[pfn'[u][v]] = v
    BY DEF PageFrameSound
  <2>2. CASE u = t /\ v = c.va
    BY <1>0, <1>1, <1>2, <1>4, <1>5, <2>2 DEF TypeOK
  <2>3. CASE ~(u = t /\ v = c.va)
    <3>1. pfn'[u][v] = pfn[u][v]
      BY <1>0, <1>1, <1>5, <2>3 DEF TypeOK
    <3>2. pfn[u][v] > 0 => status[pfn[u][v]] = "dirty" /\ as[pfn[u][v]] = u /\ vaddr[pfn[u][v]] = v
      BY DEF IInv, PageFrameSound
    <3> QED BY <1>4, <2>1, <3>1, <3>2
  <2> QED BY <2>2, <2>3
<1>9. \A u \in Threads : InFlight(u) = {} /\ InFlight(u)' = {}
  BY <1>0, <1>3 DEF Solo, IdleCall, InFlight
<1>10. NoFixedLeak' /\ StealFrontier'
  BY <1>4, <1>9 DEF IInv, NoFixedLeak, StealFrontier
<1>11. HandState'
  <2>1. ~Mapped(0) => ~Mapped(0)'
    BY <1>0, <1>1, <1>5 DEF Mapped, TypeOK
  <2> QED BY <1>0, <1>3, <1>4, <2>1 DEF HandState, Solo, IdleCall
<1> QED BY <1>t, <1>3, <1>6, <1>7, <1>8, <1>10, <1>11, EndsIdle, Assemble

\* Entries below the steal frontier may change, if none becomes clean and the
\* frames being recorded are among them.
LEMMA FrontierKept ==
    ASSUME CoremapAssumption, IInv, NEW t \in Threads, Solo(t), UNCHANGED firstpaddr,
           NEW run \in SUBSET (Managed \cup {0}), InFlight(t) \subseteq run,
           \A f \in Frames \ run : status'[f] = status[f],
           \A f \in run : status'[f] # "clean"
    PROVE  StealFrontier'
<1>1. /\ StealFrontier /\ firstpaddr \in FirstFree .. NFrames /\ FirstFree \in Nat
      /\ FirstFree >= 2 /\ NFrames \in Nat
  BY DEF IInv, TypeOK, CoremapAssumption
<1>2. /\ \A f \in 1 .. FirstFree - 1 : f \in Frames \ run
      /\ \A f \in firstpaddr .. NFrames - 1 : f \in Frames \ run
      /\ \A f \in FirstFree .. firstpaddr - 1 : f \in Frames
  BY <1>1 DEF Managed, Frames
<1>3. \A f \in Frames \ run, u \in Threads : f \notin InFlight(u)
  BY DEF Solo, IdleCall, InFlight
<1>4. \A f \in FirstFree .. firstpaddr - 1 : status'[f] # "clean"
  BY <1>1, <1>2, <1>3 DEF StealFrontier
<1> QED BY <1>1, <1>2, <1>4 DEF StealFrontier

\* getppages marks its run fixed: it becomes a block of the kernel.
LEMMA MarkInv ==
    ASSUME CoremapAssumption, IInv, NEW t \in Threads, Solo(t), Mark(t) PROVE IInv'
<1> USE CoremapAssumption DEF CoremapAssumption
<1> DEFINE c == call[t]  p == c.pos  n == c.npages  run == Run(p, n)  b == Block(p, n)
<1>0. TypeOK /\ c \in Calls /\ c.pc = "mark" /\ CallShape(t) /\ TakeState(t) /\ HandState
  BY DEF IInv, TypeOK, Mark, At
<1>1. n \in 1 .. MaxReq /\ p \in Frames /\ p \in Nat
  BY <1>0 DEF CallShape, AllocPcs, Calls, Frames
<1>2. /\ run \subseteq Managed /\ run \subseteq Frames \ {0} /\ p \in run
      /\ \A f \in run : ~Mapped(f) /\ ~InBlock(f)
  <2>1. run \subseteq Managed /\ Unused(run)
    BY <1>0 DEF TakeState, Victims
  <2>2. p \in run
    BY <1>1 DEF Run
  <2> QED BY <2>1, <2>2, ManagedFrames DEF Unused
<1>3. call'[t] = IdleCall /\ Solo(t)' /\ call' \in [Threads -> Calls]
  BY <1>0, IdleTyped, CallUpdate DEF Mark
<1>4. /\ status' = [f \in Frames |-> IF f \in run THEN "fixed" ELSE status[f]]
      /\ alloc_size' = [alloc_size EXCEPT ![p] = n]
      /\ kheld' = kheld \cup {b}
      /\ UNCHANGED <<as, vaddr, firstpaddr, current_victim, pfn>>
  BY DEF Mark, Fix
<1>5. b \in [first : Frames, n : 1 .. MaxReq] /\ b.first = p /\ b.n = n /\ Frames_of(b) = run
  BY <1>1 DEF Block, Frames_of
<1>6. InFlight(t) = run
  BY <1>0 DEF InFlight
<1> HIDE DEF c, p, n, run, b
<1>7. /\ \A f \in Frames \ run : status'[f] = status[f] /\ alloc_size'[f] = alloc_size[f]
      /\ \A f \in run : status'[f] = "fixed"
      /\ alloc_size'[p] = n
  BY <1>0, <1>1, <1>2, <1>4 DEF TypeOK
<1>8. TypeOK'
  <2>1. status' \in [Frames -> Status] /\ alloc_size' \in [Frames -> 0 .. MaxReq]
    BY <1>0, <1>1, <1>4 DEF TypeOK, Status
  <2>2. kheld' \subseteq [first : Frames, n : 1 .. MaxReq]
    BY <1>0, <1>4, <1>5 DEF TypeOK
  <2> QED BY <1>0, <1>3, <1>4, <2>1, <2>2 DEF TypeOK
<1>9. PageFrameSound'
  BY <1>2, <1>4, <1>7, SoundOutside
<1>10. KernelBlocksIntact'
  <2>1. KernelBlocksIntact
    BY DEF IInv
  <2>2. ASSUME NEW a \in kheld
        PROVE  /\ a.first \in Frames \ run /\ Frames_of(a) \subseteq Frames \ run
    <3>1. a.first \in Nat /\ a.n \in Nat /\ a.n >= 1 /\ a.first >= FirstFree /\ a.first + a.n <= NFrames
      BY <1>0, <2>1 DEF TypeOK, KernelBlocksIntact, Frames
    <3>2. a.first \in Frames_of(a) /\ Frames_of(a) \subseteq Frames
      BY <3>1 DEF Frames_of, Run, Frames
    <3>3. \A f \in Frames_of(a) : f \notin run
      BY <1>2 DEF InBlock
    <3> QED BY <3>2, <3>3
  <2>3. p >= FirstFree /\ p + n <= NFrames
    <3>1. p + n - 1 \in run
      BY <1>1 DEF run, Run
    <3>2. p \in Managed /\ p + n - 1 \in Managed /\ firstpaddr \in FirstFree .. NFrames
      BY <1>0, <1>2, <3>1 DEF TypeOK
    <3> QED BY <1>1, <3>2 DEF Managed
  <2>4. \A a \in kheld' :
          /\ a.first >= FirstFree /\ a.first + a.n <= NFrames
          /\ alloc_size'[a.first] = a.n
          /\ \A f \in Frames_of(a) : status'[f] = "fixed"
    <3>1. ASSUME NEW a \in kheld
          PROVE  /\ a.first >= FirstFree /\ a.first + a.n <= NFrames
                 /\ alloc_size'[a.first] = a.n
                 /\ \A f \in Frames_of(a) : status'[f] = "fixed"
      BY <1>7, <2>1, <2>2 DEF KernelBlocksIntact
    <3> QED BY <1>4, <1>5, <1>7, <2>3, <3>1
  <2>5. \A a, e \in kheld' : a # e => Frames_of(a) \cap Frames_of(e) = {}
    BY <1>4, <1>5, <2>1, <2>2 DEF KernelBlocksIntact
  <2> QED BY <2>4, <2>5 DEF KernelBlocksIntact
<1>11. FrameZero' /\ FreeReset'
  <2>1. 0 \in Frames \ run /\ FrameZero /\ FreeReset
    BY <1>2 DEF Frames, IInv
  <2> QED BY <1>2, <1>4, <1>7, <2>1 DEF FrameZero, FreeReset
<1>12. NoFixedLeak'
  <2>1. NoFixedLeak
    BY DEF IInv
  <2>2. \A u \in Threads : InFlight(u) \subseteq run
    BY <1>6 DEF Solo, IdleCall, InFlight
  <2> QED BY <1>4, <1>5, <1>7, <2>1, <2>2 DEF NoFixedLeak
<1>13. StealFrontier'
  BY <1>2, <1>4, <1>6, <1>7, FrontierKept
<1>14. HandState'
  <2>1. 0 \in Frames \ run
    BY <1>2 DEF Frames
  <2>2. \A u \in Threads : call'[u].pc \notin {"test", "evict", "unmap"}
    BY <1>3 DEF Solo, IdleCall
  <2> QED BY <1>0, <1>4, <1>7, <2>1, <2>2 DEF HandState, Mapped
<1> QED BY <1>3, <1>8, <1>9, <1>10, <1>11, <1>12, <1>13, <1>14, EndsIdle, Assemble

\* What a thread outside the allocator looks like.
LEMMA IdleHere ==
    ASSUME IInv, NEW t \in Threads, At(t, "idle")
    PROVE  call[t] = IdleCall /\ InFlight(t) = {} /\ IdleCall.pc = "idle"
BY DEF IInv, CallShape, At, InFlight, IdleCall

\* A free frame has no user and was handed out by ram_stealmem.
LEMMA FreeUnused ==
    ASSUME CoremapAssumption, IInv, NEW f \in Frames \ {0}, status[f] = "free"
    PROVE  f \in Managed /\ ~Mapped(f) /\ ~InBlock(f)
BY InUseManaged, UsersRecorded

\* getppage_user's search: the frame found is free, or the call goes on.
LEMMA UserSearchInv ==
    ASSUME CoremapAssumption, IInv, NEW t \in UserThreads, Solo(t), Alone(t),
           NEW v \in Pages, UserSearch(t, v)
    PROVE  IInv'
<1> USE CoremapAssumption DEF CoremapAssumption
<1>t. t \in Threads /\ v \in Vas
  BY DEF Threads, Vas
<1> DEFINE c == [IdleCall EXCEPT !.op = "page_alloc", !.va = v, !.npages = 1]
<1>0. TypeOK /\ HandState /\ current_victim \in Frames /\ Missing(t, v)
  BY DEF IInv, TypeOK, UserSearch
<1>1. call[t] = IdleCall /\ InFlight(t) = {}
  BY <1>t, IdleHere DEF UserSearch
<1>2. UNCHANGED <<status, as, vaddr, alloc_size, firstpaddr, pfn, kheld, current_victim>>
  BY DEF UserSearch, entries
<1>3. /\ c \in Calls /\ c.op = "page_alloc" /\ c.va = v /\ c.npages = 1 /\ c.pos = 0
      /\ c.len = 0 /\ c.i = 0 /\ c.victim_va = VaZero
  <2>1. IdleCall \in Calls
    BY IdleTyped
  <2>2. IdleCall.pos = 0 /\ IdleCall.len = 0 /\ IdleCall.i = 0 /\ IdleCall.victim_va = VaZero
    BY DEF IdleCall
  <2>3. "page_alloc" \in Ops /\ 1 \in 0 .. MaxReq
    BY DEF Ops
  <2>4. c \in Calls
    BY <1>t, <2>1, <2>3 DEF Calls
  <2> QED BY <2>1, <2>2, <2>4 DEF Calls
<1> HIDE DEF c
<1>4. CASE \E f \in Frames : LeastFree(f) /\ Becomes(t, [c EXCEPT !.pc = "claim", !.pos = f])
  <2>1. PICK f \in Frames : LeastFree(f) /\ Becomes(t, [c EXCEPT !.pc = "claim", !.pos = f])
    BY <1>4
  <2> DEFINE d == [c EXCEPT !.pc = "claim", !.pos = f]
  <2>2. /\ d \in Calls /\ d.pc = "claim" /\ d.op = "page_alloc" /\ d.va = v /\ d.npages = 1
        /\ d.pos = f /\ d.len = 0 /\ d.i = 0
    BY <1>3 DEF Calls, Pcs
  <2>3. call'[t] = d /\ Becomes(t, d)
    BY <1>0, <1>t, <2>1, <2>2, CallUpdate
  <2> HIDE DEF d
  <2>4. f \in Managed /\ ~Mapped(f) /\ ~InBlock(f) /\ status[f] = "free"
    BY <2>1, FreeUnused DEF LeastFree
  <2>5. CallShape(t)'
    BY <1>0, <1>2, <2>2, <2>3 DEF CallShape, AllocPcs, Missing, Alone, Populated, Scanning
  <2>6. ScanState(t)' /\ EvictState(t)'
    BY <2>2, <2>3 DEF ScanState, EvictState
  <2>7. TakeState(t)'
    <3>1. Victims(call'[t]) = {f}
      BY <2>2, <2>3 DEF Victims, Run, Frames
    <3> QED BY <1>2, <2>2, <2>3, <2>4, <3>1 DEF TakeState, Unused, Managed, Mapped, InBlock
  <2> QED BY <1>0, <1>1, <1>2, <1>t, <2>2, <2>3, <2>5, <2>6, <2>7, CallOnly
<1>5. CASE Becomes(t, [c EXCEPT !.pc = "steal"])
  <2> DEFINE d == [c EXCEPT !.pc = "steal"]
  <2>2. /\ d \in Calls /\ d.pc = "steal" /\ d.op = "page_alloc" /\ d.va = v /\ d.npages = 1
        /\ d.len = 0 /\ d.i = 0
    BY <1>3 DEF Calls, Pcs
  <2>3. call'[t] = d /\ Becomes(t, d)
    BY <1>0, <1>t, <1>5, <2>2, CallUpdate
  <2> HIDE DEF d
  <2>5. CallShape(t)'
    BY <1>0, <1>2, <2>2, <2>3 DEF CallShape, AllocPcs, Missing, Alone, Populated, Scanning
  <2>6. ScanState(t)' /\ EvictState(t)' /\ TakeState(t)'
    BY <2>2, <2>3 DEF ScanState, EvictState, TakeState
  <2> QED BY <1>0, <1>1, <1>2, <1>t, <2>2, <2>3, <2>5, <2>6, CallOnly
<1> QED BY <1>4, <1>5 DEF UserSearch, c

\* getfreeppages: the run found is free and at once fixed.
LEMMA KernSearchInv ==
    ASSUME CoremapAssumption, IInv, NEW t \in Threads, Solo(t),
           t \in UserThreads => Alone(t), NEW n \in 1 .. MaxReq, KernSearch(t, n)
    PROVE  IInv'
<1> USE CoremapAssumption DEF CoremapAssumption
<1> DEFINE c == [IdleCall EXCEPT !.op = "alloc_kpages", !.npages = n]
<1>0. TypeOK /\ HandState /\ current_victim \in Frames
  BY DEF IInv, TypeOK
<1>1. call[t] = IdleCall /\ InFlight(t) = {}
  BY IdleHere DEF KernSearch
<1>2. UNCHANGED <<as, vaddr, firstpaddr, pfn, kheld, current_victim>>
  BY DEF KernSearch
<1>3. /\ c \in Calls /\ c.op = "alloc_kpages" /\ c.npages = n /\ c.pos = 0
      /\ c.len = 0 /\ c.i = 0
  <2>1. IdleCall \in Calls
    BY IdleTyped
  <2>2. IdleCall.pos = 0 /\ IdleCall.len = 0 /\ IdleCall.i = 0
    BY DEF IdleCall
  <2>3. "alloc_kpages" \in Ops /\ n \in 0 .. MaxReq
    BY DEF Ops
  <2>4. c \in Calls
    BY <2>1, <2>3 DEF Calls
  <2> QED BY <2>1, <2>2, <2>4 DEF Calls
<1> HIDE DEF c
<1>4. CASE Becomes(t, [c EXCEPT !.pc = "steal"]) /\ UNCHANGED <<status, alloc_size>>
  <2> DEFINE d == [c EXCEPT !.pc = "steal"]
  <2>2. /\ d \in Calls /\ d.pc = "steal" /\ d.op = "alloc_kpages" /\ d.npages = n
        /\ d.len = 0 /\ d.i = 0
    BY <1>3 DEF Calls, Pcs
  <2>3. call'[t] = d /\ Becomes(t, d)
    BY <1>0, <1>4, <2>2, CallUpdate
  <2> HIDE DEF d
  <2>5. CallShape(t)'
    BY <1>0, <1>2, <2>2, <2>3 DEF CallShape, AllocPcs, Alone, Populated, Scanning
  <2>6. ScanState(t)' /\ EvictState(t)' /\ TakeState(t)'
    BY <2>2, <2>3 DEF ScanState, EvictState, TakeState
  <2> QED BY <1>0, <1>1, <1>2, <1>4, <2>2, <2>3, <2>5, <2>6, CallOnly
<1>5. ASSUME NEW f \in Frames, FirstFreeRun(f, n), Fix(Run(f, n)),
             alloc_size' = [alloc_size EXCEPT ![f] = n],
             Becomes(t, [c EXCEPT !.pc = "mark", !.pos = f])
      PROVE  IInv'
  <2> DEFINE d == [c EXCEPT !.pc = "mark", !.pos = f]  run == Run(f, n)
  <2>1. /\ d \in Calls /\ d.pc = "mark" /\ d.op = "alloc_kpages" /\ d.npages = n
        /\ d.pos = f /\ d.len = 0 /\ d.i = 0
    BY <1>3 DEF Calls, Pcs
  <2>2. call'[t] = d /\ Solo(t)' /\ call' \in [Threads -> Calls]
    BY <1>0, <1>5, <2>1, CallUpdate
  <2> HIDE DEF d
  <2>3. f \in run /\ run \subseteq Frames \ {0} /\ \A g \in run : status[g] = "free"
    BY <1>5 DEF FirstFreeRun, FreeRunAt, Run, Frames
  <2>4. run \subseteq Managed /\ \A g \in run : ~Mapped(g) /\ ~InBlock(g)
    BY <2>3, FreeUnused
  <2>5. InFlight(t)' = run
    BY <2>1, <2>2 DEF InFlight
  <2>5a. status' = [g \in Frames |-> IF g \in run THEN "fixed" ELSE status[g]]
    BY <1>5 DEF Fix
  <2> HIDE DEF run
  <2>6. /\ \A g \in Frames \ run : status'[g] = status[g] /\ alloc_size'[g] = alloc_size[g]
        /\ \A g \in run : status'[g] = "fixed"
    BY <1>0, <1>5, <2>3, <2>5a DEF TypeOK
  <2>7. TypeOK'
    <3>1. status' \in [Frames -> Status] /\ alloc_size' \in [Frames -> 0 .. MaxReq]
      BY <1>0, <1>5, <2>5a DEF TypeOK, Status
    <3> QED BY <1>0, <1>2, <2>2, <3>1 DEF TypeOK
  <2>8. PageFrameSound'
    BY <1>2, <2>4, <2>6, SoundOutside
  <2>9. KernelBlocksIntact'
    BY <1>2, <2>4, <2>6, BlocksOutside
  <2>10. FrameZero' /\ FreeReset'
    <3>1. 0 \in Frames \ run /\ FrameZero /\ FreeReset
      BY <2>3 DEF Frames, IInv
    <3> QED BY <1>2, <2>6, <3>1 DEF FrameZero, FreeReset
  <2>11. NoFixedLeak'
    <3>1. NoFixedLeak
      BY DEF IInv
    <3>2. \A u \in Threads : InFlight(u) = {}
      BY <1>1 DEF Solo, IdleCall, InFlight
    <3> QED BY <1>2, <2>5, <2>6, <3>1, <3>2 DEF NoFixedLeak
  <2>12. StealFrontier'
    BY <1>1, <1>2, <2>4, <2>6, FrontierKept
  <2>13. HandState'
    <3>1. 0 \in Frames \ run
      BY <2>3 DEF Frames
    <3>2. \A u \in Threads : call'[u].pc \notin {"test", "evict", "unmap"}
      BY <2>1, <2>2 DEF Solo, IdleCall
    <3> QED BY <1>0, <1>2, <2>6, <3>1, <3>2 DEF HandState, Mapped
  <2>14. CallShape(t)'
    BY <1>0, <1>2, <2>1, <2>2 DEF CallShape, AllocPcs, Alone, Populated, Scanning
  <2>15. ScanState(t)' /\ EvictState(t)'
    BY <2>1, <2>2 DEF ScanState, EvictState
  <2>16. TakeState(t)'
    <3>1. Victims(call'[t]) = run
      BY <2>1, <2>2 DEF Victims, run
    <3> QED BY <1>2, <2>1, <2>2, <2>4, <3>1 DEF TakeState, Unused, Managed, Mapped, InBlock
  <2> QED BY <2>2, <2>7, <2>8, <2>9, <2>10, <2>11, <2>12, <2>13, <2>14, <2>15, <2>16, Assemble
<1> QED BY <1>4, <1>5 DEF KernSearch, c

\* free_kpages: alloc_size gives back the block and nothing else.
LEMMA FreeKpagesInv ==
    ASSUME CoremapAssumption, IInv, NEW t \in Threads, Solo(t), NEW b \in kheld, FreeKpages(t, b)
    PROVE  IInv'
<1> USE CoremapAssumption DEF CoremapAssumption
<1> DEFINE run == Frames_of(b)
<1>0. TypeOK /\ HandState /\ KernelBlocksIntact /\ NoFixedLeak /\ FrameZero /\ FreeReset
  BY DEF IInv
<1>1. call[t] = IdleCall /\ InFlight(t) = {}
  BY IdleHere DEF FreeKpages
<1>2. b.first \in Nat /\ b.n \in Nat /\ b.n >= 1 /\ b.first >= FirstFree /\ b.first + b.n <= NFrames
  BY <1>0 DEF TypeOK, KernelBlocksIntact, Frames
<1>3. /\ run = Recorded(b.first) /\ run \subseteq Frames \ {0}
      /\ \A f \in run : status[f] = "fixed"
  BY <1>0, <1>2 DEF KernelBlocksIntact, Recorded, Frames_of, Run, Frames
<1>4. run \subseteq Managed /\ \A f \in run : ~Mapped(f)
  BY <1>3, InUseManaged, UsersRecorded
<1>5. /\ status' = [f \in Frames |-> IF f \in run THEN "free" ELSE status[f]]
      /\ as' = [f \in Frames |-> IF f \in run THEN NoAs ELSE as[f]]
      /\ alloc_size' = [f \in Frames |-> IF f \in run THEN 0 ELSE alloc_size[f]]
      /\ kheld' = kheld \ {b}
      /\ UNCHANGED <<vaddr, firstpaddr, current_victim, pfn, call>>
  BY <1>3 DEF FreeKpages, FreeEntries
<1>6. \A a \in kheld : /\ a # b => Frames_of(a) \cap run = {}
                       /\ Frames_of(a) \subseteq Frames /\ a.first \in Frames_of(a)
  <2>1. \A a \in kheld : a # b => Frames_of(a) \cap run = {}
    BY <1>0 DEF KernelBlocksIntact
  <2>2. ASSUME NEW a \in kheld PROVE Frames_of(a) \subseteq Frames /\ a.first \in Frames_of(a)
    <3>1. a.first \in Nat /\ a.n \in Nat /\ a.n >= 1 /\ a.first + a.n <= NFrames
      BY <1>0 DEF TypeOK, KernelBlocksIntact, Frames
    <3> QED BY <3>1 DEF Frames_of, Run, Frames
  <2> QED BY <2>1, <2>2
<1> HIDE DEF run
<1>7. /\ \A f \in Frames \ run : /\ status'[f] = status[f] /\ as'[f] = as[f]
                                 /\ vaddr'[f] = vaddr[f] /\ alloc_size'[f] = alloc_size[f]
      /\ \A f \in run : status'[f] = "free" /\ as'[f] = NoAs /\ alloc_size'[f] = 0
  BY <1>3, <1>5
<1>8. TypeOK'
  <2>1. status' \in [Frames -> Status]
    BY <1>0, <1>5 DEF TypeOK, Status
  <2>2. as' \in [Frames -> Threads \cup {NoAs}]
    BY <1>0, <1>5 DEF TypeOK
  <2>3. alloc_size' \in [Frames -> 0 .. MaxReq]
    <3>1. 0 \in 0 .. MaxReq
      OBVIOUS
    <3>2. \A f \in Frames : alloc_size[f] \in 0 .. MaxReq
      BY <1>0 DEF TypeOK
    <3> QED BY <1>5, <3>1, <3>2
  <2> QED BY <1>0, <1>5, <2>1, <2>2, <2>3 DEF TypeOK
<1>9. PageFrameSound'
  BY <1>4, <1>5, <1>7, SoundOutside
<1>10. KernelBlocksIntact'
  <2>1. \A a \in kheld' : a \in kheld /\ a # b
    BY <1>5
  <2> QED BY <1>0, <1>6, <1>7, <2>1 DEF KernelBlocksIntact
<1>11. FrameZero' /\ FreeReset'
  <2>1. 0 \in Frames \ run
    BY <1>3 DEF Frames
  <2>2. FrameZero'
    BY <1>0, <1>7, <2>1 DEF FrameZero
  <2>3. FreeReset'
    BY <1>0, <1>7 DEF FreeReset
  <2> QED BY <2>2, <2>3
<1>12. NoFixedLeak'
  <2>1. \A u \in Threads : InFlight(u) = {} /\ InFlight(u)' = {}
    BY <1>1, <1>5 DEF Solo, IdleCall, InFlight
  <2>2. ASSUME NEW f \in Frames, status'[f] = "fixed" PROVE \E a \in kheld' : f \in Frames_of(a)
    <3>1. f \notin run /\ status[f] = "fixed"
      BY <1>7, <2>2
    <3>2. PICK a \in kheld : f \in Frames_of(a)
      BY <1>0, <2>1, <3>1 DEF NoFixedLeak
    <3> QED BY <1>5, <3>1, <3>2 DEF run
  <2> QED BY <2>2 DEF NoFixedLeak
<1>13. StealFrontier'
  BY <1>1, <1>4, <1>5, <1>7, FrontierKept
<1>14. HandState'
  <2>1. 0 \in Frames \ run
    BY <1>3 DEF Frames
  <2> QED BY <1>0, <1>5, <1>7, <2>1 DEF HandState, Mapped
<1>15. Solo(t)' /\ call'[t] = IdleCall
  BY <1>1, <1>5 DEF Solo
<1> QED BY <1>8, <1>9, <1>10, <1>11, <1>12, <1>13, <1>14, <1>15, EndsIdle, Assemble

\* as_destroy starts.
LEMMA ExitBeginInv ==
    ASSUME CoremapAssumption, IInv, NEW t \in UserThreads, Solo(t), ExitBegin(t) PROVE IInv'
<1> USE CoremapAssumption DEF CoremapAssumption
<1>t. t \in Threads
  BY DEF Threads
<1> DEFINE d == [IdleCall EXCEPT !.op = "as_destroy", !.pc = "exit"]
<1>1. call[t] = IdleCall /\ InFlight(t) = {} /\ TypeOK /\ current_victim \in Frames
  BY <1>t, IdleHere DEF ExitBegin, IInv, TypeOK
<1>2. d \in Calls /\ d.pc = "exit"
  <2>1. IdleCall \in Calls
    BY IdleTyped
  <2> QED BY <2>1 DEF Calls, Ops, Pcs
<1>3. Becomes(t, d) /\ UNCHANGED <<status, as, vaddr, alloc_size, firstpaddr, pfn, kheld, current_victim>>
  BY DEF ExitBegin, entries
<1>4. call'[t] = d
  BY <1>1, <1>2, <1>3, <1>t, CallUpdate
<1> HIDE DEF d
<1>5. CallShape(t)' /\ ScanState(t)' /\ EvictState(t)' /\ TakeState(t)'
  BY <1>2, <1>4 DEF CallShape, ScanState, EvictState, TakeState, AllocPcs
<1> QED BY <1>1, <1>2, <1>3, <1>5, <1>t, CallOnly

\* as_destroy ends.
LEMMA ExitEndInv ==
    ASSUME CoremapAssumption, IInv, NEW t \in UserThreads, Solo(t), ExitEnd(t) PROVE IInv'
<1>t. t \in Threads
  BY DEF Threads
<1>1. IdleCall \in Calls /\ IdleCall.pc = "idle" /\ TypeOK /\ current_victim \in Frames
  BY IdleTyped DEF IdleCall, IInv, TypeOK
<1>2. /\ Becomes(t, IdleCall) /\ InFlight(t) = {}
      /\ UNCHANGED <<status, as, vaddr, alloc_size, firstpaddr, pfn, kheld, current_victim>>
  BY DEF ExitEnd, entries, InFlight, At
<1>3. call'[t] = IdleCall
  BY <1>1, <1>2, <1>t, CallUpdate
<1>4. CallShape(t)' /\ ScanState(t)' /\ EvictState(t)' /\ TakeState(t)'
  BY <1>t, <1>3, EndsIdle
<1> QED BY <1>1, <1>2, <1>4, <1>t, CallOnly

\* page_free from pt_destroy, frame 0 for an evicted page included.
LEMMA ExitFreeInv ==
    ASSUME CoremapAssumption, IInv, NEW t \in UserThreads, Solo(t), NEW v \in Vas, ExitFree(t, v)
    PROVE  IInv'
<1> USE CoremapAssumption DEF CoremapAssumption
<1>t. t \in Threads
  BY DEF Threads
<1> DEFINE f == pfn[t][v]
<1>0. /\ TypeOK /\ HandState /\ FrameZero /\ FreeReset /\ StealFrontier /\ NoFixedLeak
      /\ call[t].pc = "exit" /\ f # NotValid
  BY DEF IInv, ExitFree, At
<1>1. f \in Frames /\ (f > 0 => status[f] = "dirty" /\ as[f] = t /\ vaddr[f] = v)
  <2>1. f \in Frames
    BY <1>0 DEF TypeOK
  <2>2. pfn[t][v] > 0 => status[pfn[t][v]] = "dirty" /\ as[pfn[t][v]] = t /\ vaddr[pfn[t][v]] = v
    BY DEF IInv, PageFrameSound
  <2> QED BY <2>1, <2>2
<1>2. f # 0 => f \in Managed
  <2>1. SUFFICES ASSUME f # 0 PROVE f \in Managed
    OBVIOUS
  <2>2. f \in Frames \ {0} /\ f > 0
    BY <1>1, <2>1 DEF Frames
  <2>3. status[f] # "clean"
    BY <1>1, <2>2
  <2> HIDE DEF f
  <2> QED BY <2>2, <2>3, InUseManaged
<1>3. ~InBlock(f)
  <2>1. CASE f = 0
    <3>1. \A b \in kheld : b.first >= FirstFree /\ b.first \in Nat /\ b.n \in Nat
      BY DEF IInv, TypeOK, KernelBlocksIntact, Frames
    <3> HIDE DEF f
    <3> QED BY <2>1, <3>1 DEF InBlock, Frames_of, Run
  <2>2. CASE f # 0
    <3>1. f \in Frames \ {0} /\ f > 0
      BY <1>1, <2>2 DEF Frames
    <3>2. status[f] = "dirty"
      BY <1>1, <3>1
    <3> HIDE DEF f
    <3> QED BY <3>1, <3>2, UsersRecorded
  <2> QED BY <2>1, <2>2
<1>4. /\ status' = [g \in Frames |-> IF g \in {f} THEN "free" ELSE status[g]]
      /\ as' = [g \in Frames |-> IF g \in {f} THEN NoAs ELSE as[g]]
      /\ alloc_size' = [g \in Frames |-> IF g \in {f} THEN 0 ELSE alloc_size[g]]
      /\ vaddr' = [vaddr EXCEPT ![f] = VaZero]
      /\ pfn' = [pfn EXCEPT ![t][v] = NotValid]
      /\ UNCHANGED <<firstpaddr, current_victim, kheld, call>>
  BY DEF ExitFree, page_free, FreeEntries
<1>5. \A u \in UserThreads, w \in Vas :
        pfn'[u][w] = IF u = t /\ w = v THEN NotValid ELSE pfn[u][w]
  BY <1>0, <1>4 DEF TypeOK
<1>6. \A u \in UserThreads, w \in Vas : pfn[u][w] = f /\ f > 0 => u = t /\ w = v
  <2>1. ASSUME NEW u \in UserThreads, NEW w \in Vas, pfn[u][w] = f, f > 0 PROVE u = t /\ w = v
    <3>1. as[pfn[u][w]] = u /\ vaddr[pfn[u][w]] = w
      BY <2>1 DEF IInv, PageFrameSound
    <3> QED BY <1>1, <2>1, <3>1
  <2> QED BY <2>1
<1> HIDE DEF f
<1>7. /\ \A g \in Frames \ {f} : /\ status'[g] = status[g] /\ as'[g] = as[g]
                                 /\ vaddr'[g] = vaddr[g] /\ alloc_size'[g] = alloc_size[g]
      /\ status'[f] = "free" /\ as'[f] = NoAs /\ alloc_size'[f] = 0
  BY <1>0, <1>1, <1>4 DEF TypeOK
<1>8. TypeOK'
  <2>1. status' \in [Frames -> Status]
    BY <1>0, <1>4 DEF TypeOK, Status
  <2>1a. as' \in [Frames -> Threads \cup {NoAs}]
    BY <1>0, <1>4 DEF TypeOK
  <2>1b. alloc_size' \in [Frames -> 0 .. MaxReq]
    <3>1. 0 \in 0 .. MaxReq
      OBVIOUS
    <3>2. \A g \in Frames : alloc_size[g] \in 0 .. MaxReq
      BY <1>0 DEF TypeOK
    <3> QED BY <1>4, <3>1, <3>2
  <2>1c. vaddr' \in [Frames -> Vas]
    BY <1>0, <1>4 DEF TypeOK, Vas
  <2>2. pfn' \in [UserThreads -> [Vas -> Frames \cup {NotValid}]]
    BY <1>0, <1>4 DEF TypeOK
  <2> QED BY <1>0, <1>4, <2>1, <2>1a, <2>1b, <2>1c, <2>2 DEF TypeOK
<1>9. PageFrameSound'
  <2>1. SUFFICES ASSUME NEW u \in UserThreads, NEW w \in Vas, pfn'[u][w] > 0
                 PROVE  /\ status'[pfn'[u][w]] = "dirty" /\ as'[pfn'[u][w]] = u
                        /\ vaddr'[pfn'[u][w]] = w
    BY DEF PageFrameSound
  <2>2. ~(u = t /\ w = v) /\ pfn'[u][w] = pfn[u][w]
    BY <1>5, <2>1 DEF NotValid
  <2>3. pfn[u][w] # f /\ pfn[u][w] \in Frames
    BY <1>0, <1>6, <2>1, <2>2 DEF TypeOK, NotValid
  <2>4. status[pfn[u][w]] = "dirty" /\ as[pfn[u][w]] = u /\ vaddr[pfn[u][w]] = w
    BY <2>1, <2>2 DEF IInv, PageFrameSound
  <2> QED BY <1>7, <2>2, <2>3, <2>4
<1>10. KernelBlocksIntact'
  <2>1. \A g \in {f} : ~InBlock(g)
    BY <1>3
  <2> QED BY <1>4, <1>7, <2>1, BlocksOutside
<1>11. FrameZero' /\ FreeReset'
  <2>1. FrameZero'
    <3>1. 0 \in Frames
      BY DEF Frames
    <3>2. CASE f = 0
      BY <1>7, <3>2 DEF FrameZero
    <3>3. CASE f # 0
      BY <1>0, <1>7, <3>1, <3>3 DEF FrameZero
    <3> QED BY <3>2, <3>3
  <2>2. FreeReset'
    BY <1>0, <1>7 DEF FreeReset
  <2> QED BY <2>1, <2>2
<1>12. \A u \in Threads : InFlight(u) = {} /\ InFlight(u)' = {}
  BY <1>0, <1>4 DEF Solo, IdleCall, InFlight
<1>13. NoFixedLeak'
  BY <1>0, <1>4, <1>7, <1>12 DEF NoFixedLeak
<1>14. StealFrontier'
  <2>1. {f} \in SUBSET (Managed \cup {0}) /\ InFlight(t) \subseteq {f}
    BY <1>2, <1>12, <1>t
  <2> QED BY <1>4, <1>7, <1>t, <2>1, FrontierKept
<1>15. HandState'
  <2>1. SUFFICES ASSUME current_victim = 0
                 PROVE  /\ status'[0] = "clean" /\ ~Mapped(0)'
                        /\ \A u \in Threads : call'[u].pc \notin {"test", "evict", "unmap"}
    BY <1>4 DEF HandState
  <2>2. status[0] = "clean" /\ ~Mapped(0)
    BY <1>0, <2>1 DEF HandState
  <2>3. f # 0
    BY <2>2 DEF Mapped, f
  <2>4. 0 \in Frames \ {f} /\ ~Mapped(0)'
    BY <1>5, <2>2, <2>3 DEF Mapped, NotValid, Frames
  <2> QED BY <1>0, <1>4, <1>7, <2>1, <2>2, <2>4 DEF HandState
<1>16. Solo(t)' /\ call'[t] = call[t]
  BY <1>4 DEF Solo
<1>17. CallShape(t)' /\ ScanState(t)' /\ EvictState(t)' /\ TakeState(t)'
  BY <1>0, <1>16 DEF CallShape, ScanState, EvictState, TakeState, AllocPcs
<1> QED BY <1>8, <1>9, <1>10, <1>11, <1>13, <1>14, <1>15, <1>16, <1>17, <1>t, Assemble

(***************************************************************************)
(* The step: one case per action of SerialNext.                            *)
(***************************************************************************)
LEMMA NextInv == ASSUME CoremapAssumption, IInv, SerialNext PROVE IInv'
<1>u. UserThreads \subseteq Threads
  BY DEF Threads
<1>1. ASSUME NEW t \in Threads, Quiet, t \in UserThreads => Alone(t), Allocate(t) PROVE IInv'
  <2>1. Solo(t)
    BY <1>1, SoloWhenQuiet
  <2>2. CASE \E n \in 1 .. MaxReq : KernSearch(t, n)
    BY <1>1, <2>1, <2>2, KernSearchInv
  <2>3. CASE t \in UserThreads /\ \E v \in Pages : UserSearch(t, v)
    BY <1>1, <2>1, <2>3, UserSearchInv
  <2> QED BY <1>1, <2>2, <2>3 DEF Allocate
<1>2. ASSUME NEW t \in Threads, Quiet, Release(t) PROVE IInv'
  <2>1. Solo(t)
    BY <1>2, SoloWhenQuiet
  <2>2. CASE \E b \in kheld : FreeKpages(t, b)
    BY <2>1, <2>2, FreeKpagesInv
  <2>3. CASE t \in UserThreads /\ ExitBegin(t)
    BY <2>1, <2>3, ExitBeginInv
  <2> QED BY <1>2, <2>2, <2>3 DEF Release
<1>3. ASSUME NEW t \in Threads, Continue(t) PROVE IInv'
  <2>1. Solo(t)
    <3>1. ~At(t, "idle")
      BY <1>3 DEF Continue, Steal, ScanWrap, ScanTake, ScanTest, Evict, Claim, Mark,
                  Unmap, Map, ExitEnd, ExitFree, At
    <3> QED BY <3>1, SoloWhenBusy
  <2>2. CASE Steal(t)     BY <2>1, <2>2, StealInv
  <2>3. CASE ScanWrap(t)  BY <2>1, <2>3, ScanWrapInv
  <2>4. CASE ScanTake(t)  BY <2>1, <2>4, ScanTakeInv
  <2>5. CASE ScanTest(t)  BY <2>1, <2>5, ScanTestInv
  <2>6. CASE Evict(t)     BY <2>1, <2>6, EvictInv
  <2>7. CASE Claim(t)     BY <2>1, <2>7, ClaimInv
  <2>8. CASE Mark(t)      BY <2>1, <2>8, MarkInv
  <2>9. CASE t \in UserThreads /\ Unmap(t)    BY <2>1, <2>9, UnmapInv
  <2>10. CASE t \in UserThreads /\ Map(t)     BY <2>1, <2>10, MapInv
  <2>11. CASE t \in UserThreads /\ ExitEnd(t) BY <2>1, <2>11, ExitEndInv
  <2>12. CASE t \in UserThreads /\ \E v \in Vas : ExitFree(t, v)
    BY <2>1, <2>12, ExitFreeInv
  <2> QED BY <1>3, <2>2, <2>3, <2>4, <2>5, <2>6, <2>7, <2>8, <2>9, <2>10, <2>11, <2>12
          DEF Continue
<1> QED BY <1>1, <1>2, <1>3 DEF SerialNext

\* A stuttering step.
LEMMA StutterInv == ASSUME IInv, UNCHANGED vars PROVE IInv'
<1>1. TypeOK' /\ OneCall' /\ HandState'
  BY DEF IInv, vars, TypeOK, OneCall, At, HandState, Mapped
<1>2. FrameZero' /\ FreeReset' /\ PageFrameSound' /\ KernelBlocksIntact'
  BY MemoryUnchanged DEF vars
<1>3. NoFixedLeak' /\ StealFrontier'
  BY DEF IInv, vars, NoFixedLeak, StealFrontier, InFlight
<1>4. ASSUME NEW t \in Threads
      PROVE  CallShape(t)' /\ ScanState(t)' /\ EvictState(t)' /\ TakeState(t)'
  <2>1. CallShape(t) /\ ScanState(t) /\ EvictState(t) /\ TakeState(t)
    BY DEF IInv
  <2>2. CallShape(t)'
    BY <2>1 DEF vars, CallShape, Missing, Alone, Populated, Scanning
  <2>3. ScanState(t)' /\ EvictState(t)'
    BY <2>1 DEF vars, ScanState, EvictState, AllEvictable, Evictable, Mapped, Room, Managed
  <2>4. TakeState(t)'
    BY <2>1 DEF vars, TakeState, Managed, Unused, Mapped, InBlock
  <2> QED BY <2>2, <2>3, <2>4
<1> QED BY <1>1, <1>2, <1>3, <1>4 DEF IInv

(* The strengthened invariant holds in every reachable state of a kernel     *)
(* that serves one allocator call and one populated address space at a time. *)
THEOREM SerialInvariant == SerialSpec => []IInv
<1>1. Init => IInv
  BY CoremapAssumption, InitInv
<1>2. IInv /\ [SerialNext]_vars => IInv'
  BY CoremapAssumption, NextInv, StutterInv
<1> QED BY <1>1, <1>2, PTL DEF SerialSpec

(* Type correctness.                                                         *)
THEOREM TypeCorrect == SerialSpec => []TypeOK
<1>1. IInv => TypeOK
  BY DEF IInv
<1> QED BY <1>1, SerialInvariant, PTL

(* Whatever getppage_user and get_victim_coremap do, a page-table entry that *)
(* names a frame is confirmed by the coremap.                                *)
THEOREM PagesSound == SerialSpec => []PageFrameSound
<1>1. IInv => PageFrameSound
  BY DEF IInv
<1> QED BY <1>1, SerialInvariant, PTL

(* The blocks of alloc_kpages survive every later allocation and eviction,   *)
(* and no frame stays fixed without an owner.                                *)
THEOREM KernelMemorySafe == SerialSpec => [](KernelBlocksIntact /\ NoFixedLeak)
<1>1. IInv => KernelBlocksIntact /\ NoFixedLeak
  BY DEF IInv
<1> QED BY <1>1, SerialInvariant, PTL

(* ram_stealmem and the coremap agree on which frames were handed out.       *)
THEOREM FrontierAgrees == SerialSpec => []StealFrontier
<1>1. IInv => StealFrontier
  BY DEF IInv
<1> QED BY <1>1, SerialInvariant, PTL

(* The KASSERTs of getfreeppages and page_free never fail, although          *)
(* pt_destroy "frees" frame 0 for every evicted page.                        *)
THEOREM AssertionsHold == SerialSpec => []NoPanic
<1>1. ASSUME IInv PROVE NoPanic
  <2>1. FreeReset /\ FrameZero /\ TypeOK
    BY <1>1 DEF IInv
  <2>2. ASSUME NEW t \in UserThreads, NEW v \in Vas, pfn[t][v] # NotValid
        PROVE  status[pfn[t][v]] # "fixed"
    <3>1. pfn[t][v] > 0 => status[pfn[t][v]] = "dirty"
      BY <1>1 DEF IInv, PageFrameSound
    <3>2. pfn[t][v] = 0 \/ pfn[t][v] > 0
      BY <2>1, <2>2 DEF TypeOK, Frames
    <3> QED BY <2>1, <3>1, <3>2 DEF FrameZero
  <2> QED BY <2>1, <2>2 DEF NoPanic, FreeReset
<1> QED BY <1>1, SerialInvariant, PTL

(* get_victim_coremap hands over a contiguous run of frames in use, inside   *)
(* the allocatable memory, however often the hand wrapped.                   *)
THEOREM VictimsSound == SerialSpec => []VictimRunSound
<1>1. ASSUME IInv PROVE VictimRunSound
  <2>1. ASSUME NEW t \in Threads, At(t, "evict"),
               NEW f \in Run(call[t].pos, call[t].npages)
        PROVE  f \in FirstFree .. NFrames - 1 /\ Evictable(f)
    <3>1. f \in Managed /\ Evictable(f)
      BY <1>1, <2>1 DEF IInv, EvictState, Victims, AllEvictable, At
    <3>2. firstpaddr \in FirstFree .. NFrames
      BY <1>1 DEF IInv, TypeOK
    <3> QED BY <3>1, <3>2, CoremapAssumption DEF Managed, CoremapAssumption
  <2> QED BY <2>1 DEF VictimRunSound
<1> QED BY <1>1, SerialInvariant, PTL

(***************************************************************************)
(* No page is lost, while kernel requests are of one frame.  A call scans  *)
(* for a victim only when no frame is free, so what it evicts is a page's  *)
(* frame and the entry it clears that page's.  A request of two frames may *)
(* find one free frame and evict by what its entry still says.             *)
(***************************************************************************)

\* The call that has taken the frame f from a page or for one.
Pending(t, f) == call[t].pc \in {"claim", "mark", "map"} /\ call[t].pos = f

\* A user frame is in the table of its address space, unless a call is moving it.
PageHeld(f) == as[f] \in UserThreads /\ (pfn[as[f]][vaddr[f]] = f \/ \E t \in Threads : Pending(t, f))
PagesHeld == \A f \in Frames : status[f] = "dirty" => PageHeld(f)

\* Where a call has found that no frame is free.
Searched == {"steal", "wrap", "take", "test", "evict", "unmap"}
NothingFree == \A f \in Frames \ {0} : status[f] # "free"
NoneFree == \A t \in Threads : call[t].pc \in Searched => NothingFree

LostInv == PagesHeld /\ NoneFree

\* The search for the first free frame fails only when there is none.
LEMMA SearchFails ==
    ASSUME CoremapAssumption, IInv,
           (\A f \in Frames : ~LeastFree(f)) \/ (\A f \in Frames : ~FirstFreeRun(f, 1))
    PROVE  NothingFree
<1> DEFINE free == {f \in Frames \ {0} : status[f] = "free"}
           R == OpToRel(<, Nat)
<1>1. free \in SUBSET Nat
  BY DEF Frames, CoremapAssumption
<1>2. SUFFICES ASSUME free # {} PROVE FALSE
  BY DEF NothingFree
<1>3. IsWellFoundedOn(R, Nat)
  BY NatLessThanWellFounded
<1>4. \A x, y \in Nat : y < x => <<y, x>> \in R
  BY DEF OpToRel
<1> HIDE DEF R, free
<1>5. PICK f \in free : \A g \in free : ~(<<g, f>> \in R)
  BY <1>1, <1>2, <1>3, WFMin
<1>6. f \in Nat /\ f \in 1 .. NFrames - 1 /\ status[f] = "free" /\ NFrames \in Nat
  BY <1>5 DEF free, Frames, CoremapAssumption
<1>7. \A g \in 1 .. f - 1 : status[g] # "free"
  <2> SUFFICES ASSUME NEW g \in 1 .. f - 1, status[g] = "free" PROVE FALSE
    OBVIOUS
  <2>1. g \in Nat /\ g < f /\ g \in Frames \ {0}
    BY <1>6 DEF Frames
  <2>2. g \in free
    BY <2>1 DEF free
  <2> QED BY <1>4, <1>5, <1>6, <2>1, <2>2
<1>8. LeastFree(f)
  BY <1>6, <1>7 DEF LeastFree, Frames
<1>9. FirstFreeRun(f, 1)
  <2>1. f # 1 /\ status[1] # "free"
    BY <1>6 DEF IInv, StealFrontier, CoremapAssumption
  <2>2. f - 1 \in 1 .. f - 1
    BY <1>6, <2>1
  <2>3. FreeRunAt(f, 1)
    BY <1>6, <1>7, <2>2 DEF FreeRunAt, Run
  <2>4. \A g \in 1 .. f - 1 : g \in Run(g, 1)
    BY <1>6 DEF Run
  <2>5. \A g \in 1 .. f - 1 : ~FreeRunAt(g, 1)
    BY <1>7, <2>4 DEF FreeRunAt
  <2> QED BY <2>3, <2>5 DEF FirstFreeRun
<1> QED BY <1>6, <1>8, <1>9 DEF Frames

\* What a thread that is the only one in the allocator does not have in hand
\* nobody has.
LEMMA InHand ==
    ASSUME IInv, PagesHeld, NEW t \in Threads, Solo(t), NEW f \in Frames, status[f] = "dirty", ~Pending(t, f)
    PROVE  as[f] \in UserThreads /\ pfn[as[f]][vaddr[f]] = f /\ f # 0 /\ vaddr[f] \in Vas
<1>1. \A u \in Threads : ~Pending(u, f)
  BY DEF Solo, Pending, IdleCall
<1>2. f # 0
  BY DEF IInv, FrameZero
<1> QED BY <1>1, <1>2 DEF PagesHeld, PageHeld, IInv, TypeOK

\* Steps that change calls only.
LEMMA LostCalls ==
    ASSUME IInv, LostInv, NEW t \in Threads, Solo(t), NEW d, Becomes(t, d),
           UNCHANGED <<status, as, vaddr, pfn>>,
           call[t].pc \notin {"claim", "mark", "map"},
           d.pc \in Searched => NothingFree
    PROVE  LostInv'
<1>1. call'[t] = d /\ \A u \in Threads \ {t} : call'[u] = IdleCall
  BY DEF IInv, TypeOK, Becomes, Solo
<1>2. \A u \in Threads \ {t} : call'[u].pc \notin Searched
  BY <1>1 DEF IdleCall, Searched
<1>3. NoneFree'
  BY <1>1, <1>2 DEF NoneFree, NothingFree
<1>4. PagesHeld'
  <2> SUFFICES ASSUME NEW f \in Frames, status[f] = "dirty" PROVE PageHeld(f)'
    BY DEF PagesHeld
  <2>1. as[f] \in UserThreads /\ pfn[as[f]][vaddr[f]] = f
    BY InHand DEF LostInv, Pending
  <2> QED BY <2>1 DEF PageHeld
<1> QED BY <1>3, <1>4 DEF LostInv

\* The search of page_alloc.
LEMMA LostUserSearch ==
    ASSUME CoremapAssumption, IInv, LostInv, NEW t \in Threads, Solo(t), NEW v \in Pages, UserSearch(t, v)
    PROVE  LostInv'
<1> DEFINE c == [IdleCall EXCEPT !.op = "page_alloc", !.va = v, !.npages = 1]
<1>1. call[t].pc = "idle" /\ UNCHANGED <<status, as, vaddr, pfn>>
  BY DEF UserSearch, At, entries
<1>2. ASSUME NEW f \in Frames, Becomes(t, [c EXCEPT !.pc = "claim", !.pos = f]) PROVE LostInv'
  <2>1. [c EXCEPT !.pc = "claim", !.pos = f].pc = "claim"
    BY DEF IdleCall
  <2> QED BY <1>1, <1>2, <2>1, LostCalls DEF Searched
<1>3. ASSUME \A f \in Frames : ~LeastFree(f), Becomes(t, [c EXCEPT !.pc = "steal"]) PROVE LostInv'
  <2>1. NothingFree
    BY <1>3, SearchFails
  <2> QED BY <1>1, <1>3, <2>1, LostCalls
<1> QED BY <1>2, <1>3 DEF UserSearch

\* The search of alloc_kpages; a run of free frames is nobody's page.
LEMMA LostKernSearch ==
    ASSUME CoremapAssumption, IInv, LostInv, NEW t \in Threads, Solo(t), KernSearch(t, 1)
    PROVE  LostInv'
<1> DEFINE c == [IdleCall EXCEPT !.op = "alloc_kpages", !.npages = 1]
<1>1. call[t].pc = "idle" /\ UNCHANGED <<as, vaddr, pfn>>
  BY DEF KernSearch, At
<1>2. ASSUME NEW f \in Frames, Fix(Run(f, 1)), Becomes(t, [c EXCEPT !.pc = "mark", !.pos = f]) PROVE LostInv'
  <2>1. \A g \in Frames : status'[g] = IF g \in Run(f, 1) THEN "fixed" ELSE status[g]
    BY <1>2 DEF Fix
  <2>2. call'[t].pc = "mark" /\ \A u \in Threads \ {t} : call'[u].pc = "idle"
    BY <1>2 DEF IInv, TypeOK, Becomes, Solo, IdleCall
  <2>3. NoneFree'
    BY <2>2 DEF NoneFree, Searched
  <2>4. PagesHeld'
    <3> SUFFICES ASSUME NEW g \in Frames, status'[g] = "dirty" PROVE PageHeld(g)'
      BY DEF PagesHeld
    <3>1. status[g] = "dirty"
      BY <2>1
    <3>2. as[g] \in UserThreads /\ pfn[as[g]][vaddr[g]] = g
      BY <1>1, <3>1, InHand DEF LostInv, Pending
    <3> QED BY <1>1, <3>2 DEF PageHeld
  <2> QED BY <2>3, <2>4 DEF LostInv
<1>3. ASSUME \A f \in Frames : ~FirstFreeRun(f, 1), Becomes(t, [c EXCEPT !.pc = "steal"]), UNCHANGED status
      PROVE  LostInv'
  <2>1. NothingFree
    BY <1>3, SearchFails
  <2> QED BY <1>1, <1>3, <2>1, LostCalls
<1> QED BY <1>2, <1>3 DEF KernSearch

\* With requests of one frame, every call is for one frame.
LEMMA OneFrame ==
    ASSUME IInv, MaxReq = 1, NEW t \in Threads, call[t].pc \in AllocPcs
    PROVE  call[t].npages = 1
BY DEF IInv, CallShape

\* The steps of a scan.
LEMMA LostScan ==
    ASSUME IInv, LostInv, MaxReq = 1, NEW t \in Threads, Solo(t),
           Steal(t) \/ ScanWrap(t) \/ ScanTake(t) \/ ScanTest(t) \/ Evict(t)
    PROVE  LostInv'
<1>1. call[t].pc \in Searched /\ UNCHANGED <<status, as, vaddr, pfn>>
  BY DEF Steal, ScanWrap, ScanTake, ScanTest, Evict, At, entries, Searched
<1>2. NothingFree
  BY <1>1 DEF LostInv, NoneFree
<1>3. PICK d : Becomes(t, d)
  BY DEF Steal, ScanWrap, ScanTake, ScanTest, Evict
<1>4. call[t].pc \notin {"claim", "mark", "map"}
  BY <1>1 DEF Searched
<1> QED BY <1>1, <1>2, <1>3, <1>4, LostCalls

\* The eviction clears the entry of the page whose frame it took.
LEMMA LostUnmap ==
    ASSUME CoremapAssumption, IInv, LostInv, MaxReq = 1, NEW t \in UserThreads, Solo(t), Unmap(t)
    PROVE  LostInv'
<1> DEFINE c == call[t]
<1>0. t \in Threads /\ c.pc = "unmap" /\ c \in Calls
  BY DEF Threads, Unmap, At, IInv, TypeOK
<1>1. c.npages = 1
  BY <1>0, OneFrame DEF AllocPcs
<1>2. c.i = 0 /\ Alone(t)
  <2>1. c.i \in Nat /\ c.i < c.npages /\ Alone(t)
    BY <1>0 DEF IInv, CallShape, AllocPcs, Calls
  <2> QED BY <1>1, <2>1
<1>3. c.pos \in Frames \ {0} /\ Evictable(c.pos) /\ c.victim_va = vaddr[c.pos]
  <2>1. EvictState(t) /\ c.pos \in Nat
    BY <1>0 DEF IInv, Calls, Frames, CoremapAssumption
  <2>2. c.pos \in Victims(c) /\ c.pos + c.i = c.pos
    BY <1>1, <1>2, <2>1 DEF Victims, Run
  <2> QED BY <1>0, <2>1, <2>2, ManagedFrames DEF EvictState, AllEvictable
<1>4. status[c.pos] = "dirty"
  <2>1. NothingFree
    BY <1>0 DEF LostInv, NoneFree, Searched
  <2>2. status[c.pos] \in Status
    BY <1>3 DEF IInv, TypeOK
  <2> QED BY <1>3, <2>1, <2>2 DEF NothingFree, Evictable, Status
<1>5. call'[t].pc \in {"claim", "mark"} /\ call'[t].pos = c.pos /\ \A u \in Threads \ {t} : call'[u].pc = "idle"
  <2>1. ~(c.i + 1 < c.npages)
    BY <1>1, <1>2
  <2>2. Becomes(t, [c EXCEPT !.pc = Take(c), !.i = 0])
    BY <2>1 DEF Unmap
  <2>3. call'[t] = [c EXCEPT !.pc = Take(c), !.i = 0]
    BY <1>0, <2>2 DEF IInv, TypeOK, Becomes
  <2>4. call'[t].pc = Take(c) /\ call'[t].pos = c.pos
    BY <1>0, <2>3 DEF Calls
  <2> QED BY <2>2, <2>4 DEF Take, Becomes, Solo, IdleCall, IInv, TypeOK
<1>6. NoneFree'
  BY <1>5 DEF NoneFree, Searched
<1>7. ASSUME NEW f \in Frames, status[f] = "dirty"
      PROVE  as[f] = t /\ pfn[t][vaddr[f]] = f /\ vaddr[f] \in Vas
  <2>1. as[f] \in UserThreads /\ pfn[as[f]][vaddr[f]] = f /\ f # 0 /\ vaddr[f] \in Vas
    BY <1>0, <1>7, InHand DEF LostInv, Pending
  <2>2. f # NotValid
    BY DEF NotValid, Frames, CoremapAssumption
  <2>3. Populated(as[f])
    BY <2>1, <2>2 DEF Populated
  <2> QED BY <1>2, <2>1, <2>3 DEF Alone
<1>8. PagesHeld'
  <2> SUFFICES ASSUME NEW f \in Frames, status[f] = "dirty" PROVE PageHeld(f)'
    BY DEF PagesHeld, Unmap, entries
  <2>1. as'[f] = t /\ vaddr'[f] = vaddr[f]
    BY <1>7 DEF Unmap, entries
  <2>2. CASE f = c.pos
    BY <1>0, <1>5, <2>1, <2>2 DEF PageHeld, Pending
  <2>3. CASE f # c.pos
    <3>1. vaddr[f] # c.victim_va
      BY <1>3, <1>4, <1>7, <2>3
    <3>2. pfn'[t][vaddr[f]] = pfn[t][vaddr[f]]
      BY <3>1 DEF Unmap, IInv, TypeOK
    <3> QED BY <1>7, <2>1, <3>2 DEF PageHeld
  <2> QED BY <2>2, <2>3
<1> QED BY <1>6, <1>8 DEF LostInv

\* The frame is recorded for the page that gets it.
LEMMA LostClaim ==
    ASSUME IInv, LostInv, NEW t \in Threads, Solo(t), Claim(t) PROVE LostInv'
<1> DEFINE c == call[t]
<1>1. c.pc = "claim" /\ c \in Calls /\ t \in UserThreads
  <2>1. c.pc = "claim" /\ c \in Calls
    BY DEF Claim, At, IInv, TypeOK
  <2> QED BY <2>1 DEF IInv, CallShape, AllocPcs
<1>2. call'[t].pc = "map" /\ call'[t].pos = c.pos /\ \A u \in Threads \ {t} : call'[u].pc = "idle"
  <2>1. call'[t] = [c EXCEPT !.pc = "map"] /\ \A u \in Threads \ {t} : call'[u].pc = "idle"
    BY DEF Claim, Becomes, Solo, IdleCall, IInv, TypeOK
  <2> QED BY <1>1, <2>1 DEF Calls
<1>3. NoneFree'
  BY <1>2 DEF NoneFree, Searched
<1>4. /\ as'[c.pos] = t
      /\ \A f \in Frames \ {c.pos} : status'[f] = status[f] /\ as'[f] = as[f] /\ vaddr'[f] = vaddr[f]
      /\ pfn' = pfn
  BY <1>1 DEF Claim, IInv, TypeOK, Calls
<1>5. ASSUME NEW f \in Frames, status'[f] = "dirty" PROVE PageHeld(f)'
  <2>1. CASE f = c.pos
    BY <1>1, <1>2, <1>4, <2>1 DEF PageHeld, Pending
  <2>2. CASE f # c.pos
    <3>1. status[f] = "dirty" /\ ~Pending(t, f)
      BY <1>4, <1>5, <2>2 DEF Pending
    <3>2. as[f] \in UserThreads /\ pfn[as[f]][vaddr[f]] = f
      BY <3>1, InHand DEF LostInv
    <3> QED BY <1>4, <2>2, <3>2 DEF PageHeld
  <2> QED BY <2>1, <2>2
<1> QED BY <1>3, <1>5 DEF LostInv, PagesHeld

\* The page gets its frame; it had none.
LEMMA LostMap ==
    ASSUME IInv, LostInv, NEW t \in UserThreads, Solo(t), Map(t) PROVE LostInv'
<1> DEFINE c == call[t]
<1>1. t \in Threads /\ c.pc = "map" /\ c.va \in Vas /\ Missing(t, c.va)
  <2>1. t \in Threads /\ c.pc = "map"
    BY DEF Map, At, Threads
  <2> QED BY <2>1 DEF IInv, CallShape, AllocPcs, Vas
<1>2. as[c.pos] = t /\ vaddr[c.pos] = c.va
  BY <1>1 DEF IInv, TakeState
<1>3. \A u \in Threads : call'[u].pc = "idle"
  BY <1>1 DEF Map, Becomes, Solo, IdleCall, IInv, TypeOK
<1>4. NoneFree'
  BY <1>3 DEF NoneFree, Searched
<1>5. pfn'[t][c.va] = c.pos /\ UNCHANGED <<status, as, vaddr>>
  BY <1>1 DEF Map, entries, IInv, TypeOK
<1>6. ASSUME NEW f \in Frames, status[f] = "dirty" PROVE PageHeld(f)'
  <2>1. CASE f = c.pos
    BY <1>2, <1>5, <2>1 DEF PageHeld
  <2>2. CASE f # c.pos
    <3>1. as[f] \in UserThreads /\ pfn[as[f]][vaddr[f]] = f /\ f # 0 /\ vaddr[f] \in Vas
      BY <1>1, <1>6, <2>2, InHand DEF LostInv, Pending
    <3>2. ~(as[f] = t /\ vaddr[f] = c.va)
      <4>1. f # NotValid
        BY DEF NotValid, Frames
      <4> QED BY <1>1, <3>1, <4>1 DEF Missing, PFN_NOT_USED
    <3>3. pfn'[as[f]][vaddr[f]] = pfn[as[f]][vaddr[f]]
      BY <3>1, <3>2 DEF Map, IInv, TypeOK
    <3> QED BY <1>5, <3>1, <3>3 DEF PageHeld
  <2> QED BY <2>1, <2>2
<1> QED BY <1>4, <1>5, <1>6 DEF LostInv, PagesHeld

\* The frame in hand becomes the kernel's.
LEMMA LostMark ==
    ASSUME IInv, LostInv, MaxReq = 1, NEW t \in Threads, Solo(t), Mark(t) PROVE LostInv'
<1> DEFINE c == call[t]
<1>1. c.pc = "mark" /\ c \in Calls
  BY DEF Mark, At, IInv, TypeOK
<1>2. c.pos \in Run(c.pos, c.npages)
  <2>1. c.npages = 1
    BY <1>1, OneFrame DEF AllocPcs
  <2>2. c.pos \in Int
    BY <1>1 DEF Calls, Frames
  <2> QED BY <2>1, <2>2 DEF Run
<1>3. \A f \in Frames : status'[f] = IF f \in Run(c.pos, c.npages) THEN "fixed" ELSE status[f]
  BY DEF Mark, Fix
<1>4. \A u \in Threads : call'[u].pc = "idle"
  BY DEF Mark, Becomes, Solo, IdleCall, IInv, TypeOK
<1>5. NoneFree'
  BY <1>4 DEF NoneFree, Searched
<1>6. ASSUME NEW f \in Frames, status'[f] = "dirty" PROVE PageHeld(f)'
  <2>1. f # c.pos /\ status[f] = "dirty"
    BY <1>2, <1>3, <1>6
  <2>2. as[f] \in UserThreads /\ pfn[as[f]][vaddr[f]] = f
    BY <2>1, InHand DEF LostInv, Pending
  <2> QED BY <2>2 DEF PageHeld, Mark
<1> QED BY <1>5, <1>6 DEF LostInv, PagesHeld

\* Frames given back are no page's any more.
LEMMA LostFreeKpages ==
    ASSUME IInv, LostInv, NEW t \in Threads, Solo(t), NEW b \in kheld, FreeKpages(t, b) PROVE LostInv'
<1>1. call[t].pc = "idle" /\ UNCHANGED <<vaddr, pfn, call>> /\ FreeEntries(Recorded(b.first))
  BY DEF FreeKpages, At
<1>2. \A u \in Threads : call[u].pc = "idle"
  BY <1>1 DEF Solo, IdleCall
<1>3. NoneFree'
  BY <1>1, <1>2 DEF NoneFree, Searched
<1>4. ASSUME NEW f \in Frames, status'[f] = "dirty" PROVE PageHeld(f)'
  <2>1. status[f] = "dirty" /\ as'[f] = as[f]
    BY <1>1, <1>4 DEF FreeEntries
  <2>2. as[f] \in UserThreads /\ pfn[as[f]][vaddr[f]] = f
    BY <1>1, <2>1, InHand DEF LostInv, Pending
  <2> QED BY <1>1, <2>1, <2>2 DEF PageHeld
<1> QED BY <1>3, <1>4 DEF LostInv, PagesHeld

LEMMA LostExitFree ==
    ASSUME IInv, LostInv, NEW t \in UserThreads, Solo(t), NEW v \in Vas, ExitFree(t, v) PROVE LostInv'
<1>1. t \in Threads /\ call[t].pc = "exit" /\ call' = call /\ pfn' = [pfn EXCEPT ![t][v] = NotValid]
      /\ page_free(pfn[t][v])
  BY DEF ExitFree, At, Threads
<1>2. \A u \in Threads : call[u].pc \in {"exit", "idle"}
  BY <1>1 DEF Solo, IdleCall
<1>3. NoneFree'
  BY <1>1, <1>2 DEF NoneFree, Searched
<1>4. ASSUME NEW f \in Frames, status'[f] = "dirty" PROVE PageHeld(f)'
  <2>1. f # pfn[t][v] /\ status[f] = "dirty" /\ as'[f] = as[f] /\ vaddr'[f] = vaddr[f]
    BY <1>1, <1>4 DEF page_free, FreeEntries, IInv, TypeOK
  <2>2. as[f] \in UserThreads /\ pfn[as[f]][vaddr[f]] = f /\ vaddr[f] \in Vas
    BY <1>1, <2>1, InHand DEF LostInv, Pending
  <2>3. pfn'[as[f]][vaddr[f]] = pfn[as[f]][vaddr[f]]
    BY <1>1, <2>1, <2>2 DEF IInv, TypeOK
  <2> QED BY <2>1, <2>2, <2>3 DEF PageHeld
<1> QED BY <1>3, <1>4 DEF LostInv, PagesHeld

LEMMA LostExit ==
    ASSUME IInv, LostInv, NEW t \in UserThreads, Solo(t), ExitBegin(t) \/ ExitEnd(t) PROVE LostInv'
<1>1. t \in Threads /\ call[t].pc \in {"idle", "exit"} /\ UNCHANGED <<status, as, vaddr, pfn>>
  BY DEF ExitBegin, ExitEnd, At, entries, Threads
<1>2. PICK d : Becomes(t, d) /\ d.pc \in {"exit", "idle"}
  <2>1. [IdleCall EXCEPT !.op = "as_destroy", !.pc = "exit"].pc = "exit" /\ IdleCall.pc = "idle"
    BY DEF IdleCall
  <2> QED BY <2>1 DEF ExitBegin, ExitEnd
<1> QED BY <1>1, <1>2, LostCalls DEF Searched

LEMMA LostNext ==
    ASSUME CoremapAssumption, MaxReq = 1, IInv, LostInv, SerialNext PROVE LostInv'
<1>1. ASSUME NEW t \in Threads, Quiet, Allocate(t) PROVE LostInv'
  <2>1. Solo(t)
    BY <1>1, SoloWhenQuiet
  <2>2. CASE \E n \in 1 .. MaxReq : KernSearch(t, n)
    BY <2>1, <2>2, LostKernSearch
  <2>3. CASE \E v \in Pages : UserSearch(t, v)
    BY <2>1, <2>3, LostUserSearch
  <2> QED BY <1>1, <2>2, <2>3 DEF Allocate
<1>2. ASSUME NEW t \in Threads, Quiet, Release(t) PROVE LostInv'
  <2>1. Solo(t)
    BY <1>2, SoloWhenQuiet
  <2> QED BY <1>2, <2>1, LostFreeKpages, LostExit DEF Release
<1>3. ASSUME NEW t \in Threads, Continue(t) PROVE LostInv'
  <2>1. Solo(t)
    <3>1. ~At(t, "idle")
      BY <1>3 DEF Continue, Steal, ScanWrap, ScanTake, ScanTest, Evict, Claim, Mark,
                  Unmap, Map, ExitEnd, ExitFree, At
    <3> QED BY <3>1, SoloWhenBusy
  <2>2. CASE Steal(t) \/ ScanWrap(t) \/ ScanTake(t) \/ ScanTest(t) \/ Evict(t)
    BY <2>1, <2>2, LostScan
  <2>3. CASE Claim(t) \/ Mark(t)
    BY <2>1, <2>3, LostClaim, LostMark
  <2>4. CASE t \in UserThreads /\ (Unmap(t) \/ Map(t) \/ ExitEnd(t) \/ \E v \in Vas : ExitFree(t, v))
    BY <2>1, <2>4, LostUnmap, LostMap, LostExit, LostExitFree
  <2> QED BY <1>3, <2>2, <2>3, <2>4 DEF Continue
<1> QED BY <1>1, <1>2, <1>3 DEF SerialNext

(* While the kernel asks for one frame at a time, a frame in use is the frame *)
(* of the page the coremap names, whichever pages getppage_user and getppages *)
(* evicted: no page is lost while its frame stays in use.                     *)
THEOREM PagesAreKept == ASSUME MaxReq = 1 PROVE SerialSpec => []NoLostPage
<1>1. Init => LostInv
  BY CoremapAssumption DEF Init, LostInv, PagesHeld, NoneFree, Searched, IdleCall
<1>2. IInv /\ LostInv /\ [SerialNext]_vars => LostInv'
  <2>1. IInv /\ LostInv /\ SerialNext => LostInv'
    BY CoremapAssumption, LostNext
  <2>2. LostInv /\ UNCHANGED vars => LostInv'
    BY DEF vars, entries, LostInv, PagesHeld, PageHeld, Pending, NoneFree, NothingFree
  <2> QED BY <2>1, <2>2
<1>3. LostInv => NoLostPage
  BY DEF LostInv, PagesHeld, PageHeld, Pending, NoLostPage, Quiet, At
<1> QED BY <1>1, <1>2, <1>3, SerialInvariant, PTL DEF SerialSpec

(***************************************************************************)
(* The refinement of FramePool.                                            *)
(***************************************************************************)

\* The frames the pool calls used are the mapped ones and those of a block.
LEMMA UsedFrames ==
    ASSUME NEW f \in Nat \ {0}, Pool!Used(f) PROVE Mapped(f) \/ InBlock(f)
<1>1. CASE \E s \in UserThreads \X Vas : homes[s] = f
  <2>1. PICK s \in UserThreads \X Vas : homes[s] = f
    BY <1>1
  <2>2. pfn[s[1]][s[2]] = f /\ s[1] \in UserThreads /\ s[2] \in Vas
    BY <2>1 DEF homes, Home
  <2> QED BY <2>2 DEF Mapped
<1>2. CASE \E b \in kheld : f \in Pool!Extent(b)
  BY <1>2 DEF InBlock, Frames_of, Run, Pool!Extent
<1> QED BY <1>1, <1>2 DEF Pool!Used

\* What happens to the pool when one page-table entry changes.
LEMMA HomesUpdate ==
    ASSUME TypeOK, NEW t \in UserThreads, NEW v \in Vas, NEW p \in Frames \cup {NotValid},
           pfn' = [pfn EXCEPT ![t][v] = p]
    PROVE  homes' = [homes EXCEPT ![<<t, v>>] = IF p > 0 THEN p ELSE 0]
<1>1. ASSUME NEW s \in UserThreads \X Vas
      PROVE  homes'[s] = IF s = <<t, v>> THEN IF p > 0 THEN p ELSE 0 ELSE homes[s]
  <2>1. PICK u \in UserThreads, w \in Vas : s = <<u, w>>
    OBVIOUS
  <2>2. pfn'[u][w] = IF u = t /\ w = v THEN p ELSE pfn[u][w]
    BY DEF TypeOK
  <2>3. homes'[s] = (IF pfn'[u][w] > 0 THEN pfn'[u][w] ELSE 0) /\ homes[s] = (IF pfn[u][w] > 0 THEN pfn[u][w] ELSE 0)
    BY <2>1 DEF homes, Home
  <2> QED BY <2>1, <2>2, <2>3
<1>2. homes' = [s \in UserThreads \X Vas |-> homes'[s]] /\ homes = [s \in UserThreads \X Vas |-> homes[s]]
  BY DEF homes
<1> QED BY <1>1, <1>2

\* An entry that loses its frame is a Displace, or nothing to the pool.
LEMMA EntryCleared ==
    ASSUME CoremapAssumption, TypeOK, NEW t \in UserThreads, NEW v \in Vas,
           NEW p \in {PFN_NOT_USED, NotValid}, pfn' = [pfn EXCEPT ![t][v] = p], UNCHANGED kheld
    PROVE  Pool!Next \/ UNCHANGED <<homes, kheld>>
<1>1. homes' = [homes EXCEPT ![<<t, v>>] = 0]
  <2>1. p \in Frames \cup {NotValid} /\ ~(p > 0)
    BY CoremapAssumption DEF CoremapAssumption, Frames, PFN_NOT_USED, NotValid
  <2> QED BY <2>1, HomesUpdate
<1>2. CASE homes[<<t, v>>] = 0
  <2>1. homes' = homes
    BY <1>1, <1>2 DEF homes
  <2> QED BY <2>1
<1>3. CASE homes[<<t, v>>] # 0
  <2>1. Pool!Displace(<<t, v>>)
    BY <1>1, <1>3 DEF Pool!Displace, Pool!NoFrame
  <2> QED BY <2>1 DEF Pool!Next
<1> QED BY <1>2, <1>3

\* Map is the pool's Place.
LEMMA MapPlaces ==
    ASSUME CoremapAssumption, IInv, NEW t \in UserThreads, Map(t) PROVE Pool!Next
<1> DEFINE c == call[t]
<1>1. /\ t \in Threads /\ TypeOK /\ c \in Calls /\ c.va \in Vas
      /\ CallShape(t) /\ TakeState(t) /\ c.pc = "map"
  BY DEF IInv, TypeOK, Calls, Threads, Map, At
<1>2. /\ c.pos \in Managed /\ ~Mapped(c.pos) /\ status[c.pos] = "dirty" /\ Missing(t, c.va)
  BY <1>1 DEF CallShape, TakeState, AllocPcs
<1>3. c.pos \in Frames \ {0} /\ c.pos \in Nat \ {0} /\ c.pos \in FirstFree .. NFrames - 1
  <2>1. firstpaddr \in FirstFree .. NFrames
    BY <1>1 DEF TypeOK
  <2> QED BY <1>2, <2>1, CoremapAssumption DEF CoremapAssumption, Managed, Frames
<1>4. ~Pool!Used(c.pos)
  BY <1>2, <1>3, UsersRecorded, UsedFrames
<1>5. homes[<<t, c.va>>] = 0
  BY <1>1, <1>2 DEF homes, Home, Missing, PFN_NOT_USED, NotValid
<1>6. homes' = [homes EXCEPT ![<<t, c.va>>] = c.pos] /\ UNCHANGED kheld
  <2>1. pfn' = [pfn EXCEPT ![t][c.va] = c.pos] /\ UNCHANGED kheld
    BY DEF Map
  <2>2. c.pos \in Frames \cup {NotValid} /\ c.pos > 0
    BY <1>3
  <2> HIDE DEF c
  <2>3. homes' = [homes EXCEPT ![<<t, c.va>>] = IF c.pos > 0 THEN c.pos ELSE 0]
    BY <1>1, <2>1, <2>2, HomesUpdate
  <2> QED BY <2>1, <2>2, <2>3
<1>7. Pool!Place(<<t, c.va>>, c.pos) /\ <<t, c.va>> \in UserThreads \X Vas /\ c.pos \in Pool!Memory
  BY <1>1, <1>3, <1>4, <1>5, <1>6 DEF Pool!Place, Pool!NoFrame, Pool!Memory
<1> QED BY <1>7 DEF Pool!Next

\* Mark is the pool's Take.
LEMMA MarkTakes ==
    ASSUME CoremapAssumption, IInv, NEW t \in Threads, Mark(t) PROVE Pool!Next
<1> DEFINE c == call[t]
<1>1. /\ TypeOK /\ c \in Calls /\ CallShape(t) /\ TakeState(t) /\ c.pc = "mark"
  BY DEF IInv, TypeOK, Mark, At
<1>2. /\ c.npages \in 1 .. MaxReq /\ Victims(c) \subseteq Managed /\ Unused(Victims(c))
  BY <1>1, CoremapAssumption DEF CallShape, TakeState, AllocPcs, CoremapAssumption
<1>3. c.pos \in Nat /\ c.npages \in Nat /\ c.npages >= 1 /\ firstpaddr \in FirstFree .. NFrames
  BY <1>1, <1>2, CoremapAssumption DEF TypeOK, Calls, Frames, CoremapAssumption
<1>4. c.pos \in FirstFree .. NFrames - 1 /\ c.pos + c.npages - 1 \in FirstFree .. NFrames - 1
  <2>1. c.pos \in Victims(c) /\ c.pos + c.npages - 1 \in Victims(c)
    BY <1>3 DEF Victims, Run
  <2> QED BY <1>2, <1>3, <2>1, CoremapAssumption DEF Managed, CoremapAssumption
<1> HIDE DEF c
<1>5. DEFINE b == Pool!Block(c.pos, c.npages)
<1>6. Pool!Extent(b) = Victims(c) /\ b = Block(c.pos, c.npages)
  BY DEF Pool!Extent, Pool!Block, Victims, Run, Block
<1>7. Pool!Extent(b) \subseteq Pool!Memory
  BY <1>3, <1>4, <1>6, CoremapAssumption DEF Victims, Run, Pool!Memory, CoremapAssumption
<1>8. \A f \in Pool!Extent(b) : ~Pool!Used(f)
  <2>1. ASSUME NEW f \in Victims(c) PROVE ~Pool!Used(f)
    <3>1. ~Mapped(f) /\ ~InBlock(f) /\ f \in Nat \ {0}
      BY <1>2, <1>3, CoremapAssumption DEF Unused, Managed, CoremapAssumption
    <3> QED BY <3>1, UsedFrames
  <2> QED BY <1>6, <2>1
<1>9. kheld' = kheld \cup {b} /\ homes' = homes
  BY <1>6 DEF Mark, homes, Home, c
<1>10. Pool!Take(b)
  BY <1>7, <1>8, <1>9 DEF Pool!Take
<1>11. c.pos \in Pool!Memory /\ c.npages \in 1 .. NFrames
  BY <1>3, <1>4, CoremapAssumption DEF Pool!Memory, CoremapAssumption
<1> QED BY <1>10, <1>11 DEF Pool!Next

\* Every step is a step of the pool or changes nothing it sees.
LEMMA PoolStep ==
    ASSUME CoremapAssumption, IInv, SerialNext \/ UNCHANGED vars
    PROVE  Pool!Next \/ UNCHANGED <<homes, kheld>>
<1>0. TypeOK
  BY DEF IInv
<1>1. CASE UNCHANGED <<pfn, kheld>>
  BY <1>1 DEF homes, Home
<1>2. ASSUME NEW t \in Threads, NEW b \in kheld, FreeKpages(t, b) PROVE Pool!Next
  <2>1. Pool!Give(b)
    BY <1>2 DEF FreeKpages, Pool!Give, homes, Home
  <2> QED BY <2>1 DEF Pool!Next
<1>3. ASSUME NEW t \in UserThreads, Unmap(t) PROVE Pool!Next \/ UNCHANGED <<homes, kheld>>
  <2>1. call[t].victim_va \in Vas
    BY <1>0 DEF TypeOK, Calls, Threads
  <2> QED BY <1>0, <1>3, <2>1, EntryCleared DEF Unmap
<1>4. ASSUME NEW t \in UserThreads, NEW v \in Vas, ExitFree(t, v)
      PROVE  Pool!Next \/ UNCHANGED <<homes, kheld>>
  BY <1>0, <1>4, EntryCleared DEF ExitFree
<1>5. ASSUME NEW t \in Threads, Allocate(t) PROVE UNCHANGED <<pfn, kheld>>
  BY <1>5 DEF Allocate, KernSearch, UserSearch
<1>6. ASSUME NEW t \in Threads, Release(t) PROVE Pool!Next \/ UNCHANGED <<pfn, kheld>>
  BY <1>2, <1>6 DEF Release, ExitBegin
<1>7. ASSUME NEW t \in Threads, Continue(t)
      PROVE  Pool!Next \/ UNCHANGED <<homes, kheld>> \/ UNCHANGED <<pfn, kheld>>
  <2>1. CASE Steal(t) \/ ScanWrap(t) \/ ScanTake(t) \/ ScanTest(t) \/ Evict(t) \/ Claim(t)
    BY <2>1 DEF Steal, ScanWrap, ScanTake, ScanTest, Evict, Claim
  <2>2. CASE Mark(t)
    BY <2>2, MarkTakes
  <2>3. CASE t \in UserThreads /\ Map(t)
    BY <2>3, MapPlaces
  <2>4. CASE t \in UserThreads /\ ExitEnd(t)
    BY <2>4 DEF ExitEnd
  <2> QED BY <1>3, <1>4, <1>7, <2>1, <2>2, <2>3, <2>4 DEF Continue
<1> QED BY <1>1, <1>5, <1>6, <1>7 DEF SerialNext, vars

(* The allocator implements the frame pool: whichever of its paths a request *)
(* takes, a frame is given only when neither a page nor the kernel uses it.  *)
THEOREM PoolImplemented == SerialSpec => PoolSpec
<1>1. Init => Pool!Init
  BY DEF Init, Pool!Init, homes, Home, Pool!NoFrame, NotValid
<1>2. IInv /\ [SerialNext]_vars => [Pool!Next]_<<homes, kheld>>
  BY CoremapAssumption, PoolStep
<1> QED BY <1>1, <1>2, SerialInvariant, PTL DEF SerialSpec, PoolSpec, Pool!Spec
=============================================================================
