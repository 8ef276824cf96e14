-------------------------- MODULE SwapfileProofs --------------------------
(***************************************************************************)
(* For every number of pages and slots: the invariants of Swapfile with    *)
(* one program at a time, and that no program can see the swapping         *)
(* (SerialSpec implements UserMemory).                                     *)
(*                                                                         *)
(* The argument.  IInv (in Swapfile) is inductive: one lemma per action,   *)
(* with one step per conjunct that the action can disturb.  The other      *)
(* processes are idle and have nothing in the swap file (Sole), so only    *)
(* the slots of the mover matter.  For the refinement, content changes     *)
(* only in UserStore and as_destroy: a transfer to the file goes to a free *)
(* slot, and a page changes place only while both copies are equal.        *)
(***************************************************************************)
EXTENDS Swapfile, FiniteSetTheorems, TLAPS

\* What is true of a process alive: it is the only one.
LEMMA Sole ==
    ASSUME IInv, NEW p \in live
    PROVE  /\ p \in Procs
           /\ live = {p}
           /\ \A q \in Procs : q # p =>
                  io[q].pc = "idle" /\ \A v \in Pages : offset[q][v] = Resident
BY DEF IInv, OneAlive, TypeOK, At

\* A process in a call is alive.
LEMMA CallerAlive == ASSUME IInv, NEW p \in Procs, ~At(p, "idle") PROVE p \in live
BY DEF IInv, OneAlive, At

\* The record of an idle process is a call record.
LEMMA IdleTyped == SwapfileAssumption => IdleIo \in Calls
BY DEF SwapfileAssumption, IdleIo, Calls, Slots

\* The slots out stay distinct if the owners and what they own stay.
LEMMA SameOwners ==
    ASSUME IInv, Running, UNCHANGED offset,
           \A q \in Procs, v \in Pages :
               Owned(q, v)' => /\ Owned(q, v)
                               /\ free'[offset[q][v]] = free[offset[q][v]]
                               /\ swap_offset'[offset[q][v]] = swap_offset[offset[q][v]]
    PROVE  SlotsDistinct'
<1>1. ASSUME NEW q \in Procs, NEW v \in Pages, Owned(q, v)'
      PROVE  ~free'[offset'[q][v]] /\ swap_offset'[offset'[q][v]] = offset'[q][v]
  BY <1>1 DEF IInv, SlotsDistinct
<1>2. ASSUME NEW q \in Procs, NEW r \in Procs, NEW v \in Pages, NEW w \in Pages,
             Owned(q, v)', Owned(r, w)', <<q, v>> # <<r, w>>
      PROVE  offset'[q][v] # offset'[r][w]
  BY <1>2 DEF IInv, SlotsDistinct
<1> QED BY <1>1, <1>2 DEF SlotsDistinct

\* No slot is lost if the owners stay and the slots newly used have one.
LEMMA SameUsers ==
    ASSUME IInv, live # {}, UNCHANGED offset,
           \A q \in Procs, v \in Pages : Owned(q, v) => Owned(q, v)',
           \A s \in Slots : ~free'[s] =>
               \/ ~free[s] /\ \A q \in Procs : ~At(q, "return")
               \/ \E q \in Procs : At(q, "return")' /\ io'[q].slot = s
    PROVE  NoSlotLeak'
<1>1. ASSUME NEW s \in Slots, ~free[s], \A q \in Procs : ~At(q, "return")
      PROVE  \E q \in Procs, v \in Pages : Owned(q, v)' /\ offset'[q][v] = s
  <2>1. PICK q \in Procs, v \in Pages : Owned(q, v) /\ offset[q][v] = s
    BY <1>1 DEF IInv, NoSlotLeak
  <2> QED BY <2>1
<1> QED BY <1>1 DEF NoSlotLeak

\* Nobody runs and nothing is swapped out at boot.
LEMMA InitInv == ASSUME SwapfileAssumption, Init PROVE IInv
<1> USE SwapfileAssumption DEF SwapfileAssumption
<1>1. TypeOK
  <2>1. io \in [Procs -> Calls] BY IdleTyped DEF Init
  <2> QED BY <2>1 DEF Init, TypeOK, Slots, Resident
<1>2. OneAlive /\ CallHasPage
  BY DEF Init, OneAlive, CallHasPage, At, IdleIo, Resident
<1>3. CallsSound /\ NoSlotLeak /\ PanicsHonest
  BY DEF Init, CallsSound, NoSlotLeak, PanicsHonest
<1>4. SlotsDistinct BY DEF Init, SlotsDistinct, Owned
<1> QED BY <1>1, <1>2, <1>3, <1>4 DEF IInv

\* A stop keeps the invariant if the reason for it is honest.
LEMMA StopInv ==
    ASSUME IInv, Running, NEW why \in {"full", "io", "off", "null"}, Stop(why),
           why = "full" => Cardinality(Swapped) >= NumPages
    PROVE  IInv'
<1>1. TypeOK' BY DEF IInv, TypeOK, Stop, slots, pages
<1>2. OneAlive' /\ CallHasPage' BY DEF IInv, OneAlive, CallHasPage, Stop, pages, At
<1>3. ~Running' BY DEF Stop, Running
<1>4. (Running => CallsSound)' /\ SlotsDistinct' BY <1>3 DEF SlotsDistinct
<1>5. NoSlotLeak' BY DEF IInv, NoSlotLeak, Stop, slots, pages, Owned, At
<1>6. PanicsHonest' BY DEF IInv, PanicsHonest, Stop, pages, Swapped
<1> QED BY <1>1, <1>2, <1>4, <1>5, <1>6 DEF IInv

\* The list is full only when as many pages are out: the slots are covered by
\* the offsets of the swapped pages.
LEMMA FullIsFull ==
    ASSUME SwapfileAssumption, IInv, NEW p \in live, At(p, "idle"), \A s \in Slots : ~free[s]
    PROVE  Cardinality(Swapped) >= NumPages
<1> DEFINE At2(x) == offset[x[1]][x[2]]
           f == [x \in Swapped |-> At2(x)]
<1>1. IsFiniteSet(Swapped)
  <2>1. IsFiniteSet(Procs \X Pages) BY FS_Product DEF SwapfileAssumption
  <2>2. Swapped \subseteq Procs \X Pages BY DEF Swapped
  <2> QED BY <2>1, <2>2, FS_Subset
<1>2. \A s \in Slots : \E x \in Swapped : f[x] = s
  <2>1. TAKE s \in Slots
  <2>2. PICK q \in Procs, v \in Pages : Owned(q, v) /\ offset[q][v] = s
    BY <2>1, Sole DEF IInv, NoSlotLeak, At
  <2>3. <<q, v>> \in Swapped BY <2>2 DEF Swapped, Owned
  <2> QED BY <2>2, <2>3
<1>3. f \in Surjection(Swapped, Slots)
  <2>1. \A x \in Swapped : At2(x) \in Slots
    BY DEF IInv, TypeOK, Swapped
  <2> QED BY <1>2, <2>1 DEF Surjection
<1>4. IsFiniteSet(Slots) /\ Cardinality(Slots) = NumPages
  BY FS_Interval DEF Slots, SwapfileAssumption
<1>5. Cardinality(Slots) <= Cardinality(Swapped)
  BY <1>1, <1>3, FS_Surjection DEF ExistsSurjection
<1>6. Cardinality(Swapped) \in Nat BY <1>1, FS_CardinalityType
<1> QED BY <1>4, <1>5, <1>6 DEF SwapfileAssumption

\* swap_out found a slot: nothing but the call changes.
LEMMA OutFindInv ==
    ASSUME SwapfileAssumption, IInv, Running, NEW p \in live, NEW v \in Pages, OutFind(p, v)
    PROVE  IInv'
<1>1. CASE \A s \in Slots : ~free[s]
  <2>1. Stop("full") BY <1>1 DEF OutFind, FirstFree
  <2> QED BY <1>1, <2>1, FullIsFull, StopInv DEF OutFind
<1>2. CASE \E s \in Slots : free[s]
  <2>1. PICK s \in Slots :
          /\ free[s]
          /\ Goes(p, [pc |-> "write", va |-> v, slot |-> s])
          /\ UNCHANGED <<slots, file, live, pages, rest>>
    BY <1>2 DEF OutFind, FirstFree
  <2> USE <2>1, Sole DEF OutFind, slots, pages, rest, Goes, At
  <2>2. TypeOK' BY DEF IInv, TypeOK, Calls
  <2>3. OneAlive' /\ CallHasPage' BY DEF IInv, TypeOK, OneAlive, CallHasPage
  <2>4. CallsSound' BY DEF IInv, TypeOK, CallsSound, OutCall, InCall
  <2>5. SlotsDistinct' BY DEF IInv, TypeOK, SlotsDistinct, Owned, Running
  <2>6. NoSlotLeak' BY DEF IInv, TypeOK, NoSlotLeak, Owned
  <2>7. PanicsHonest' BY DEF IInv, PanicsHonest, Swapped
  <2> QED BY <2>2, <2>3, <2>4, <2>5, <2>6, <2>7 DEF IInv
<1> QED BY <1>1, <1>2

\* The page is in the file; the slot is free, so no page out is overwritten.
LEMMA OutWriteInv ==
    ASSUME SwapfileAssumption, IInv, Running, NEW p \in Procs, OutWrite(p)
    PROVE  IInv'
<1>1. CASE Stop("io") BY <1>1, StopInv
<1>2. CASE /\ file' = [file EXCEPT ![io[p].slot] = mem[p][io[p].va]]
           /\ Goes(p, [io[p] EXCEPT !.pc = "mark"])
           /\ UNCHANGED <<slots, live, pages, rest>>
  <2>1. p \in live BY CallerAlive DEF OutWrite, At
  <2>2. io[p] \in Calls /\ io[p].va \in Pages BY DEF IInv, TypeOK, CallHasPage, OutWrite, At
  <2> USE <1>2, <2>1, <2>2, Sole DEF OutWrite, slots, pages, rest, Goes, At
  <2>3. TypeOK' BY DEF IInv, TypeOK, Calls
  <2>4. OneAlive' /\ CallHasPage' BY DEF IInv, TypeOK, OneAlive, CallHasPage
  <2>5. CallsSound' BY DEF IInv, TypeOK, CallsSound, OutCall, InCall, Calls
  <2>6. SlotsDistinct'
    <3>1. \A q \in Procs, v \in Pages : Owned(q, v)' <=> Owned(q, v)
      BY DEF Owned, IInv, TypeOK, Calls
    <3> QED BY <3>1, SameOwners
  <2>7. NoSlotLeak'
    <3>1. \A q \in Procs, v \in Pages : Owned(q, v)' <=> Owned(q, v)
      BY DEF Owned, IInv, TypeOK, Calls
    <3>2. \A q \in Procs : ~At(q, "return") BY DEF IInv, TypeOK
    <3> QED BY <3>1, <3>2, SameUsers
  <2>8. PanicsHonest' BY DEF IInv, PanicsHonest, Swapped
  <2> QED BY <2>3, <2>4, <2>5, <2>6, <2>7, <2>8 DEF IInv
<1> QED BY <1>1, <1>2 DEF OutWrite

\* The slot is used and belongs to the call that will return it.
LEMMA OutMarkInv ==
    ASSUME SwapfileAssumption, IInv, Running, NEW p \in Procs, OutMark(p)
    PROVE  IInv'
<1>1. p \in live BY CallerAlive DEF OutMark, At
<1>2. io[p] \in Calls /\ io[p].va \in Pages BY DEF IInv, TypeOK, CallHasPage, OutMark, At
<1> USE <1>1, <1>2, Sole DEF OutMark, slots, pages, rest, Goes, At
<1>3. TypeOK' BY DEF IInv, TypeOK, Calls
<1>4. OneAlive' /\ CallHasPage' BY DEF IInv, TypeOK, OneAlive, CallHasPage
<1>5. free[io[p].slot] /\ \A w \in Pages : ~Owned(p, w) \/ offset[p][w] # io[p].slot
  <2>1. OutCall(p) BY DEF IInv, CallsSound
  <2>2. free[io[p].slot] BY <2>1 DEF OutCall
  <2>3. \A w \in Pages : Owned(p, w) => ~free[offset[p][w]] BY DEF IInv, SlotsDistinct
  <2> QED BY <2>2, <2>3
<1>6. \A q \in Procs, v \in Pages : Owned(q, v)' <=> Owned(q, v)
  BY DEF Owned, IInv, TypeOK, Calls
<1>7. CallsSound'
  <2>1. \A w \in Pages : offset[p][w] # io[p].slot
    BY <1>5 DEF Owned, Calls, Slots, Resident
  <2>2. OutCall(p)' BY <2>1 DEF IInv, TypeOK, CallsSound, OutCall, Calls
  <2>3. InCall(p)' BY DEF IInv, TypeOK, InCall, Calls
  <2> QED BY <2>2, <2>3 DEF CallsSound
<1>8. SlotsDistinct'
  <2>1. \A q \in Procs, v \in Pages : Owned(q, v) => q = p /\ offset[q][v] # io[p].slot
    BY <1>5 DEF Owned
  <2>2. \A r \in Slots : r # io[p].slot => free'[r] = free[r] /\ swap_offset'[r] = swap_offset[r]
      BY DEF IInv, TypeOK
  <2>3. \A q \in Procs, v \in Pages : Owned(q, v) => offset[q][v] \in Slots
    BY DEF IInv, TypeOK, Owned
  <2> QED BY <1>6, <2>1, <2>2, <2>3, SameOwners
<1>9. NoSlotLeak'
  <2>1. \A q \in Procs : ~At(q, "return") BY DEF IInv, TypeOK
  <2>2. At(p, "return")' /\ io'[p].slot = io[p].slot BY DEF IInv, TypeOK, Calls
  <2>3. \A s \in Slots : ~free'[s] => ~free[s] \/ s = io[p].slot BY DEF IInv, TypeOK
  <2> QED BY <1>6, <2>1, <2>2, <2>3, SameUsers
<1>10. PanicsHonest' BY DEF IInv, PanicsHonest, Swapped
<1> QED BY <1>3, <1>4, <1>7, <1>8, <1>9, <1>10 DEF IInv

\* The page is out: its slot passes from the call to the page table.
LEMMA OutReturnInv ==
    ASSUME SwapfileAssumption, IInv, Running, NEW p \in Procs, OutReturn(p)
    PROVE  IInv'
<1>1. p \in live BY CallerAlive DEF OutReturn, At
<1>2. io[p] \in Calls /\ io[p].va \in Pages BY DEF IInv, TypeOK, CallHasPage, OutReturn, At
<1>3. OutCall(p) BY <1>1 DEF IInv, CallsSound
<1>4. swap_offset[io[p].slot] = io[p].slot BY <1>3 DEF OutCall, OutReturn, At
<1> USE <1>1, <1>2, <1>4, Sole DEF OutReturn, slots, rest, Goes, At
<1>5. TypeOK' BY IdleTyped DEF IInv, TypeOK, Calls
<1>6. OneAlive' /\ CallHasPage' BY DEF IInv, TypeOK, OneAlive, CallHasPage, IdleIo
<1>7. CallsSound' BY DEF IInv, TypeOK, CallsSound, OutCall, InCall, IdleIo
<1>8. SlotsDistinct'
  <2>1. ASSUME NEW q \in Procs, NEW w \in Pages, Owned(q, w)'
        PROVE  \/ Owned(q, w) /\ offset'[q][w] = offset[q][w]
               \/ q = p /\ w = io[p].va /\ offset'[q][w] = io[p].slot
    <3>1. CASE q = p /\ w = io[p].va BY <3>1 DEF IInv, TypeOK
    <3>2. CASE q = p /\ w # io[p].va
      <4>1. offset'[q][w] = offset[q][w] BY <3>2 DEF IInv, TypeOK
      <4> QED BY <2>1, <3>2, <4>1 DEF Owned
    <3>3. CASE q # p
      <4>1. offset'[q][w] = offset[q][w] /\ offset[q][w] = Resident BY <3>3 DEF IInv, TypeOK
      <4> QED BY <2>1, <4>1 DEF Owned
    <3> QED BY <3>1, <3>2, <3>3
  <2>2. \A q \in Procs, w \in Pages : Owned(q, w) => q = p /\ offset[q][w] # io[p].slot
    BY <1>3 DEF Owned, OutCall
  <2>3. ~free[io[p].slot] BY <1>3 DEF OutCall
  <2>4. ASSUME NEW q \in Procs, NEW w \in Pages, Owned(q, w)'
        PROVE  ~free'[offset'[q][w]] /\ swap_offset'[offset'[q][w]] = offset'[q][w]
    BY <2>1, <2>3, <2>4 DEF IInv, SlotsDistinct, Running
  <2>5. ASSUME NEW q \in Procs, NEW r \in Procs, NEW u \in Pages, NEW w \in Pages,
               Owned(q, u)', Owned(r, w)', <<q, u>> # <<r, w>>
        PROVE  offset'[q][u] # offset'[r][w]
    BY <2>1, <2>2, <2>5 DEF IInv, SlotsDistinct, Running
  <2> QED BY <2>4, <2>5 DEF SlotsDistinct
<1>9. NoSlotLeak'
  <2>1. SUFFICES ASSUME NEW s \in Slots, ~free[s]
                 PROVE  \E v \in Pages : Owned(p, v)' /\ offset'[p][v] = s
    BY DEF NoSlotLeak
  <2>2. CASE s = io[p].slot
    <3>1. PICK v \in Pages : v = io[p].va BY <1>2
    <3>2. offset'[p][v] = s BY <2>2, <3>1 DEF IInv, TypeOK
    <3>3. s # Resident BY DEF Slots, Resident, SwapfileAssumption
    <3>4. io'[p].pc = "idle" BY DEF IInv, TypeOK, IdleIo
    <3>5. Owned(p, v)' BY <3>2, <3>3, <3>4 DEF Owned
    <3> QED BY <3>2, <3>5
  <2>3. CASE s # io[p].slot
    <3>1. PICK q \in Procs, v \in Pages : Owned(q, v) /\ offset[q][v] = s
      BY <2>1, <2>3 DEF IInv, NoSlotLeak
    <3>2. q = p /\ v # io[p].va BY <1>3, <3>1 DEF Owned, OutCall
    <3>3. offset'[p][v] = s BY <3>1, <3>2 DEF IInv, TypeOK
    <3>4. Owned(p, v)' BY <3>1, <3>2, <3>3 DEF Owned, IInv, TypeOK, IdleIo
    <3> QED BY <3>3, <3>4
  <2> QED BY <2>2, <2>3
<1>10. PanicsHonest' BY DEF IInv, PanicsHonest, Running
<1> QED BY <1>5, <1>6, <1>7, <1>8, <1>9, <1>10 DEF IInv

\* The slot is given up before the transfer; its page is no owner any more.
LEMMA InFreeInv ==
    ASSUME SwapfileAssumption, IInv, Running, NEW p \in live, NEW v \in Pages, InFree(p, v)
    PROVE  IInv'
<1>1. offset[p][v] \in Slots BY Sole DEF IInv, TypeOK, InFree
<1> USE <1>1, Sole DEF InFree, slots, pages, rest, Goes, At
<1>2. TypeOK'
  <2>1. 0 \in Slots BY DEF Slots, SwapfileAssumption
  <2>2. [pc |-> "read", va |-> v, slot |-> offset[p][v]] \in Calls BY DEF Calls
  <2> QED BY <2>1, <2>2 DEF IInv, TypeOK
<1>3. OneAlive' /\ CallHasPage' BY DEF IInv, TypeOK, OneAlive, CallHasPage
<1>4. CallsSound' BY DEF IInv, TypeOK, CallsSound, OutCall, InCall
<1>5. SlotsDistinct' BY DEF IInv, TypeOK, SlotsDistinct, Owned, Running
<1>6. NoSlotLeak' BY DEF IInv, TypeOK, NoSlotLeak, Owned
<1>7. PanicsHonest' BY DEF IInv, PanicsHonest, Swapped
<1> QED BY <1>2, <1>3, <1>4, <1>5, <1>6, <1>7 DEF IInv

\* The page is back, but still marked as out.
LEMMA InReadInv ==
    ASSUME SwapfileAssumption, IInv, Running, NEW p \in Procs, InRead(p)
    PROVE  IInv'
<1>1. CASE Stop("io") BY <1>1, StopInv
<1>2. CASE /\ mem' = [mem EXCEPT ![p][io[p].va] = file[io[p].slot]]
           /\ Goes(p, [io[p] EXCEPT !.pc = "check"])
           /\ UNCHANGED <<slots, file, live, offset, rest>>
  <2>1. p \in live BY CallerAlive DEF InRead, At
  <2>2. io[p] \in Calls /\ io[p].va \in Pages BY DEF IInv, TypeOK, CallHasPage, InRead, At
  <2> USE <1>2, <2>1, <2>2, Sole DEF InRead, slots, rest, Goes, At
  <2>3. TypeOK' BY DEF IInv, TypeOK, Calls
  <2>4. OneAlive' /\ CallHasPage' BY DEF IInv, TypeOK, OneAlive, CallHasPage
  <2>5. CallsSound' BY DEF IInv, TypeOK, CallsSound, OutCall, InCall, Calls
  <2>6. SlotsDistinct'
    <3>1. \A q \in Procs, v \in Pages : Owned(q, v)' <=> Owned(q, v)
      BY DEF Owned, IInv, TypeOK, Calls
    <3> QED BY <3>1, SameOwners
  <2>7. NoSlotLeak'
    <3>1. \A q \in Procs, v \in Pages : Owned(q, v)' <=> Owned(q, v)
      BY DEF Owned, IInv, TypeOK, Calls
    <3>2. \A q \in Procs : ~At(q, "return") BY DEF IInv, TypeOK
    <3> QED BY <3>1, <3>2, SameUsers
  <2>8. PanicsHonest' BY DEF IInv, PanicsHonest, Swapped
  <2> QED BY <2>3, <2>4, <2>5, <2>6, <2>7, <2>8 DEF IInv
<1> QED BY <1>1, <1>2 DEF InRead

\* vm_fault enters the page; the KASSERT cannot fail, because the slot given
\* up was reset and nobody else marked it.
LEMMA InReturnInv ==
    ASSUME SwapfileAssumption, IInv, Running, NEW p \in Procs, InReturn(p)
    PROVE  IInv'
<1>1. p \in live BY CallerAlive DEF InReturn, At
<1>2. io[p] \in Calls /\ io[p].va \in Pages BY DEF IInv, TypeOK, CallHasPage, InReturn, At
<1>3. InCall(p) BY <1>1 DEF IInv, CallsSound
<1>4. /\ swap_offset[io[p].slot] = 0
      /\ offset' = [offset EXCEPT ![p][io[p].va] = Resident]
      /\ Goes(p, IdleIo)
      /\ UNCHANGED <<slots, file, live, mem, rest>>
  BY <1>3 DEF InReturn, InCall, At
<1> USE <1>1, <1>2, <1>4, Sole DEF InReturn, slots, rest, Goes, At
<1>5. TypeOK' BY IdleTyped DEF IInv, TypeOK, Calls
<1>6. OneAlive' /\ CallHasPage' BY DEF IInv, TypeOK, OneAlive, CallHasPage, IdleIo
<1>7. CallsSound' BY DEF IInv, TypeOK, CallsSound, OutCall, InCall, IdleIo
<1>8. SlotsDistinct' BY DEF IInv, TypeOK, SlotsDistinct, Owned, Running, IdleIo
<1>9. NoSlotLeak'
  <2>1. SUFFICES ASSUME NEW s \in Slots, ~free[s]
                 PROVE  \E v \in Pages : Owned(p, v)' /\ offset'[p][v] = s
    BY DEF NoSlotLeak
  <2>2. PICK q \in Procs, v \in Pages : Owned(q, v) /\ offset[q][v] = s
    BY <2>1 DEF IInv, NoSlotLeak
  <2>3. q = p /\ v # io[p].va BY <2>2 DEF Owned
  <2>4. offset'[p][v] = s BY <2>2, <2>3 DEF IInv, TypeOK
  <2>5. Owned(p, v)' BY <2>2, <2>3, <2>4 DEF Owned, IInv, TypeOK, IdleIo
  <2> QED BY <2>4, <2>5
<1>10. PanicsHonest' BY DEF IInv, PanicsHonest, Running
<1> QED BY <1>5, <1>6, <1>7, <1>8, <1>9, <1>10 DEF IInv

\* A new address space: all slots are free, and none was in use.
LEMMA CreateInv ==
    ASSUME SwapfileAssumption, IInv, Running, NEW p \in Procs, live = {}, as_create(p)
    PROVE  IInv'
<1>1. \A q \in Procs : io[q].pc = "idle" /\ \A v \in Pages : offset[q][v] = Resident
  BY DEF IInv, OneAlive, At
<1> USE <1>1 DEF as_create, swapfile_init, ResetList, slots, pages, rest, At
<1>2. TypeOK' BY DEF IInv, TypeOK, Slots, SwapfileAssumption
<1>3. OneAlive' /\ CallHasPage' BY DEF IInv, OneAlive, CallHasPage
<1>4. CallsSound' BY DEF IInv, CallsSound, OutCall, InCall, TypeOK
<1>5. SlotsDistinct' BY DEF SlotsDistinct, Owned
<1>6. NoSlotLeak' BY DEF NoSlotLeak
<1>7. PanicsHonest' BY DEF IInv, PanicsHonest, Swapped
<1> QED BY <1>2, <1>3, <1>4, <1>5, <1>6, <1>7 DEF IInv

\* The process ends; its slots stay used, with nobody alive to miss them.
LEMMA DestroyInv ==
    ASSUME SwapfileAssumption, IInv, Running, NEW p \in Procs, as_destroy(p)
    PROVE  IInv'
<1>1. p \in live BY DEF as_destroy
<1> USE <1>1, Sole DEF as_destroy, slots, At
<1>2. live' = {} OBVIOUS
<1>3. TypeOK' BY DEF IInv, TypeOK, SwapfileAssumption
<1>4. OneAlive' /\ CallHasPage' BY <1>2 DEF IInv, TypeOK, OneAlive, CallHasPage
<1>5. CallsSound' /\ NoSlotLeak' BY <1>2 DEF CallsSound, NoSlotLeak
<1>6. SlotsDistinct' BY DEF IInv, TypeOK, SlotsDistinct, Owned, Running
<1>7. PanicsHonest' BY DEF IInv, PanicsHonest, Running
<1> QED BY <1>3, <1>4, <1>5, <1>6, <1>7 DEF IInv

\* A store touches neither slots nor offsets.
LEMMA StoreInv ==
    ASSUME SwapfileAssumption, IInv, Running,
           NEW p \in Procs, NEW v \in Pages, NEW d \in Contents, UserStore(p, v, d)
    PROVE  IInv'
<1>1. p \in live BY DEF UserStore
<1> USE <1>1, Sole DEF UserStore, slots, At
<1>2. TypeOK' BY DEF IInv, TypeOK
<1>3. OneAlive' /\ CallHasPage' BY DEF IInv, OneAlive, CallHasPage
<1>4. CallsSound' BY DEF IInv, CallsSound, OutCall, InCall
<1>5. SlotsDistinct' BY DEF IInv, SlotsDistinct, Owned, Running
<1>6. NoSlotLeak' BY DEF IInv, NoSlotLeak, Owned
<1>7. PanicsHonest' BY DEF IInv, PanicsHonest, Swapped
<1> QED BY <1>2, <1>3, <1>4, <1>5, <1>6, <1>7 DEF IInv

\* vm_shutdown: the kernel stops with an empty list, or on a null vnode.
LEMMA ShutdownInv ==
    ASSUME SwapfileAssumption, IInv, Running, Quiet, swap_shutdown
    PROVE  IInv'
<1>1. CASE Stop("null") BY <1>1, StopInv
<1>2. CASE /\ opens > 0 /\ opens' = opens - 1 /\ ResetList /\ stopped' = "off"
           /\ UNCHANGED <<file, live, pages, io, event>>
  <2> USE <1>2 DEF ResetList, pages, At
  <2>1. TypeOK' BY DEF IInv, TypeOK, Slots, SwapfileAssumption
  <2>2. OneAlive' /\ CallHasPage' BY DEF IInv, OneAlive, CallHasPage
  <2>3. (Running => CallsSound)' /\ SlotsDistinct' BY DEF Running, SlotsDistinct
  <2>4. NoSlotLeak' BY DEF NoSlotLeak
  <2>5. PanicsHonest' BY DEF IInv, PanicsHonest, Swapped
  <2> QED BY <2>1, <2>2, <2>3, <2>4, <2>5 DEF IInv
<1> QED BY <1>1, <1>2 DEF swap_shutdown

\* The inductive step.
LEMMA NextInv ==
    ASSUME SwapfileAssumption, IInv, [SerialNext]_vars PROVE IInv'
<1>1. CASE SerialNext
  <2> USE <1>1 DEF SerialNext
  <2>1. ASSUME NEW p \in Procs, Begin(p) PROVE IInv'
    BY <2>1, DestroyInv, OutFindInv, InFreeInv, StoreInv DEF Begin
  <2>2. ASSUME NEW p \in Procs, Continue(p) PROVE IInv'
    BY <2>2, OutWriteInv, OutMarkInv, OutReturnInv, InReadInv, InReturnInv DEF Continue
  <2> QED BY <2>1, <2>2, CreateInv, ShutdownInv
<1>2. CASE UNCHANGED vars
  BY <1>2 DEF vars, slots, pages, rest, IInv, TypeOK, OneAlive, CallHasPage, CallsSound,
              OutCall, InCall, SlotsDistinct, NoSlotLeak, PanicsHonest, Owned, At, Running, Swapped
<1> QED BY <1>1, <1>2

(* For every number of slots and pages, in every reachable state of one      *)
(* program after the other, the calls stand where IInv says.                 *)
THEOREM SwapInvariant == SerialSpec => []IInv
<1>1. SwapfileAssumption BY SwapfileAssumption
<1>2. Init => IInv BY <1>1, InitInv
<1>3. IInv /\ [SerialNext]_vars => IInv' BY <1>1, NextInv
<1> QED BY <1>2, <1>3, PTL DEF SerialSpec

(* Two pages that are out never share a slot (swapfile.c:54-88).             *)
THEOREM SwapSlotsDistinct == SerialSpec => []SlotsDistinct
<1>1. IInv => SlotsDistinct BY DEF IInv
<1> QED BY <1>1, SwapInvariant, PTL

(* No slot is lost while a program runs (swapfile.c:81, 106).                *)
THEOREM SwapNoSlotLeak == SerialSpec => []NoSlotLeak
<1>1. IInv => NoSlotLeak BY DEF IInv
<1> QED BY <1>1, SwapInvariant, PTL

(* "Out of swap space" means that all slots hold pages, and the KASSERT of   *)
(* vm_fault on swap_in's result cannot fail (swapfile.c:63, vmc1.c:184).     *)
THEOREM SwapPanicsHonest == SerialSpec => []PanicsHonest
<1>1. IInv => PanicsHonest BY DEF IInv
<1> QED BY <1>1, SwapInvariant, PTL

(* Type correctness: offsets returned by swap_out are offsets of slots, and  *)
(* the arguments of the calls are pages and slots.                           *)
THEOREM SwapTypeCorrect == SerialSpec => []TypeOK
<1>1. IInv => TypeOK BY DEF IInv
<1> QED BY <1>1, SwapInvariant, PTL

-----------------------------------------------------------------------------
\* What a page holds, whether it is resident or out.
Held(p, v) == IF offset[p][v] = Resident THEN mem[p][v] ELSE file[offset[p][v]]

\* Two processes have the same content if every page holds the same.
LEMMA ContentSame ==
    ASSUME \A p \in Procs, v \in Pages : Held(p, v)' = Held(p, v)
    PROVE  content' = content
<1>1. content = [p \in Procs |-> [v \in Pages |-> Held(p, v)]] BY DEF content, Held
<1>2. content' = [p \in Procs |-> [v \in Pages |-> Held(p, v)']] BY DEF content, Held
<1>3. \A p \in Procs : [v \in Pages |-> Held(p, v)'] = [v \in Pages |-> Held(p, v)] OBVIOUS
<1> QED BY <1>1, <1>2, <1>3

\* At boot every page is fresh.
LEMMA InitContent == ASSUME SwapfileAssumption, Init PROVE Memory!Init
<1>1. \A p \in Procs : [v \in Pages |-> Held(p, v)] = Fresh
  BY DEF Init, Held, SwapfileAssumption
<1>2. content = [p \in Procs |-> Fresh] BY <1>1 DEF content, Held
<1> QED BY <1>2 DEF Memory!Init, Init

\* A transfer to the file goes to a free slot.
LEMMA OutWriteContent ==
    ASSUME IInv, Running, NEW p \in Procs, OutWrite(p) PROVE content' = content
<1>1. CASE Stop("io") BY <1>1, ContentSame DEF Stop, pages, Held
<1>2. CASE /\ file' = [file EXCEPT ![io[p].slot] = mem[p][io[p].va]]
           /\ UNCHANGED <<slots, live, pages, rest>>
  <2>1. p \in live BY CallerAlive DEF OutWrite, At
  <2>2. free[io[p].slot] BY <2>1 DEF IInv, CallsSound, OutCall, OutWrite, At
  <2>3. ASSUME NEW q \in Procs, NEW v \in Pages, offset[q][v] # Resident
        PROVE  offset[q][v] # io[p].slot
    <3>1. q = p BY <2>1, <2>3, Sole
    <3>2. Owned(q, v) BY <2>3, <3>1 DEF Owned, OutWrite, At
    <3> QED BY <2>2, <3>2 DEF IInv, SlotsDistinct
  <2>4. \A s : s # io[p].slot => file'[s] = file[s]
    BY <1>2 DEF IInv, TypeOK
  <2> QED BY <1>2, <2>3, <2>4, ContentSame DEF Held, pages
<1> QED BY <1>1, <1>2 DEF OutWrite

\* The page that goes out is in the file already.
LEMMA OutReturnContent ==
    ASSUME IInv, Running, NEW p \in Procs, OutReturn(p) PROVE content' = content
<1>1. p \in live BY CallerAlive DEF OutReturn, At
<1>2. OutCall(p) BY <1>1 DEF IInv, CallsSound
<1>3. io[p].va \in Pages /\ io[p].slot \in Slots
  BY DEF IInv, TypeOK, CallHasPage, Calls, OutReturn, At
<1>4. io[p].slot # Resident BY <1>3, SwapfileAssumption DEF Slots, Resident, SwapfileAssumption
<1>5. /\ offset' = [offset EXCEPT ![p][io[p].va] = io[p].slot]
      /\ offset[p][io[p].va] = Resident
      /\ file[io[p].slot] = mem[p][io[p].va]
  BY <1>2 DEF OutCall, OutReturn, At
<1>6. ASSUME NEW q \in Procs, NEW v \in Pages PROVE Held(q, v)' = Held(q, v)
  <2>1. CASE q = p /\ v = io[p].va
    <3>1. offset'[q][v] = io[p].slot BY <1>5, <2>1 DEF IInv, TypeOK
    <3> QED BY <1>4, <1>5, <2>1, <3>1 DEF Held, OutReturn
  <2>2. CASE ~(q = p /\ v = io[p].va)
    <3>1. offset'[q][v] = offset[q][v] BY <1>5, <2>2 DEF IInv, TypeOK
    <3> QED BY <3>1 DEF Held, OutReturn
  <2> QED BY <2>1, <2>2
<1> QED BY <1>6, ContentSame

\* A page that is being read back counts as out until vm_fault enters it.
LEMMA InReadContent ==
    ASSUME IInv, Running, NEW p \in Procs, InRead(p) PROVE content' = content
<1>1. CASE Stop("io") BY <1>1, ContentSame DEF Stop, pages, Held
<1>2. CASE /\ mem' = [mem EXCEPT ![p][io[p].va] = file[io[p].slot]]
           /\ UNCHANGED <<file, offset>>
  <2>1. p \in live BY CallerAlive DEF InRead, At
  <2>2. InCall(p) BY <2>1 DEF IInv, CallsSound
  <2>3. io[p].va \in Pages /\ io[p].slot \in Slots
    BY DEF IInv, TypeOK, CallHasPage, Calls, InRead, At
  <2>4. offset[p][io[p].va] # Resident
    BY <2>2, <2>3, SwapfileAssumption DEF InCall, InRead, At, Slots, Resident, SwapfileAssumption
  <2>5. ASSUME NEW q \in Procs, NEW v \in Pages, offset[q][v] = Resident
        PROVE  mem'[q][v] = mem[q][v]
    BY <1>2, <2>4, <2>5 DEF IInv, TypeOK
  <2> QED BY <1>2, <2>5, ContentSame DEF Held
<1> QED BY <1>1, <1>2 DEF InRead

\* The page that comes back was read from its slot.
LEMMA InReturnContent ==
    ASSUME IInv, Running, NEW p \in Procs, InReturn(p) PROVE content' = content
<1>1. p \in live BY CallerAlive DEF InReturn, At
<1>2. InCall(p) BY <1>1 DEF IInv, CallsSound
<1>3. CASE Stop("assert") BY <1>3, ContentSame DEF Stop, pages, Held
<1>4. CASE /\ offset' = [offset EXCEPT ![p][io[p].va] = Resident]
           /\ UNCHANGED <<file, mem>>
  <2>1. /\ offset[p][io[p].va] = io[p].slot
        /\ mem[p][io[p].va] = file[io[p].slot]
    BY <1>2 DEF InCall, InReturn, At
  <2>2. ASSUME NEW q \in Procs, NEW v \in Pages PROVE Held(q, v)' = Held(q, v)
    <3>1. CASE q = p /\ v = io[p].va
      <4>1. offset'[q][v] = Resident BY <1>4, <3>1 DEF IInv, TypeOK
      <4> QED BY <1>4, <2>1, <3>1, <4>1 DEF Held
    <3>2. CASE ~(q = p /\ v = io[p].va)
      <4>1. offset'[q][v] = offset[q][v] BY <1>4, <3>2 DEF IInv, TypeOK
      <4> QED BY <1>4, <4>1 DEF Held
    <3> QED BY <3>1, <3>2
  <2> QED BY <2>2, ContentSame
<1> QED BY <1>3, <1>4 DEF InReturn

\* A store reaches the page it names, and no other.
LEMMA StoreContent ==
    ASSUME IInv, NEW p \in Procs, NEW v \in Pages, NEW d \in Contents, UserStore(p, v, d)
    PROVE  Memory!Store(p, v, d)
<1> DEFINE C == [content EXCEPT ![p][v] = d]
<1>1. ASSUME NEW q \in Procs, NEW w \in Pages
      PROVE  Held(q, w)' = IF q = p /\ w = v THEN d ELSE Held(q, w)
  BY DEF UserStore, Held, IInv, TypeOK
<1>2. content' = [q \in Procs |-> [w \in Pages |-> Held(q, w)']] BY DEF content, Held
<1>3. ASSUME NEW q \in Procs PROVE C[q] = [w \in Pages |-> Held(q, w)']
  <2>1. content = [r \in Procs |-> [w \in Pages |-> Held(r, w)]] BY DEF content, Held
  <2>2. CASE q = p
    <3>1. C[q] = [[w \in Pages |-> Held(p, w)] EXCEPT ![v] = d] BY <2>1, <2>2
    <3> QED BY <1>1, <2>2, <3>1
  <2>3. CASE q # p
    <3>1. C[q] = [w \in Pages |-> Held(q, w)] BY <2>1, <2>3
    <3> QED BY <1>1, <2>3, <3>1
  <2> QED BY <2>2, <2>3
<1>4. content' = C BY <1>2, <1>3 DEF content
<1> QED BY <1>4 DEF UserStore, Memory!Store

\* The next program in p's place finds fresh pages.
LEMMA DestroyContent ==
    ASSUME SwapfileAssumption, IInv, NEW p \in Procs, as_destroy(p)
    PROVE  Memory!Exit(p)
<1> DEFINE C == [content EXCEPT ![p] = Fresh]
<1>1. ASSUME NEW q \in Procs, NEW w \in Pages
      PROVE  Held(q, w)' = IF q = p THEN Fresh[w] ELSE Held(q, w)
  BY DEF as_destroy, Held, IInv, TypeOK
<1>2. content' = [q \in Procs |-> [w \in Pages |-> Held(q, w)']] BY DEF content, Held
<1>3. ASSUME NEW q \in Procs PROVE C[q] = [w \in Pages |-> Held(q, w)']
  <2>1. content = [r \in Procs |-> [w \in Pages |-> Held(r, w)]] BY DEF content, Held
  <2>2. CASE q = p
    <3>1. C[q] = Fresh BY <2>1, <2>2
    <3>2. [w \in Pages |-> Held(q, w)'] = [w \in Pages |-> Fresh[w]] BY <1>1, <2>2
    <3> QED BY <3>1, <3>2 DEF SwapfileAssumption
  <2>3. CASE q # p
    <3>1. C[q] = [w \in Pages |-> Held(q, w)] BY <2>1, <2>3
    <3> QED BY <1>1, <2>3, <3>1
  <2> QED BY <2>2, <2>3
<1>4. content' = C BY <1>2, <1>3 DEF content
<1> QED BY <1>4 DEF as_destroy, Memory!Exit

\* Every step is a store, an exit, or cannot be seen.
LEMMA StepContent ==
    ASSUME SwapfileAssumption, IInv, [SerialNext]_vars
    PROVE  [Memory!Next]_<<content, event>>
<1>1. CASE SerialNext
  <2> USE <1>1 DEF SerialNext
  <2>1. ASSUME NEW p \in Procs, Continue(p) PROVE UNCHANGED <<content, event>>
    <3>1. UNCHANGED event
      BY <2>1 DEF Continue, OutWrite, OutMark, OutReturn, InRead, InReturn, Stop, rest
    <3>2. CASE OutMark(p) BY <3>1, <3>2, ContentSame DEF OutMark, pages, Held
    <3> QED BY <2>1, <3>1, <3>2, OutWriteContent, OutReturnContent, InReadContent,
               InReturnContent DEF Continue
  <2>2. ASSUME NEW p \in Procs, NEW v \in Pages, OutFind(p, v) \/ InFree(p, v)
        PROVE  UNCHANGED <<content, event>>
    <3>1. UNCHANGED <<file, pages, event>> BY <2>2 DEF OutFind, InFree, Stop, rest, pages
    <3> QED BY <3>1, ContentSame DEF pages, Held
  <2>3. ASSUME NEW p \in Procs, as_create(p) PROVE UNCHANGED <<content, event>>
    BY <2>3, ContentSame DEF as_create, pages, Held
  <2>4. ASSUME swap_shutdown PROVE UNCHANGED <<content, event>>
    BY <2>4, ContentSame DEF swap_shutdown, Stop, pages, Held
  <2> QED BY <2>1, <2>2, <2>3, <2>4, StoreContent, DestroyContent DEF Begin, Memory!Next
<1>2. CASE UNCHANGED vars
  BY <1>2, ContentSame DEF vars, slots, pages, rest, Held
<1> QED BY <1>1, <1>2

(* Swapping is invisible: whatever is evicted and brought back, every page   *)
(* holds what its program stored last (swapfile.c, coremap.c:184-191,        *)
(* vmc1.c:176-190, with one program at a time).                              *)
THEOREM MemoryImplemented == SerialSpec => MemorySpec
<1>1. SwapfileAssumption BY SwapfileAssumption
<1>2. Init => Memory!Init BY <1>1, InitContent
<1>3. IInv /\ [SerialNext]_vars => [Memory!Next]_<<content, event>> BY <1>1, StepContent
<1> QED BY <1>2, <1>3, SwapInvariant, PTL DEF SerialSpec, MemorySpec, Memory!Spec
=============================================================================
