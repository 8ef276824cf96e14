----------------------------- MODULE SemfsProofs -----------------------------
(***************************************************************************)
(* For any number of threads, names, units and calls: the names, numbers,  *)
(* semaphores and vnodes of semfs agree with each other and with who uses  *)
(* them (SemaphoresExact).                                                 *)
(*                                                                         *)
(* The argument.  What a thread found in the directory stays true while it *)
(* has the directory locked (Hand): a semaphore it removes or makes is not *)
(* linked, so a last close spares it only where its lock is free, and no   *)
(* vnode can be made for it.  A thread with a reference keeps the vnode in *)
(* the table (Refs), which keeps the semaphore (Hooked), so a number that  *)
(* goes is one nobody reads from, closes or looks up.                      *)
(***************************************************************************)
EXTENDS Semfs, FiniteSetTheorems, SequenceTheorems, WellFoundedInduction, TLAPS

\* Where a thread has the directory locked.
Inside == {"get", "unlink", "make", "enter", "undo", "drop", "destroy"}
PCs == Inside \cup {"idle", "root", "dir", "put", "reclaim", "unhook", "read", "asleep", "opened"}

Entry == [name : Names \cup {None}, num : Nat]
Semaphore == [count : 0..MaxCount, hasvnode : BOOLEAN, linked : BOOLEAN, lock : Threads \cup {None}, q : Seq(Threads)]
Thread == [pc : PCs, op : {None, "lookup", "creat", "excl", "remove", "close", "read", "open", "set"},
           name : Names \cup {None}, num : Nat, sem : Nat, hdl : Nat, left : Nat]

Types ==
  /\ sems \in Seq(Nat) /\ dents \in Seq(Entry)
  /\ obj \in [DOMAIN obj -> Semaphore] /\ IsFiniteSet(DOMAIN obj) /\ DOMAIN obj \subseteq Nat \ {0}
  /\ vnodes \in [DOMAIN vnodes -> Nat \ {0}] /\ DOMAIN vnodes \subseteq Nat
  /\ th \in [Threads -> Thread]
  /\ dirlock \in Threads \cup {None} /\ tablelock \in Threads \cup {None}

\* What a thread brings to the step it is at.
ThreadOK(t) ==
  /\ th[t].pc \in {"put", "reclaim"} /\ th[t].num # ROOT => th[t].hdl = 0 /\ th[t].op = "close"
  /\ th[t].pc \in {"read", "asleep"} => th[t].hdl # 0
  /\ th[t].pc \in {"root", "dir"} => th[t].op \in {"lookup", "creat", "excl", "remove"} /\ (th[t].op = "remove" \/ th[t].hdl = 0)
  /\ th[t].pc \in {"get", "make", "enter"} => th[t].hdl = 0
  /\ th[t].pc \in Inside \cup {"root", "dir"} => th[t].name \in Names
Local == \A t \in Threads : ThreadOK(t)

\* References.
Refs ==
  /\ \A t \in Threads : \A x : Holds(t, x) => x \in DOMAIN vnodes
  /\ \A x \in DOMAIN vnodes : vnodes[x] = Cardinality({t \in Threads : Holds(t, x)})

\* Each semaphore has one number.
Numbers ==
  /\ \A k \in DOMAIN sems : sems[k] \in DOMAIN obj \cup {0}
  /\ \A o \in DOMAIN obj : \E k \in DOMAIN sems : sems[k] = o
  /\ \A j, k \in DOMAIN sems : sems[j] = sems[k] /\ sems[j] # 0 => j = k

\* The semaphores with vnodes know it.
Hooked == DOMAIN vnodes \ {ROOT} = {x \in DOMAIN sems : sems[x] # 0 /\ obj[sems[x]].hasvnode}

\* A last close between the two locks.
Leaving(t) ==
  /\ stopped = None => tablelock = t
  /\ th[t].num \in DOMAIN sems /\ sems[th[t].num] \in DOMAIN obj /\ ~obj[sems[th[t].num]].hasvnode
Leaves == \A t \in Threads : th[t].pc = "unhook" => Leaving(t)

EntryPlaces == {k \in DOMAIN dents : dents[k] # NoEntry}
Entered == {dents[k].num : k \in EntryPlaces}
Linked == {x \in DOMAIN sems : sems[x] # 0 /\ obj[sems[x]].linked}

\* A semaphore that only its maker knows.
Fresh(x, o) ==
  /\ ~obj[o].linked /\ ~obj[o].hasvnode
  /\ \A u \in Threads : th[u].pc = "unhook" => th[u].num # x

\* What a thread inside knows of the number x and the semaphore o in its hands.
Hand(t, x, o) ==
  /\ th[t].pc # "make" => x \in DOMAIN sems /\ sems[x] = o /\ o \in DOMAIN obj
  /\ th[t].pc \in {"enter", "undo"} => Fresh(x, o)
  /\ th[t].pc = "get" => x \in Entered /\ (obj[o].linked \/ Fresh(x, o))
  /\ th[t].pc = "unlink" => obj[o].linked
  /\ th[t].pc \in {"drop", "destroy"} => ~obj[o].linked /\ obj[o].lock # None
  /\ th[t].pc = "destroy" => ~obj[o].hasvnode
  /\ th[t].pc \in {"make", "enter"} => \A k \in DOMAIN dents : dents[k].name # th[t].name
  /\ th[t].pc = "make" => x = 0
  /\ th[t].pc = "enter" => x \notin Entered
Hands == \A t \in Threads : /\ th[t].pc \in Inside <=> dirlock = t
                            /\ th[t].pc \in Inside => Hand(t, th[t].num, th[t].sem)

\* The directory's entries, but for the one in hand.
Entries ==
  /\ \A k \in EntryPlaces : dents[k].num # 0
  /\ \A j, k \in EntryPlaces : dents[j].name = dents[k].name \/ dents[j].num = dents[k].num => j = k
  /\ \A x \in Entered \cup Linked : dirlock = None \/ x # th[dirlock].num => (x \in Entered <=> x \in Linked)

\* Every semaphore has a name, a vnode or somebody who is about to give it one or to destroy it.
Alive(o) ==
  \/ obj[o].linked \/ obj[o].hasvnode
  \/ \E t \in Threads : th[t].sem = o /\ th[t].pc \in {"enter", "get", "undo", "drop", "destroy"}
  \/ \E t \in Threads : th[t].pc = "unhook" /\ sems[th[t].num] = o
AllAlive == \A o \in DOMAIN obj : Alive(o)

\* Sleepers.
Queues ==
  /\ \A o \in DOMAIN obj : \A t \in Range(obj[o].q) : th[t].pc = "asleep" /\ Sem(t) = o
  /\ \A t \in Threads : th[t].pc = "asleep" => \E o \in DOMAIN obj : t \in Range(obj[o].q)

SemInv == Types /\ Local /\ Refs /\ Numbers /\ Hooked /\ Leaves /\ Hands /\ Entries /\ AllAlive /\ Queues
-----------------------------------------------------------------------------
(* The operators of the model. *)

\* Every nonempty set of numbers has a least element.
LEMMA Least == ASSUME NEW T \in SUBSET Nat, T # {} PROVE \E x \in T : \A y \in T : x <= y
<1> DEFINE R == OpToRel(<, Nat)
<1>1. IsWellFoundedOn(R, Nat) BY NatLessThanWellFounded
<1>2. \A x, y \in Nat : y < x => <<y, x>> \in R BY DEF OpToRel
<1> HIDE DEF R
<1>3. PICK x \in T : \A y \in T : ~(<<y, x>> \in R) BY <1>1, WFMin
<1>4. ASSUME NEW y \in T PROVE x <= y
  <2>1. x \in Nat /\ y \in Nat BY <1>3
  <2>2. ~(y < x) BY <1>2, <1>3, <2>1
  <2> QED BY <2>1, <2>2
<1> QED BY <1>3, <1>4

\* First finds a place with x, or the one after the last.
LEMMA FirstExact ==
  ASSUME NEW S, NEW s \in Seq(S), NEW x
  PROVE  /\ First(s, x) \in 1..Len(s) + 1
         /\ First(s, x) \in DOMAIN s => s[First(s, x)] = x
<1>0. Len(s) \in Nat /\ DOMAIN s = 1..Len(s) OBVIOUS
<1>1. CASE x \in Range(s)
  <2> DEFINE K == {k \in DOMAIN s : s[k] = x}
  <2>1. K \in SUBSET Nat /\ K # {} BY <1>0, <1>1 DEF Range
  <2>2. PICK k \in K : \A j \in K : k <= j BY <2>1, Least
  <2>3. \A j \in 1..k-1 : s[j] # x
    <3> SUFFICES ASSUME NEW j \in 1..k-1, s[j] = x PROVE FALSE OBVIOUS
    <3>1. j \in DOMAIN s /\ ~(k <= j) BY <1>0
    <3> QED BY <2>2, <3>1
  <2>4. \E i \in DOMAIN s : s[i] = x /\ \A j \in 1..i-1 : s[j] # x BY <2>3
  <2>5. First(s, x) = CHOOSE i \in DOMAIN s : s[i] = x /\ \A j \in 1..i-1 : s[j] # x BY <1>1 DEF First
  <2>6. First(s, x) \in DOMAIN s /\ s[First(s, x)] = x BY <2>4, <2>5
  <2> QED BY <1>0, <2>6
<1>2. CASE x \notin Range(s)
  <2>1. First(s, x) = Len(s) + 1 BY <1>2 DEF First
  <2> QED BY <1>0, <2>1
<1> QED BY <1>1, <1>2

\* u is s with x at k.
Filled(u, s, k, x) ==
  /\ DOMAIN u = DOMAIN s \cup {k}
  /\ u[k] = x
  /\ \A j \in DOMAIN s \ {k} : u[j] = s[j]

\* Put fills one place and leaves the others.
LEMMA PutExact ==
  ASSUME NEW S, NEW s \in Seq(S), NEW k \in 1..Len(s) + 1, NEW x \in S
  PROVE  Put(s, k, x) \in Seq(S) /\ Filled(Put(s, k, x), s, k, x)
<1>0. Len(s) \in Nat /\ DOMAIN s = 1..Len(s) OBVIOUS
<1>1. CASE k > Len(s)
  <2>1. Put(s, k, x) = Append(s, x) /\ k = Len(s) + 1 BY <1>0, <1>1 DEF Put
  <2> QED BY <1>0, <2>1, AppendProperties DEF Filled
<1>2. CASE ~(k > Len(s))
  <2>1. Put(s, k, x) = [s EXCEPT ![k] = x] /\ k \in DOMAIN s BY <1>0, <1>2 DEF Put
  <2>2. DOMAIN Put(s, k, x) = DOMAIN s BY <2>1
  <2>3. \A j \in DOMAIN s : Put(s, k, x)[j] = IF j = k THEN x ELSE s[j] BY <2>1
  <2>4. Put(s, k, x) \in Seq(S) BY <2>1, ExceptSeq
  <2> QED BY <2>1, <2>2, <2>3, <2>4 DEF Filled
<1> QED BY <1>1, <1>2

\* There is always a place for one more semaphore.
LEMMA RoomForOne ==
  ASSUME NEW S, IsFiniteSet(S)
  PROVE  LET o == CHOOSE o \in 1..Cardinality(S) + 1 : o \notin S IN o \in Nat \ {0} /\ o \notin S
<1> DEFINE n == Cardinality(S)
<1>1. n \in Nat BY FS_CardinalityType
<1>2. \E o \in 1..n + 1 : o \notin S
  <2> SUFFICES ASSUME 1..n + 1 \subseteq S PROVE FALSE OBVIOUS
  <2>1. Cardinality(1..n + 1) <= n BY FS_Subset
  <2>2. Cardinality(1..n + 1) = n + 1 BY <1>1, FS_Interval
  <2> QED BY <1>1, <2>1, <2>2
<1> HIDE DEF n
<1> DEFINE o == CHOOSE o \in 1..n + 1 : o \notin S
<1>3. o \in 1..n + 1 /\ o \notin S BY <1>2
<1> QED BY <1>1, <1>3 DEF n
-----------------------------------------------------------------------------
(* References taken and given back. *)

Holders(x) == {t \in Threads : Holds(t, x)}

LEMMA HoldersCounted ==
  ASSUME NEW x
  PROVE  IsFiniteSet(Holders(x)) /\ Cardinality(Holders(x)) \in Nat
<1>1. Holders(x) \in SUBSET Threads BY DEF Holders
<1>2. IsFiniteSet(Holders(x)) BY <1>1, FS_Subset, SemfsAssumption
<1> QED BY <1>2, FS_CardinalityType

\* What a step does to who holds what.
HoldSame == \A u \in Threads : \A y : Holds(u, y)' <=> Holds(u, y)
HoldMore(t, x) == \A u \in Threads : \A y : Holds(u, y)' <=> Holds(u, y) \/ (u = t /\ y = x)
HoldLess(t, x) == \A u \in Threads : \A y : Holds(u, y)' <=> Holds(u, y) /\ ~(u = t /\ y = x)

\* Steps after which the threads hold what they held.
LEMMA RefsSame ==
  ASSUME Refs, vnodes' = vnodes, HoldSame
  PROVE  Refs'
<1>1. \A y : {u \in Threads : Holds(u, y)'} = {u \in Threads : Holds(u, y)} BY DEF HoldSame
<1> QED BY <1>1 DEF Refs

\* semfs_getvnode counts the new reference.
LEMMA RefsTaken ==
  ASSUME Types, Refs, NEW t \in Threads, NEW x \in Nat, ~Holds(t, x), GetVnode(x),
         HoldMore(t, x)
  PROVE  /\ Refs' /\ DOMAIN vnodes' = DOMAIN vnodes \cup {x}
         /\ vnodes' \in [DOMAIN vnodes' -> Nat \ {0}] /\ DOMAIN vnodes' \subseteq Nat
<1> DEFINE H(y) == Holders(y)
           H1(y) == {u \in Threads : Holds(u, y)'}
<1>1. \A y : y # x => H1(y) = H(y) BY DEF Holders, HoldMore
<1>2. H1(x) = H(x) \cup {t} /\ t \notin H(x) BY DEF Holders, HoldMore
<1>3. IsFiniteSet(H(x)) /\ Cardinality(H(x)) \in Nat BY HoldersCounted
<1>4. Cardinality(H1(x)) = Cardinality(H(x)) + 1 BY <1>2, <1>3, FS_AddElement
<1>5. \A y \in DOMAIN vnodes : vnodes[y] \in Nat \ {0} BY DEF Types
<1>6. \A y \in DOMAIN vnodes : vnodes[y] = Cardinality(H(y)) BY DEF Refs, Holders
<1>7. DOMAIN vnodes' = DOMAIN vnodes \cup {x} BY DEF GetVnode
<1>8. \A y \in DOMAIN vnodes \ {x} : vnodes'[y] = vnodes[y] BY DEF GetVnode
<1>9. vnodes'[x] = Cardinality(H1(x)) /\ vnodes'[x] \in Nat \ {0}
  <2>1. CASE x \in DOMAIN vnodes
    <3>1. vnodes'[x] = vnodes[x] + 1 BY <2>1 DEF GetVnode
    <3> QED BY <1>4, <1>5, <1>6, <2>1, <3>1
  <2>2. CASE x \notin DOMAIN vnodes
    <3>1. vnodes'[x] = 1 BY <2>2 DEF GetVnode
    <3>2. H(x) = {} BY <2>2 DEF Holders, Refs
    <3>3. Cardinality(H(x)) = 0 BY <3>2, FS_EmptySet
    <3> QED BY <1>4, <3>1, <3>3
  <2> QED BY <2>1, <2>2
<1>10. vnodes' = [y \in DOMAIN vnodes' |-> vnodes'[y]] BY DEF GetVnode, Types
<1>11. \A y \in DOMAIN vnodes' : vnodes'[y] \in Nat \ {0} BY <1>5, <1>7, <1>8, <1>9
<1>12. DOMAIN vnodes' \subseteq Nat BY <1>7 DEF Types
<1>13. \A y \in DOMAIN vnodes' : vnodes'[y] = Cardinality(H1(y)) BY <1>1, <1>6, <1>7, <1>8, <1>9
<1>14. \A u \in Threads : \A y : Holds(u, y)' => y \in DOMAIN vnodes' BY <1>7 DEF Refs, HoldMore
<1> QED BY <1>7, <1>10, <1>11, <1>12, <1>13, <1>14 DEF Refs

\* vnode_decref and semfs_reclaim: one of several references goes.
LEMMA RefsGiven ==
  ASSUME Types, Refs, NEW t \in Threads, NEW x \in Nat, Holds(t, x),
         vnodes[x] > 1, vnodes' = [vnodes EXCEPT ![x] = @ - 1],
         HoldLess(t, x)
  PROVE  Refs' /\ DOMAIN vnodes' = DOMAIN vnodes /\ vnodes' \in [DOMAIN vnodes' -> Nat \ {0}]
<1> DEFINE H(y) == Holders(y)
           H1(y) == {u \in Threads : Holds(u, y)'}
<1>1. \A y : y # x => H1(y) = H(y) BY DEF Holders, HoldLess
<1>2. H1(x) = H(x) \ {t} /\ t \in H(x) BY DEF Holders, HoldLess
<1>3. IsFiniteSet(H(x)) /\ Cardinality(H(x)) \in Nat BY HoldersCounted
<1>4. Cardinality(H1(x)) = Cardinality(H(x)) - 1 BY <1>2, <1>3, FS_RemoveElement
<1>5. \A y \in DOMAIN vnodes : vnodes[y] \in Nat \ {0} BY DEF Types
<1>6. \A y \in DOMAIN vnodes : vnodes[y] = Cardinality(H(y)) BY DEF Refs, Holders
<1>7. x \in DOMAIN vnodes /\ DOMAIN vnodes' = DOMAIN vnodes BY DEF Refs
<1>8. \A y \in DOMAIN vnodes \ {x} : vnodes'[y] = vnodes[y] OBVIOUS
<1>9. vnodes'[x] = vnodes[x] - 1 BY <1>7
<1>10. vnodes'[x] = Cardinality(H1(x)) /\ vnodes'[x] \in Nat \ {0} BY <1>4, <1>5, <1>6, <1>7, <1>9
<1>11. vnodes' = [y \in DOMAIN vnodes' |-> vnodes'[y]] OBVIOUS
<1>12. \A y \in DOMAIN vnodes' : vnodes'[y] \in Nat \ {0} BY <1>5, <1>7, <1>8, <1>10
<1>13. \A y \in DOMAIN vnodes' : vnodes'[y] = Cardinality(H1(y)) BY <1>1, <1>6, <1>7, <1>8, <1>10
<1>14. \A u \in Threads : \A y : Holds(u, y)' => y \in DOMAIN vnodes' BY <1>7 DEF Refs, HoldLess
<1> QED BY <1>7, <1>11, <1>12, <1>13, <1>14 DEF Refs

\* The last reference goes, and the vnode with it.
LEMMA RefsLast ==
  ASSUME Types, Refs, NEW t \in Threads, NEW x \in Nat, Holds(t, x),
         ~(vnodes[x] > 1), vnodes' = Without(vnodes, x),
         HoldLess(t, x)
  PROVE  /\ Refs' /\ DOMAIN vnodes' = DOMAIN vnodes \ {x} /\ vnodes' \in [DOMAIN vnodes' -> Nat \ {0}]
         /\ \A u \in Threads : Holds(u, x) => u = t
<1> DEFINE H(y) == Holders(y)
           H1(y) == {u \in Threads : Holds(u, y)'}
<1>1. \A y : y # x => H1(y) = H(y) BY DEF Holders, HoldLess
<1>2. x \in DOMAIN vnodes BY DEF Refs
<1>3. vnodes[x] \in Nat \ {0} BY <1>2 DEF Types
<1>4. vnodes[x] = 1 BY <1>3
<1>5. Cardinality(H(x)) = 1 BY <1>2, <1>4 DEF Refs, Holders
<1>6. IsFiniteSet(H(x)) BY HoldersCounted
<1>7. PICK v : H(x) = {v} BY <1>5, <1>6, FS_Singleton
<1>8. \A u \in Threads : Holds(u, x) => u = t BY <1>7 DEF Holders
<1>9. DOMAIN vnodes' = DOMAIN vnodes \ {x} BY DEF Without
<1>10. \A y \in DOMAIN vnodes' : vnodes'[y] = vnodes[y] BY DEF Without
<1>11. vnodes' = [y \in DOMAIN vnodes' |-> vnodes'[y]] BY DEF Without
<1>12. \A y \in DOMAIN vnodes' : vnodes'[y] \in Nat \ {0} BY <1>9, <1>10 DEF Types
<1>13. \A y \in DOMAIN vnodes' : vnodes'[y] = Cardinality(H1(y)) BY <1>1, <1>9, <1>10 DEF Refs, Holders
<1>14. \A u \in Threads : \A y : Holds(u, y)' => y \in DOMAIN vnodes' BY <1>8, <1>9 DEF Refs, HoldLess
<1> QED BY <1>8, <1>9, <1>11, <1>12, <1>13, <1>14 DEF Refs
-----------------------------------------------------------------------------
(* Who has a semaphore open keeps it. *)

LEMMA OpenExact ==
  ASSUME SemInv, NEW t \in Threads, th[t].hdl # 0
  PROVE  /\ th[t].hdl \in DOMAIN vnodes /\ th[t].hdl \in DOMAIN sems
         /\ Sem(t) \in DOMAIN obj /\ Sem(t) # 0 /\ obj[Sem(t)].hasvnode
<1>1. Holds(t, th[t].hdl) BY DEF Holds, ROOT
<1>2. th[t].hdl \in DOMAIN vnodes \ {ROOT} BY <1>1 DEF SemInv, Refs, ROOT
<1>3. th[t].hdl \in DOMAIN sems /\ sems[th[t].hdl] # 0 /\ obj[sems[th[t].hdl]].hasvnode BY <1>2 DEF SemInv, Hooked
<1>4. sems[th[t].hdl] \in DOMAIN obj BY <1>3 DEF SemInv, Numbers
<1> QED BY <1>2, <1>3, <1>4 DEF Sem

\* Semaphores keep their names, vnodes and locks.
Calm ==
  /\ sems' = sems /\ dents' = dents /\ DOMAIN obj' = DOMAIN obj
  /\ \A o \in DOMAIN obj : obj'[o].linked = obj[o].linked /\ obj'[o].hasvnode = obj[o].hasvnode /\ obj'[o].lock = obj[o].lock

\* Another thread stays where it is, or is woken.
Stays(u) ==
  /\ th'[u].num = th[u].num /\ th'[u].sem = th[u].sem /\ th'[u].name = th[u].name
  /\ th'[u].pc = th[u].pc \/ (th[u].pc = "asleep" /\ th'[u].pc = "read")

\* Steps of a thread that has the directory neither before nor after.
LEMMA OutsideStep ==
  ASSUME SemInv, NEW t \in Threads, Calm, stopped = None, tablelock' = tablelock, dirlock' = dirlock,
         DOMAIN vnodes' \ {ROOT} = DOMAIN vnodes \ {ROOT},
         \A u \in Threads \ {t} : Stays(u),
         th[t].pc \notin Inside \cup {"unhook"}, th'[t].pc \notin Inside \cup {"unhook"}
  PROVE  Numbers' /\ Hooked' /\ Leaves' /\ Hands' /\ Entries' /\ AllAlive'
<1>0. Numbers /\ Hooked /\ Leaves /\ Hands /\ Entries /\ AllAlive /\ Types BY DEF SemInv
<1>1. \A k \in DOMAIN sems : sems[k] # 0 => sems[k] \in DOMAIN obj BY <1>0 DEF Numbers
<1>2. \A u \in Threads : /\ th'[u].pc = "unhook" <=> th[u].pc = "unhook"
                         /\ th[u].pc \in Inside <=> th'[u].pc \in Inside
                         /\ th[u].pc \in Inside \cup {"unhook"} => u # t
                         /\ u # t => th'[u].num = th[u].num /\ th'[u].sem = th[u].sem /\ th'[u].name = th[u].name
                         /\ th[u].pc \in Inside => th'[u].pc = th[u].pc
  BY DEF Stays, Inside
<1>3. Numbers' BY <1>0 DEF Numbers, Calm
<1>4. Hooked' BY <1>0, <1>1 DEF Hooked, Calm
<1>5. Leaves' BY <1>0, <1>2 DEF Leaves, Leaving, Calm
<1>6. Entered' = Entered BY DEF Entered, EntryPlaces, Calm
<1>7. Linked' = Linked BY <1>1 DEF Linked, Calm
<1>8. ASSUME NEW u \in Threads, th[u].pc \in Inside PROVE Hand(u, th[u].num, th[u].sem)'
  <2>1. Hand(u, th[u].num, th[u].sem) BY <1>0, <1>8 DEF Hands
  <2>2. PICK x, o : x = th[u].num /\ o = th[u].sem OBVIOUS
  <2>3. th'[u].pc = th[u].pc /\ th'[u].num = x /\ th'[u].sem = o /\ th'[u].name = th[u].name BY <1>2, <1>8, <2>2
  <2>4. o \in DOMAIN obj => (Fresh(x, o) => Fresh(x, o)') BY <1>2 DEF Fresh, Calm
  <2>5. th[u].pc # "make" => o \in DOMAIN obj BY <2>1, <2>2 DEF Hand
  <2>6. Hand(u, x, o)' BY <1>6, <2>1, <2>2, <2>3, <2>4, <2>5 DEF Hand, Calm
  <2> QED BY <2>3, <2>6
<1>9. Hands' BY <1>0, <1>2, <1>8 DEF Hands
<1>10. Entries'
  <2>1. EntryPlaces' = EntryPlaces /\ dents' = dents BY DEF EntryPlaces, Calm
  <2>2. dirlock # None => th'[dirlock].num = th[dirlock].num BY <1>0, <1>2 DEF Hands, Types
  <2> QED BY <1>0, <1>6, <1>7, <2>1, <2>2 DEF Entries
<1>11. AllAlive'
  <2> SUFFICES ASSUME NEW o \in DOMAIN obj PROVE Alive(o)' BY DEF AllAlive, Calm
  <2>1. Alive(o) BY <1>0 DEF AllAlive
  <2>2. {"enter", "get", "undo", "drop", "destroy"} \subseteq Inside BY DEF Inside
  <2> QED BY <1>2, <2>1, <2>2 DEF Alive, Calm
<1> QED BY <1>3, <1>4, <1>5, <1>9, <1>10, <1>11

\* Steps that leave the queues of the semaphores that stay as they are.
LEMMA QueuesKept ==
  ASSUME SemInv,
         \A u \in Threads : th'[u].pc = "asleep" <=> th[u].pc = "asleep",
         \A u \in Threads : th[u].pc = "asleep" => th'[u].hdl = th[u].hdl /\ sems'[th[u].hdl] = sems[th[u].hdl],
         \A o \in DOMAIN obj : (o \in DOMAIN obj' /\ obj'[o].q = obj[o].q) \/ (~obj[o].hasvnode /\ o \notin DOMAIN obj'),
         \A o \in DOMAIN obj' \ DOMAIN obj : obj'[o].q = <<>>
  PROVE  Queues'
<1>0. Queues /\ Local BY DEF SemInv
<1>1. ASSUME NEW o \in DOMAIN obj', NEW u \in Range(obj'[o].q) PROVE th'[u].pc = "asleep" /\ Sem(u)' = o /\ u \in Threads
  <2>1. CASE o \in DOMAIN obj
    <3>1. obj'[o].q = obj[o].q BY <2>1
    <3>2. u \in Range(obj[o].q) BY <3>1
    <3>3. th[u].pc = "asleep" /\ Sem(u) = o BY <1>0, <2>1, <3>2 DEF Queues
    <3>4. obj[o].q \in Seq(Threads) BY <2>1 DEF SemInv, Types, Semaphore
    <3>5. u \in Threads BY <3>2, <3>4 DEF Range
    <3> QED BY <3>3, <3>5 DEF Sem
  <2>2. CASE o \notin DOMAIN obj
    <3>1. Range(obj'[o].q) = {} BY <2>2 DEF Range
    <3> QED BY <3>1
  <2> QED BY <2>1, <2>2
<1>2. ASSUME NEW u \in Threads, th'[u].pc = "asleep" PROVE \E o \in DOMAIN obj' : u \in Range(obj'[o].q)
  <2>1. th[u].pc = "asleep" BY <1>2
  <2>2. PICK o \in DOMAIN obj : u \in Range(obj[o].q) BY <1>0, <2>1 DEF Queues
  <2>3. Sem(u) = o BY <1>0, <2>2 DEF Queues
  <2>4. th[u].hdl # 0 BY <1>0, <2>1 DEF Local, ThreadOK
  <2>5. obj[o].hasvnode BY <2>3, <2>4, OpenExact
  <2> QED BY <2>2, <2>5
<1> QED BY <1>1, <1>2 DEF Queues

Only(t) == \A u \in Threads \ {t} : th'[u] = th[u]

LEMMA LocalKept == ASSUME Local, NEW t \in Threads, Only(t), ThreadOK(t)' PROVE Local'
BY DEF Local, Only, ThreadOK

\* Steps of one thread outside that leave the semaphores alone.
LEMMA OutsideAlone ==
  ASSUME SemInv, NEW t \in Threads, UNCHANGED <<sems, obj, dents, dirlock, tablelock>>, stopped = None,
         DOMAIN vnodes' \ {ROOT} = DOMAIN vnodes \ {ROOT},
         Only(t), th' \in [Threads -> Thread], ThreadOK(t)',
         th[t].pc \notin Inside \cup {"unhook", "asleep"}, th'[t].pc \notin Inside \cup {"unhook", "asleep"},
         Refs', vnodes' \in [DOMAIN vnodes' -> Nat \ {0}], DOMAIN vnodes' \subseteq Nat
  PROVE  SemInv'
<1>1. Calm BY DEF Calm
<1>2. \A u \in Threads \ {t} : Stays(u) BY DEF Only, Stays
<1>3. Numbers' /\ Hooked' /\ Leaves' /\ Hands' /\ Entries' /\ AllAlive' BY <1>1, <1>2, OutsideStep
<1>4. Queues' BY QueuesKept DEF Only
<1>5. Local' BY LocalKept DEF SemInv
<1>6. Types' BY DEF SemInv, Types
<1> QED BY <1>3, <1>4, <1>5, <1>6 DEF SemInv

LEMMA BeginStep == ASSUME SemInv, NEW t \in Threads, Begin(t) PROVE SemInv'
<1>0. Types /\ Local /\ Refs BY DEF SemInv
<1>1. th[t] \in Thread /\ th[t].pc = "idle" /\ stopped = None BY <1>0 DEF Begin, At, Types
<1> DEFINE Goes == /\ Only(t) /\ th' \in [Threads -> Thread] /\ ThreadOK(t)' /\ th'[t].pc \in {"root", "put", "read"}
                   /\ \A y : Holds(t, y)' <=> Holds(t, y)
<1>2. Goes
  <2>1. ASSUME NEW n \in Names, NEW op \in {"lookup", "creat", "excl", "remove"}, op = "remove" \/ th[t].hdl = 0,
               th' = [th EXCEPT ![t].pc = "root", ![t].op = op, ![t].name = n]
        PROVE  Goes
    <3>1. th'[t] = [th[t] EXCEPT !.pc = "root", !.op = op, !.name = n] BY <1>0, <2>1 DEF Types
    <3>2. th' \in [Threads -> Thread] BY <1>0, <1>1, <2>1 DEF Types, Thread, PCs
    <3>3. Only(t) BY <1>0, <2>1 DEF Only, Types
    <3>4. th'[t].pc = "root" /\ th'[t].op = op /\ th'[t].name = n /\ th'[t].hdl = th[t].hdl BY <1>1, <3>1 DEF Thread
    <3>5. ThreadOK(t)' BY <2>1, <3>4 DEF ThreadOK
    <3> QED BY <1>1, <3>1, <3>2, <3>3, <3>4, <3>5 DEF Holds, Thread
  <2>2. ASSUME th[t].hdl # 0, th' = [th EXCEPT ![t].pc = "put", ![t].op = "close", ![t].num = th[t].hdl, ![t].hdl = 0]
        PROVE  Goes
    <3>1. th'[t] = [th[t] EXCEPT !.pc = "put", !.op = "close", !.num = th[t].hdl, !.hdl = 0] BY <1>0, <2>2 DEF Types
    <3>2. th' \in [Threads -> Thread] BY <1>0, <1>1, <2>2 DEF Types, Thread, PCs
    <3>3. Only(t) BY <1>0, <2>2 DEF Only, Types
    <3>4. ThreadOK(t)' BY <1>1, <3>1 DEF ThreadOK, Inside, Thread
    <3> QED BY <1>1, <2>2, <3>1, <3>2, <3>3, <3>4 DEF Holds, Thread, ROOT
  <2>3. ASSUME th[t].hdl # 0, NEW n \in Amounts, th' = [th EXCEPT ![t].pc = "read", ![t].op = "read", ![t].left = n]
        PROVE  Goes
    <3>1. th'[t] = [th[t] EXCEPT !.pc = "read", !.op = "read", !.left = n] BY <1>0, <2>3 DEF Types
    <3>2. th' \in [Threads -> Thread] BY <1>0, <1>1, <2>3, SemfsAssumption DEF Types, Thread, PCs
    <3>3. Only(t) BY <1>0, <2>3 DEF Only, Types
    <3>4. th'[t].pc = "read" /\ th'[t].op = "read" /\ th'[t].num = th[t].num /\ th'[t].hdl = th[t].hdl BY <1>1, <3>1 DEF Thread
    <3>5. ThreadOK(t)' BY <2>3, <3>4 DEF ThreadOK, Inside
    <3> QED BY <1>1, <3>1, <3>2, <3>3, <3>4, <3>5 DEF Holds, Thread
  <2> QED BY <2>1, <2>2, <2>3 DEF Begin
<1>3. HoldSame BY <1>2 DEF Only, Holds, HoldSame
<1>4. UNCHANGED <<sems, obj, dents, vnodes, dirlock, tablelock>> BY DEF Begin
<1>5. Refs' BY <1>0, <1>3, <1>4, RefsSame
<1>6. vnodes' \in [DOMAIN vnodes' -> Nat \ {0}] /\ DOMAIN vnodes' \subseteq Nat BY <1>0, <1>4 DEF Types
<1>7. th[t].pc \notin Inside \cup {"unhook", "asleep"} /\ th'[t].pc \notin Inside \cup {"unhook", "asleep"}
  BY <1>1, <1>2 DEF Inside
<1> QED BY <1>1, <1>2, <1>4, <1>5, <1>6, <1>7, OutsideAlone

\* A thread goes on with what it has.
Same(t) ==
  /\ th'[t].op = th[t].op /\ th'[t].name = th[t].name /\ th'[t].num = th[t].num
  /\ th'[t].sem = th[t].sem /\ th'[t].hdl = th[t].hdl /\ th'[t].left = th[t].left

LEMMA GoExact ==
  ASSUME Types, NEW t \in Threads, NEW p \in PCs, Go(t, p)
  PROVE  Only(t) /\ th' \in [Threads -> Thread] /\ th'[t].pc = p /\ Same(t)
<1>1. th \in [Threads -> Thread] BY DEF Types
<1>2. th' = [th EXCEPT ![t].pc = p] BY DEF Go
<1>3. Only(t) BY <1>1, <1>2 DEF Only
<1>4. th'[t] = [th[t] EXCEPT !.pc = p] BY <1>1, <1>2
<1>5. th[t] \in Thread BY <1>1
<1>6. th'[t].pc = p /\ Same(t) BY <1>4, <1>5 DEF Same, Thread
<1>7. th'[t] \in Thread BY <1>4, <1>5 DEF Thread
<1>8. th' \in [Threads -> Thread] BY <1>1, <1>2, <1>7
<1> QED BY <1>3, <1>6, <1>8

LEMMA PutRootExact ==
  ASSUME Types, NEW t \in Threads, PutRoot(t)
  PROVE  /\ Only(t) /\ th' \in [Threads -> Thread] /\ th'[t].pc = "put" /\ th'[t].num = ROOT
         /\ th'[t].hdl = th[t].hdl /\ ThreadOK(t)'
<1>1. th \in [Threads -> Thread] BY DEF Types
<1>2. th' = [th EXCEPT ![t].pc = "put", ![t].num = ROOT] BY DEF PutRoot
<1>3. Only(t) BY <1>1, <1>2 DEF Only
<1>4. th'[t] = [th[t] EXCEPT !.pc = "put", !.num = ROOT] BY <1>1, <1>2
<1>5. th[t] \in Thread BY <1>1
<1>6. th'[t].pc = "put" /\ th'[t].num = ROOT /\ th'[t].hdl = th[t].hdl BY <1>4, <1>5 DEF Thread
<1>7. th'[t] \in Thread
  <2>1. "put" \in PCs /\ ROOT \in Nat BY DEF PCs, ROOT
  <2> QED BY <1>4, <1>5, <2>1 DEF Thread
<1>8. th' \in [Threads -> Thread] BY <1>1, <1>2, <1>7
<1>9. ThreadOK(t)' BY <1>6 DEF ThreadOK, Inside
<1> QED BY <1>3, <1>6, <1>8, <1>9

LEMMA RootStep == ASSUME SemInv, NEW t \in Threads, semfs_getroot(t) PROVE SemInv'
<1>0. Types /\ Local /\ Refs BY DEF SemInv
<1>1. th[t].pc = "root" /\ stopped = None BY DEF semfs_getroot, At
<1>2. UNCHANGED <<sems, obj, dents, dirlock, tablelock>> BY DEF semfs_getroot
<1>3. CASE GetVnode(ROOT) /\ Go(t, "dir")
  <2>1. Only(t) /\ th' \in [Threads -> Thread] /\ th'[t].pc = "dir" /\ Same(t) BY <1>0, <1>3, GoExact DEF PCs
  <2>2. ThreadOK(t)' BY <1>0, <1>1, <2>1 DEF Local, ThreadOK, Same, Inside
  <2>3. ~Holds(t, ROOT) BY <1>1 DEF Holds
  <2>4. HoldMore(t, ROOT) BY <1>1, <2>1 DEF Holds, Only, Same, HoldMore
  <2>5. /\ Refs' /\ DOMAIN vnodes' = DOMAIN vnodes \cup {ROOT}
        /\ vnodes' \in [DOMAIN vnodes' -> Nat \ {0}] /\ DOMAIN vnodes' \subseteq Nat
    BY <1>0, <1>3, <2>3, <2>4, RefsTaken DEF ROOT
  <2> QED BY <1>1, <1>2, <2>1, <2>2, <2>5, OutsideAlone DEF Inside
<1>4. CASE NoVnode(ROOT) /\ Go(t, "idle")
  <2>1. Only(t) /\ th' \in [Threads -> Thread] /\ th'[t].pc = "idle" /\ Same(t) BY <1>0, <1>4, GoExact DEF PCs
  <2>2. ThreadOK(t)' BY <2>1 DEF ThreadOK, Inside
  <2>3. HoldSame BY <1>1, <2>1 DEF Holds, Only, Same, HoldSame
  <2>4. vnodes' = vnodes BY <1>4 DEF NoVnode
  <2>5. Refs' BY <1>0, <2>3, <2>4, RefsSame
  <2> QED BY <1>0, <1>1, <1>2, <2>1, <2>2, <2>4, <2>5, OutsideAlone DEF Inside, Types
<1> QED BY <1>3, <1>4 DEF semfs_getroot

\* Where a thread goes on that has given a reference back.
LEMMA AfterPutExact ==
  ASSUME SemInv, NEW t \in Threads, th[t].pc \in {"put", "reclaim"}, Go(t, AfterPut(t))
  PROVE  /\ Only(t) /\ th' \in [Threads -> Thread] /\ th'[t].pc \in {"opened", "idle"} /\ Same(t) /\ ThreadOK(t)'
         /\ Holds(t, th[t].num)
         /\ HoldLess(t, th[t].num)
<1>1. Types /\ ThreadOK(t) BY DEF SemInv, Local
<1>2. AfterPut(t) \in {"opened", "idle"} BY DEF AfterPut
<1>3. Only(t) /\ th' \in [Threads -> Thread] /\ th'[t].pc = AfterPut(t) /\ Same(t) BY <1>1, <1>2, GoExact DEF PCs
<1>4. ThreadOK(t)' BY <1>2, <1>3 DEF ThreadOK, Inside
<1>5. Holds(t, th[t].num) BY DEF Holds
<1>6. ASSUME NEW y PROVE Holds(t, y)' <=> Holds(t, y) /\ y # th[t].num
  <2>1. th[t].num # ROOT => th[t].hdl = 0 BY <1>1 DEF ThreadOK
  <2> QED BY <1>2, <1>3, <2>1 DEF Holds, Same, ROOT
<1>7. HoldLess(t, th[t].num) BY <1>3, <1>6 DEF Holds, Only, HoldLess
<1> QED BY <1>2, <1>3, <1>4, <1>5, <1>7

\* One of several references goes (VOP_DECREF, semfs_reclaim).
LEMMA GiveStep ==
  ASSUME SemInv, NEW t \in Threads, th[t].pc \in {"put", "reclaim"}, stopped = None,
         vnodes[th[t].num] > 1, vnodes' = [vnodes EXCEPT ![th[t].num] = @ - 1], Go(t, AfterPut(t)),
         UNCHANGED <<sems, obj, dents, dirlock, tablelock>>
  PROVE  SemInv'
<1>0. Types /\ Local /\ Refs BY DEF SemInv
<1>1. PICK x : x = th[t].num OBVIOUS
<1>2. x \in Nat BY <1>0, <1>1 DEF Types, Thread
<1>3. /\ Only(t) /\ th' \in [Threads -> Thread] /\ th'[t].pc \in {"opened", "idle"} /\ ThreadOK(t)' /\ Holds(t, x)
      /\ HoldLess(t, x)
  BY <1>1, AfterPutExact
<1>4. Refs' /\ DOMAIN vnodes' = DOMAIN vnodes /\ vnodes' \in [DOMAIN vnodes' -> Nat \ {0}]
  BY <1>0, <1>1, <1>2, <1>3, RefsGiven
<1>5. DOMAIN vnodes' \subseteq Nat BY <1>0, <1>4 DEF Types
<1> QED BY <1>3, <1>4, <1>5, OutsideAlone DEF Inside

LEMMA DecrefStep == ASSUME SemInv, NEW t \in Threads, VOP_DECREF(t) PROVE SemInv'
<1>0. Types /\ Local /\ Refs BY DEF SemInv
<1>1. th[t].pc = "put" /\ stopped = None BY DEF VOP_DECREF, At
<1>2. UNCHANGED <<sems, obj, dents, dirlock, tablelock>> BY DEF VOP_DECREF
<1>3. CASE vnodes[th[t].num] > 1 BY <1>1, <1>2, <1>3, GiveStep DEF VOP_DECREF
<1>4. CASE ~(vnodes[th[t].num] > 1)
  <2>1. vnodes' = vnodes /\ Go(t, "reclaim") BY <1>4 DEF VOP_DECREF
  <2>2. Only(t) /\ th' \in [Threads -> Thread] /\ th'[t].pc = "reclaim" /\ Same(t) BY <1>0, <2>1, GoExact DEF PCs
  <2>3. ThreadOK(t)' BY <1>0, <1>1, <2>2 DEF Local, ThreadOK, Same, Inside
  <2>4. HoldSame BY <1>1, <2>2 DEF Holds, Only, Same, HoldSame
  <2>5. Refs' BY <1>0, <2>1, <2>4, RefsSame
  <2> QED BY <1>0, <1>1, <1>2, <2>1, <2>2, <2>3, <2>5, OutsideAlone DEF Inside, Types
<1> QED BY <1>3, <1>4

\* The kernel stops, or only the bounds change.
LEMMA StopStep ==
  ASSUME SemInv, UNCHANGED <<sems, obj, dents, vnodes, dirlock, th>>,
         \/ stopped' # None /\ tablelock' \in {tablelock, None}
         \/ UNCHANGED <<stopped, tablelock>>
  PROVE  SemInv'
<1>1. Refs' BY RefsSame DEF SemInv, HoldSame, Holds
<1>2. Types' BY DEF SemInv, Types
<1>3. Local' /\ Numbers' /\ Hooked' /\ Queues' BY DEF SemInv, Local, ThreadOK, Numbers, Hooked, Queues, Sem
<1>4. Leaves' BY DEF SemInv, Leaves, Leaving
<1>5. Entered' = Entered /\ EntryPlaces' = EntryPlaces /\ Linked' = Linked BY DEF Entered, EntryPlaces, Linked
<1>6. Hands' BY <1>5 DEF SemInv, Hands, Hand, Fresh
<1>7. Entries' BY <1>5 DEF SemInv, Entries
<1>8. AllAlive' BY DEF SemInv, AllAlive, Alive
<1> QED BY <1>1, <1>2, <1>3, <1>4, <1>6, <1>7, <1>8 DEF SemInv
-----------------------------------------------------------------------------
(* The last reference goes. *)

LEMMA ReclaimRoot ==
  ASSUME SemInv, NEW t \in Threads, th[t].pc = "reclaim", stopped = None, th[t].num = ROOT,
         ~(vnodes[ROOT] > 1), vnodes' = Without(vnodes, ROOT), Go(t, AfterPut(t)),
         UNCHANGED <<sems, obj, dents, dirlock, tablelock>>
  PROVE  SemInv'
<1>0. Types /\ Local /\ Refs BY DEF SemInv
<1>1. /\ Only(t) /\ th' \in [Threads -> Thread] /\ th'[t].pc \in {"opened", "idle"} /\ ThreadOK(t)' /\ Holds(t, ROOT)
      /\ HoldLess(t, ROOT)
  BY AfterPutExact
<1>2. Refs' /\ DOMAIN vnodes' = DOMAIN vnodes \ {ROOT} /\ vnodes' \in [DOMAIN vnodes' -> Nat \ {0}]
  BY <1>0, <1>1, RefsLast DEF ROOT
<1>3. DOMAIN vnodes' \subseteq Nat BY <1>0, <1>2 DEF Types
<1> QED BY <1>1, <1>2, <1>3, OutsideAlone DEF Inside

\* The vnode leaves the table; its semaphore is told.
LEMMA ReclaimSem ==
  ASSUME SemInv, NEW t \in Threads, NEW x, x = th[t].num, x # ROOT, NEW o, o = sems[x],
         th[t].pc = "reclaim", stopped = None, tablelock = None,
         ~(vnodes[x] > 1), vnodes' = Without(vnodes, x), obj' = [obj EXCEPT ![o].hasvnode = FALSE],
         tablelock' = t, Go(t, "unhook"), UNCHANGED <<sems, dents, dirlock, stopped>>
  PROVE  SemInv'
<1>0. Types /\ Local /\ Refs /\ Numbers /\ Hooked /\ Leaves /\ Hands /\ Entries /\ AllAlive BY DEF SemInv
<1>1. Only(t) /\ th' \in [Threads -> Thread] /\ th'[t].pc = "unhook" /\ Same(t) BY <1>0, GoExact DEF PCs
<1>2. x \in Nat /\ th[t].hdl = 0 /\ th'[t].num = x /\ th'[t].hdl = 0 BY <1>0, <1>1 DEF Types, Thread, Local, ThreadOK, Same
<1>3. Holds(t, x) BY DEF Holds
<1>4. HoldLess(t, x) BY <1>1, <1>2 DEF Holds, Only, ROOT, HoldLess
<1>5. Refs' /\ DOMAIN vnodes' = DOMAIN vnodes \ {x} /\ vnodes' \in [DOMAIN vnodes' -> Nat \ {0}]
  BY <1>0, <1>2, <1>3, <1>4, RefsLast
<1>6. x \in DOMAIN vnodes \ {ROOT} BY <1>0, <1>3 DEF Refs
<1>7. x \in DOMAIN sems /\ o # 0 /\ o \in DOMAIN obj /\ obj[o].hasvnode BY <1>0, <1>6 DEF Hooked, Numbers
<1>8. \A k \in DOMAIN sems : sems[k] = o => k = x BY <1>0, <1>7 DEF Numbers
<1>9. /\ DOMAIN obj' = DOMAIN obj /\ \A p \in DOMAIN obj \ {o} : obj'[p] = obj[p]
      /\ obj'[o].linked = obj[o].linked /\ ~obj'[o].hasvnode /\ obj'[o].lock = obj[o].lock /\ obj'[o].q = obj[o].q
      /\ obj'[o] \in Semaphore
  <2>1. obj[o] \in Semaphore BY <1>0, <1>7 DEF Types
  <2>2. obj'[o] = [obj[o] EXCEPT !.hasvnode = FALSE] /\ DOMAIN obj' = DOMAIN obj BY <1>7
  <2>3. \A p \in DOMAIN obj \ {o} : obj'[p] = obj[p] OBVIOUS
  <2>4. obj'[o].linked = obj[o].linked /\ obj'[o].lock = obj[o].lock /\ obj'[o].q = obj[o].q BY <2>1, <2>2 DEF Semaphore
  <2>5. obj'[o].hasvnode = FALSE BY <2>1, <2>2 DEF Semaphore
  <2>6. obj'[o] \in Semaphore BY ONLY <2>1, <2>2 DEF Semaphore
  <2> QED BY <2>2, <2>3, <2>4, <2>5, <2>6
<1>10. \A k \in DOMAIN sems : sems[k] # 0 => sems[k] \in DOMAIN obj BY <1>0 DEF Numbers
<1>11. \A u \in Threads \ {t} : th'[u] = th[u] /\ th[u].pc # "unhook" BY <1>0, <1>1, SemfsAssumption DEF Only, Leaves, Leaving
<1>12. t \in Threads /\ th[t].pc \notin Inside /\ th'[t].pc \notin Inside BY <1>1 DEF Inside
<1>20. Types'
  <2>1. obj' = [p \in DOMAIN obj' |-> obj'[p]] OBVIOUS
  <2>2. obj' \in [DOMAIN obj' -> Semaphore] BY <1>0, <1>9, <2>1 DEF Types
  <2> QED BY <1>0, <1>1, <1>5, <1>9, <2>2 DEF Types
<1>21. Local'
  <2>1. ThreadOK(t)' BY <1>1 DEF ThreadOK, Inside
  <2> QED BY <1>0, <1>1, <2>1, LocalKept
<1>22. Numbers' BY <1>0, <1>9 DEF Numbers
<1>23. Hooked'
  <2> SUFFICES ASSUME NEW y PROVE y \in DOMAIN vnodes' \ {ROOT} <=> y \in DOMAIN sems /\ sems[y] # 0 /\ obj'[sems[y]].hasvnode
    BY DEF Hooked
  <2>1. y \in DOMAIN vnodes \ {ROOT} <=> y \in DOMAIN sems /\ sems[y] # 0 /\ obj[sems[y]].hasvnode BY <1>0 DEF Hooked
  <2> QED BY <1>5, <1>7, <1>8, <1>9, <1>10, <2>1
<1>24. Leaves' BY <1>1, <1>2, <1>7, <1>9, <1>11 DEF Leaves, Leaving
<1>25. Hands'
  <2>1. ASSUME NEW u \in Threads, th[u].pc \in Inside PROVE Hand(u, th[u].num, th[u].sem)'
    <3>1. u # t /\ th'[u] = th[u] BY <1>11, <1>12, <2>1
    <3>2. PICK y, p : y = th[u].num /\ p = th[u].sem OBVIOUS
    <3>3. Hand(u, y, p) BY <1>0, <2>1, <3>2 DEF Hands
    <3>4. Entered' = Entered BY DEF Entered, EntryPlaces
    <3>5. Fresh(y, p) /\ sems[y] = p => y # x BY <1>7 DEF Fresh
    <3>6. p \in DOMAIN obj => /\ obj'[p].linked = obj[p].linked /\ obj'[p].lock = obj[p].lock
                              /\ ~obj[p].hasvnode => ~obj'[p].hasvnode
      BY <1>9
    <3>7. p \in DOMAIN obj /\ sems[y] = p => (Fresh(y, p) => Fresh(y, p)') BY <1>2, <1>11, <3>5, <3>6 DEF Fresh
    <3>8. th[u].pc # "make" => p \in DOMAIN obj /\ sems[y] = p BY <3>3 DEF Hand
    <3>9. Hand(u, y, p)' BY <1>9, <3>1, <3>3, <3>4, <3>6, <3>7, <3>8 DEF Hand
    <3> QED BY <3>1, <3>2, <3>9
  <2> QED BY <1>0, <1>11, <1>12, <2>1 DEF Hands
<1>26. Entries'
  <2>1. Entered' = Entered /\ EntryPlaces' = EntryPlaces BY DEF Entered, EntryPlaces
  <2>2. Linked' = Linked BY <1>9, <1>10 DEF Linked
  <2>3. dirlock # None => th'[dirlock].num = th[dirlock].num BY <1>0, <1>11, <1>12 DEF Hands, Types
  <2> QED BY <1>0, <2>1, <2>2, <2>3 DEF Entries
<1>27. AllAlive'
  <2> SUFFICES ASSUME NEW p \in DOMAIN obj PROVE Alive(p)' BY <1>9 DEF AllAlive
  <2>1. CASE p = o BY <1>1, <1>2, <2>1 DEF Alive
  <2>2. CASE p # o
    <3>1. Alive(p) BY <1>0 DEF AllAlive
    <3>2. {"enter", "get", "undo", "drop", "destroy"} \subseteq Inside BY DEF Inside
    <3> QED BY <1>9, <1>11, <1>12, <2>2, <3>1, <3>2 DEF Alive
  <2> QED BY <2>1, <2>2
<1>28. Queues' BY <1>1, <1>9, <1>11, QueuesKept
<1> QED BY <1>5, <1>20, <1>21, <1>22, <1>23, <1>24, <1>25, <1>26, <1>27, <1>28 DEF SemInv

LEMMA ReclaimStep == ASSUME SemInv, NEW t \in Threads, semfs_reclaim(t) PROVE SemInv'
<1>1. th[t].pc = "reclaim" /\ stopped = None /\ tablelock = None BY DEF semfs_reclaim, At
<1>2. UNCHANGED <<sems, dents, dirlock, stopped>> BY DEF semfs_reclaim
<1>3. CASE vnodes[th[t].num] > 1
  <2>1. vnodes' = [vnodes EXCEPT ![th[t].num] = @ - 1] /\ Go(t, AfterPut(t)) /\ UNCHANGED <<obj, tablelock>>
    BY <1>3 DEF semfs_reclaim
  <2> QED BY <1>1, <1>2, <1>3, <2>1, GiveStep
<1>4. CASE ~(vnodes[th[t].num] > 1) /\ th[t].num = ROOT
  <2>1. vnodes' = Without(vnodes, th[t].num) /\ Go(t, AfterPut(t)) /\ UNCHANGED <<obj, tablelock>>
    BY <1>4 DEF semfs_reclaim
  <2> QED BY <1>1, <1>2, <1>4, <2>1, ReclaimRoot
<1>5. CASE ~(vnodes[th[t].num] > 1) /\ th[t].num # ROOT
  <2>1. /\ vnodes' = Without(vnodes, th[t].num) /\ obj' = [obj EXCEPT ![sems[th[t].num]].hasvnode = FALSE]
        /\ tablelock' = t /\ Go(t, "unhook")
    BY <1>5 DEF semfs_reclaim
  <2> QED BY <1>1, <1>2, <1>5, <2>1, ReclaimSem
<1> QED BY <1>3, <1>4, <1>5

\* A semaphore without a name and without a vnode goes (semfs_sem_destroy).
LEMMA RemovedExact ==
  ASSUME SemInv, NEW x \in DOMAIN sems, NEW o \in DOMAIN obj, o = sems[x], ~obj[o].hasvnode, ~obj[o].linked,
         sems' = [sems EXCEPT ![x] = 0], obj' = Without(obj, o), vnodes' = vnodes,
         \A u \in Threads : (th'[u].pc = "asleep" <=> th[u].pc = "asleep") /\ th'[u].hdl = th[u].hdl
  PROVE  /\ sems' \in Seq(Nat) /\ DOMAIN sems' = DOMAIN sems /\ sems'[x] = 0
         /\ \A k \in DOMAIN sems \ {x} : sems'[k] = sems[k] /\ sems[k] # o
         /\ obj' \in [DOMAIN obj' -> Semaphore] /\ IsFiniteSet(DOMAIN obj') /\ DOMAIN obj' \subseteq Nat \ {0}
         /\ DOMAIN obj' = DOMAIN obj \ {o}
         /\ \A p \in DOMAIN obj' : obj'[p] = obj[p]
         /\ Numbers' /\ Hooked' /\ Queues' /\ Linked' = Linked /\ x \notin Linked /\ x # 0
<1>0. Types /\ Numbers /\ Hooked BY DEF SemInv
<1>1. sems \in Seq(Nat) /\ x \in 1..Len(sems) BY <1>0 DEF Types
<1>2. sems' \in Seq(Nat) BY <1>1, ExceptSeq
<1>3. DOMAIN sems' = DOMAIN sems /\ sems'[x] = 0 /\ \A k \in DOMAIN sems \ {x} : sems'[k] = sems[k] BY <1>1
<1>4. o # 0 BY <1>0 DEF Types
<1>5. \A k \in DOMAIN sems : sems[k] = o => k = x BY <1>0, <1>4 DEF Numbers
<1>6. DOMAIN obj' = DOMAIN obj \ {o} /\ \A p \in DOMAIN obj' : obj'[p] = obj[p] BY DEF Without
<1>7. obj' \in [DOMAIN obj' -> Semaphore] /\ IsFiniteSet(DOMAIN obj') /\ DOMAIN obj' \subseteq Nat \ {0}
  <2>1. obj' = [p \in DOMAIN obj' |-> obj'[p]] BY DEF Without
  <2>2. \A p \in DOMAIN obj' : obj'[p] \in Semaphore BY <1>0, <1>6 DEF Types
  <2>3. IsFiniteSet(DOMAIN obj') BY <1>0, <1>6, FS_Subset DEF Types
  <2> QED BY <1>0, <1>6, <2>1, <2>2, <2>3 DEF Types
<1>8. Numbers'
  <2>1. \A k \in DOMAIN sems' : sems'[k] \in DOMAIN obj' \cup {0} BY <1>0, <1>3, <1>5, <1>6 DEF Numbers
  <2>2. \A p \in DOMAIN obj' : \E k \in DOMAIN sems' : sems'[k] = p
    <3> SUFFICES ASSUME NEW p \in DOMAIN obj' PROVE \E k \in DOMAIN sems' : sems'[k] = p OBVIOUS
    <3>1. PICK k \in DOMAIN sems : sems[k] = p BY <1>0, <1>6 DEF Numbers
    <3>2. k # x BY <1>6, <3>1
    <3> QED BY <1>3, <3>1, <3>2
  <2>3. \A j, k \in DOMAIN sems' : sems'[j] = sems'[k] /\ sems'[j] # 0 => j = k BY <1>0, <1>3 DEF Numbers
  <2> QED BY <2>1, <2>2, <2>3 DEF Numbers
<1>9. \A k \in DOMAIN sems \ {x} : sems'[k] = sems[k] /\ (sems[k] # 0 => obj'[sems[k]] = obj[sems[k]])
  BY <1>0, <1>3, <1>5, <1>6 DEF Numbers
<1>10. Hooked'
  <2>1. x \notin DOMAIN vnodes \ {ROOT} BY <1>0 DEF Hooked
  <2>2. \A y : y \in DOMAIN vnodes \ {ROOT} <=> y \in DOMAIN sems /\ sems[y] # 0 /\ obj[sems[y]].hasvnode BY <1>0 DEF Hooked
  <2>3. \A y : y \in DOMAIN vnodes \ {ROOT} <=> y \in DOMAIN sems' /\ sems'[y] # 0 /\ obj'[sems'[y]].hasvnode
    BY <1>3, <1>9, <2>1, <2>2
  <2> QED BY <2>3 DEF Hooked
<1>11. Linked' = Linked /\ x \notin Linked
  <2>1. \A y : y \in Linked <=> y \in DOMAIN sems /\ sems[y] # 0 /\ obj[sems[y]].linked BY DEF Linked
  <2>2. \A y : y \in Linked' <=> y \in DOMAIN sems' /\ sems'[y] # 0 /\ obj'[sems'[y]].linked BY DEF Linked
  <2>3. x \notin Linked BY <2>1
  <2> QED BY <1>3, <1>9, <2>1, <2>2, <2>3
<1>12. Queues'
  <2>1. ASSUME NEW u \in Threads, th[u].pc = "asleep" PROVE sems'[th[u].hdl] = sems[th[u].hdl]
    <3>1. th[u].hdl # 0 BY <2>1 DEF SemInv, Local, ThreadOK
    <3>2. th[u].hdl \in DOMAIN sems /\ obj[Sem(u)].hasvnode BY <3>1, OpenExact
    <3>3. th[u].hdl # x BY <3>2 DEF Sem
    <3> QED BY <1>3, <3>2, <3>3
  <2>2. \A p \in DOMAIN obj : (p \in DOMAIN obj' /\ obj'[p].q = obj[p].q) \/ (~obj[p].hasvnode /\ p \notin DOMAIN obj') BY <1>6
  <2>3. \A p \in DOMAIN obj' \ DOMAIN obj : obj'[p].q = <<>> BY <1>6
  <2> QED BY <2>1, <2>2, <2>3, QueuesKept
<1> QED BY <1>1, <1>2, <1>3, <1>5, <1>6, <1>7, <1>8, <1>10, <1>11, <1>12

\* The last close is over: the semaphore stays for its name, or goes.
LEMMA UnhookEnds ==
  ASSUME SemInv, NEW t \in Threads, th[t].pc = "unhook", stopped = None, tablelock' = None, Go(t, "idle"),
         UNCHANGED <<dents, vnodes, dirlock>>, NEW x, x = th[t].num, NEW o, o = sems[x],
         \/ obj[o].linked /\ UNCHANGED <<sems, obj>>
         \/ ~obj[o].linked /\ obj[o].lock = None /\ sems' = [sems EXCEPT ![x] = 0] /\ obj' = Without(obj, o)
  PROVE  SemInv'
<1>0. Types /\ Local /\ Refs /\ Numbers /\ Hooked /\ Leaves /\ Hands /\ Entries /\ AllAlive BY DEF SemInv
<1>1. Only(t) /\ th' \in [Threads -> Thread] /\ th'[t].pc = "idle" /\ Same(t) BY <1>0, GoExact DEF PCs
<1>2. x \in DOMAIN sems /\ o \in DOMAIN obj /\ ~obj[o].hasvnode /\ tablelock = t BY <1>0 DEF Leaves, Leaving
<1>3. \A u \in Threads \ {t} : th'[u] = th[u] /\ th[u].pc # "unhook" BY <1>0, <1>1, <1>2 DEF Only, Leaves, Leaving
<1>4. th[t].pc \notin Inside /\ th'[t].pc \notin Inside BY <1>1 DEF Inside
<1>5. \A u \in Threads : (th'[u].pc = "asleep" <=> th[u].pc = "asleep") /\ th'[u].hdl = th[u].hdl BY <1>1, <1>3 DEF Same
<1>6. /\ sems' \in Seq(Nat) /\ DOMAIN sems' = DOMAIN sems
      /\ \A k \in DOMAIN sems \ {x} : sems'[k] = sems[k]
      /\ obj' \in [DOMAIN obj' -> Semaphore] /\ IsFiniteSet(DOMAIN obj') /\ DOMAIN obj' \subseteq Nat \ {0}
      /\ DOMAIN obj' \subseteq DOMAIN obj /\ DOMAIN obj \ {o} \subseteq DOMAIN obj' /\ \A p \in DOMAIN obj' : obj'[p] = obj[p]
      /\ Numbers' /\ Hooked' /\ Queues' /\ Linked' = Linked
  <2>1. CASE obj[o].linked /\ UNCHANGED <<sems, obj>>
    <3>1. Numbers' BY <1>0, <2>1 DEF Numbers
    <3>2. Hooked' BY <1>0, <2>1 DEF Hooked
    <3>3. Linked' = Linked BY <2>1 DEF Linked
    <3>4. Queues' BY <1>5, <2>1, QueuesKept
    <3> QED BY <1>0, <2>1, <3>1, <3>2, <3>3, <3>4 DEF Types
  <2>2. CASE ~obj[o].linked /\ sems' = [sems EXCEPT ![x] = 0] /\ obj' = Without(obj, o)
    <3>1. /\ sems' \in Seq(Nat) /\ DOMAIN sems' = DOMAIN sems /\ \A k \in DOMAIN sems \ {x} : sems'[k] = sems[k]
          /\ obj' \in [DOMAIN obj' -> Semaphore] /\ IsFiniteSet(DOMAIN obj') /\ DOMAIN obj' \subseteq Nat \ {0}
          /\ DOMAIN obj' = DOMAIN obj \ {o} /\ \A p \in DOMAIN obj' : obj'[p] = obj[p]
          /\ Numbers' /\ Hooked' /\ Queues' /\ Linked' = Linked
      <4>1. vnodes' = vnodes OBVIOUS
      <4> QED BY ONLY SemInv, o = sems[x], <1>2, <1>5, <2>2, <4>1, RemovedExact
    <3> QED BY <3>1
  <2> QED BY <2>1, <2>2
<1>7. ASSUME NEW u \in Threads, th[u].pc \in Inside PROVE Hand(u, th[u].num, th[u].sem)'
  <2>1. u # t /\ th'[u] = th[u] BY <1>3, <1>4, <1>7
  <2>2. PICK y, p : y = th[u].num /\ p = th[u].sem OBVIOUS
  <2>3. Hand(u, y, p) BY <1>0, <1>7, <2>2 DEF Hands
  <2>4. Entered' = Entered BY DEF Entered, EntryPlaces
  <2>5. CASE th[u].pc = "make" BY <2>1, <2>2, <2>3, <2>5 DEF Hand
  <2>6. CASE th[u].pc # "make"
    <3>1. y \in DOMAIN sems /\ sems[y] = p /\ p \in DOMAIN obj BY <2>3, <2>6 DEF Hand
    <3>2. ~obj[o].linked /\ obj[o].lock = None => y # x
      <4>1. Fresh(y, p) => y # x BY DEF Fresh
      <4>2. y = x => p = o BY <3>1
      <4> QED BY <1>7, <2>3, <2>6, <4>1, <4>2 DEF Hand, Inside
    <3>3. sems'[y] = p /\ p \in DOMAIN obj'
      <4>1. CASE y = x BY <3>1, <3>2, <4>1
      <4>2. CASE y # x
        <5>1. p # o BY <1>0, <1>2, <3>1, <4>2 DEF Numbers, Types
        <5> QED BY <1>6, <3>1, <4>2, <5>1
      <4> QED BY <4>1, <4>2
    <3>4. Fresh(y, p) => Fresh(y, p)' BY <1>1, <1>3, <1>6, <3>3 DEF Fresh
    <3>5. Hand(u, y, p)' BY <1>6, <2>1, <2>3, <2>4, <2>6, <3>1, <3>3, <3>4 DEF Hand
    <3> QED BY <2>1, <2>2, <3>5
  <2> QED BY <2>5, <2>6
<1>20. Types' BY <1>0, <1>1, <1>6 DEF Types
<1>21. Local'
  <2>1. ThreadOK(t)' BY <1>1 DEF ThreadOK, Inside
  <2> QED BY <1>0, <1>1, <2>1, LocalKept
<1>22. Refs'
  <2>1. HoldSame BY <1>1 DEF Holds, Only, Same, HoldSame
  <2> QED BY <1>0, <2>1, RefsSame
<1>23. Leaves' BY <1>1, <1>3 DEF Leaves
<1>24. Hands' BY <1>0, <1>3, <1>4, <1>7 DEF Hands
<1>25. Entries'
  <2>1. Entered' = Entered /\ EntryPlaces' = EntryPlaces BY DEF Entered, EntryPlaces
  <2>2. dirlock # None => th'[dirlock].num = th[dirlock].num BY <1>0, <1>3, <1>4 DEF Hands, Types
  <2> QED BY <1>0, <1>6, <2>1, <2>2 DEF Entries
<1>26. AllAlive'
  <2> SUFFICES ASSUME NEW p \in DOMAIN obj' PROVE Alive(p)' BY DEF AllAlive
  <2>1. Alive(p) /\ obj'[p] = obj[p] BY <1>0, <1>6 DEF AllAlive
  <2>2. CASE p = o
    <3>1. obj[o].linked BY <2>2 DEF Without
    <3> QED BY <2>1, <2>2, <3>1 DEF Alive
  <2>3. CASE p # o
    <3>1. {"enter", "get", "undo", "drop", "destroy"} \subseteq Inside BY DEF Inside
    <3>2. \A u \in Threads : th[u].pc = "unhook" => sems[th[u].num] # p BY <1>3, <2>3
    <3> QED BY <1>3, <1>4, <2>1, <3>1, <3>2 DEF Alive
  <2> QED BY <2>2, <2>3
<1> QED BY <1>6, <1>20, <1>21, <1>22, <1>23, <1>24, <1>25, <1>26 DEF SemInv

LEMMA UnhookStep == ASSUME SemInv, NEW t \in Threads, Unhook(t) PROVE SemInv'
<1>0. th[t].pc = "unhook" /\ stopped = None /\ tablelock' = None /\ UNCHANGED <<dents, vnodes, dirlock>> BY DEF Unhook, At
<1>1. PICK x, o : x = th[t].num /\ o = sems[x] OBVIOUS
<1>2. CASE obj[o].linked BY <1>0, <1>1, <1>2, UnhookEnds DEF Unhook
<1>3. CASE ~obj[o].linked /\ obj[o].lock = None
  <2>1. sems' = [sems EXCEPT ![x] = 0] /\ obj' = Without(obj, o) /\ Go(t, "idle") BY <1>1, <1>3 DEF Unhook
  <2> QED BY <1>0, <1>1, <1>3, <2>1, UnhookEnds
<1>4. CASE ~obj[o].linked /\ obj[o].lock # None
  <2>1. stopped' # None /\ UNCHANGED <<sems, obj, th>> BY <1>1, <1>4 DEF Unhook, None
  <2> QED BY <1>0, <2>1, StopStep
<1> QED BY <1>2, <1>3, <1>4
-----------------------------------------------------------------------------
(* Semaphores are waited on and signalled. *)

\* Two states of a semaphore that differ in the count and the sleepers at most.
Alike(r, s) == r.linked = s.linked /\ r.hasvnode = s.hasvnode /\ r.lock = s.lock

\* The other threads keep all but their place, and are woken at most.
OthersStay(t) == \A u \in Threads \ {t} : Stays(u) /\ th'[u].hdl = th[u].hdl /\ th'[u].op = th[u].op

\* After the step, q are those who sleep on the semaphore o.
Sleepers(o, q) ==
  /\ \A u \in Threads : th'[u].pc = "asleep" <=> (th[u].pc = "asleep" /\ Sem(u) # o) \/ u \in Range(q)
  /\ \A u \in Range(q) : Sem(u) = o

\* A step that changes the count and the sleepers of one semaphore only.
LEMMA QueueStep ==
  ASSUME SemInv, NEW t \in Threads, th[t].hdl # 0, stopped = None, NEW o, o = Sem(t),
         th[t].pc \notin Inside \cup {"unhook", "put", "reclaim", "root", "dir"},
         th'[t].pc \in {"idle", "asleep"}, th'[t].hdl = th[t].hdl,
         NEW r \in Semaphore, obj' = [obj EXCEPT ![o] = r],
         Alike(r, obj[o]), UNCHANGED <<sems, dents, vnodes, dirlock, tablelock>>,
         th' \in [Threads -> Thread], OthersStay(t), Sleepers(o, r.q)
  PROVE  SemInv'
<1>0. Types /\ Local /\ Refs /\ Queues BY DEF SemInv
<1>1. o \in DOMAIN obj BY OpenExact
<1>2. DOMAIN obj' = DOMAIN obj /\ obj'[o] = r /\ \A p \in DOMAIN obj \ {o} : obj'[p] = obj[p] BY <1>1
<1>3. Calm BY <1>2 DEF Calm, Alike
<1>4. Numbers' /\ Hooked' /\ Leaves' /\ Hands' /\ Entries' /\ AllAlive'
  <2>1. th'[t].pc \notin Inside \cup {"unhook"} BY DEF Inside
  <2>2. \A u \in Threads \ {t} : Stays(u) BY DEF OthersStay
  <2> QED BY <1>3, <2>1, <2>2, OutsideStep
<1>5. Types'
  <2>1. obj' = [p \in DOMAIN obj' |-> obj'[p]] OBVIOUS
  <2>2. \A p \in DOMAIN obj' : obj'[p] \in Semaphore BY <1>0, <1>2 DEF Types
  <2>3. obj' \in [DOMAIN obj' -> Semaphore] BY <2>1, <2>2
  <2> QED BY <1>0, <1>2, <2>3 DEF Types
<1>6. Local'
  <2>1. ThreadOK(t)' BY DEF ThreadOK, Inside
  <2>2. ASSUME NEW u \in Threads \ {t} PROVE ThreadOK(u)'
    <3>1. ThreadOK(u) /\ Stays(u) /\ th'[u].hdl = th[u].hdl /\ th'[u].op = th[u].op BY <1>0 DEF Local, OthersStay
    <3>2. CASE th'[u].pc = th[u].pc BY <3>1, <3>2 DEF ThreadOK, Stays
    <3>3. CASE th[u].pc = "asleep" /\ th'[u].pc = "read" BY <3>1, <3>3 DEF ThreadOK, Inside
    <3> QED BY <3>1, <3>2, <3>3 DEF Stays
  <2> QED BY <2>1, <2>2 DEF Local
<1>7. Refs'
  <2>1. ASSUME NEW y PROVE Holds(t, y)' <=> Holds(t, y) BY DEF Holds, Inside
  <2>2. ASSUME NEW u \in Threads \ {t}, NEW y PROVE Holds(u, y)' <=> Holds(u, y) BY DEF Holds, Stays, OthersStay
  <2>3. HoldSame BY <2>1, <2>2 DEF HoldSame
  <2> QED BY <1>0, <2>3, RefsSame
<1>8. Queues'
  <2>1. \A u \in Threads : Sem(u)' = Sem(u) BY DEF Sem, OthersStay
  <2>2. r.q \in Seq(Threads) BY DEF Semaphore
  <2>3. ASSUME NEW p \in DOMAIN obj', NEW u \in Range(obj'[p].q) PROVE th'[u].pc = "asleep" /\ Sem(u)' = p
    <3>1. CASE p = o
      <4>1. u \in Range(r.q) BY <1>2, <2>3, <3>1
      <4>2. u \in Threads BY <2>2, <4>1 DEF Range
      <4> QED BY <2>1, <3>1, <4>1, <4>2 DEF Sleepers
    <3>2. CASE p # o
      <4>1. p \in DOMAIN obj /\ u \in Range(obj[p].q) BY <1>2, <2>3, <3>2
      <4>2. obj[p].q \in Seq(Threads) BY <1>0, <4>1 DEF Types, Semaphore
      <4>3. u \in Threads BY <4>1, <4>2 DEF Range
      <4>4. th[u].pc = "asleep" /\ Sem(u) = p BY <1>0, <4>1 DEF Queues
      <4> QED BY <2>1, <3>2, <4>3, <4>4 DEF Sleepers
    <3> QED BY <3>1, <3>2
  <2>4. ASSUME NEW u \in Threads, th'[u].pc = "asleep" PROVE \E p \in DOMAIN obj' : u \in Range(obj'[p].q)
    <3>1. CASE u \in Range(r.q) BY <1>1, <1>2, <3>1
    <3>2. CASE th[u].pc = "asleep" /\ Sem(u) # o
      <4>1. PICK p \in DOMAIN obj : u \in Range(obj[p].q) BY <1>0, <3>2 DEF Queues
      <4>2. p # o BY <1>0, <3>2, <4>1 DEF Queues
      <4> QED BY <1>2, <4>1, <4>2
    <3> QED BY <2>4, <3>1, <3>2 DEF Sleepers
  <2> QED BY <2>3, <2>4 DEF Queues
<1> QED BY <1>4, <1>5, <1>6, <1>7, <1>8 DEF SemInv

\* semfs_read takes what there is and sleeps for the rest.
LEMMA ReadStep == ASSUME SemInv, NEW t \in Threads, semfs_read(t) PROVE SemInv'
<1>0. Types /\ Local /\ Queues BY DEF SemInv
<1>1. th[t].pc = "read" /\ stopped = None /\ th[t] \in Thread BY <1>0 DEF semfs_read, At, Types
<1>2. th[t].hdl # 0 BY <1>0, <1>1 DEF Local, ThreadOK
<1>3. PICK o : o = Sem(t) OBVIOUS
<1>4. PICK s : s = obj[o] OBVIOUS
<1>5. o \in DOMAIN obj /\ s \in Semaphore BY <1>0, <1>2, <1>3, <1>4, OpenExact DEF Types
<1>6. s.count \in 0..MaxCount /\ s.q \in Seq(Threads) /\ th[t].left \in Nat /\ MaxCount \in Nat
  BY <1>1, <1>5, SemfsAssumption DEF Semaphore, Thread
<1>7. \A u \in Threads : th[u].pc = "asleep" /\ Sem(u) = o <=> u \in Range(s.q)
  BY <1>0, <1>4, <1>5 DEF Queues
<1>8. \A u \in Range(s.q) : Sem(u) = o BY <1>0, <1>4, <1>5 DEF Queues
<1>9. th[t].pc \notin Inside \cup {"unhook", "put", "reclaim", "root", "dir"} BY <1>1 DEF Inside
<1>10. UNCHANGED <<sems, dents, vnodes, dirlock, tablelock>> BY DEF semfs_read
<1>11. ASSUME th[t].left <= s.count,
              obj' = [obj EXCEPT ![o].count = @ - th[t].left], th' = [th EXCEPT ![t].pc = "idle", ![t].left = 0]
       PROVE  SemInv'
  <2>1. PICK r : r = [s EXCEPT !.count = s.count - th[t].left] OBVIOUS
  <2>2. obj' = [obj EXCEPT ![o] = r] BY <1>4, <1>11, <2>1
  <2>3. s.count - th[t].left \in 0..MaxCount BY <1>6, <1>11
  <2>4. r \in Semaphore BY ONLY <1>5, <2>1, <2>3 DEF Semaphore
  <2>5. r.linked = s.linked /\ r.hasvnode = s.hasvnode /\ r.lock = s.lock /\ r.q = s.q BY ONLY <1>5, <2>1 DEF Semaphore
  <2>6. th'[t] = [th[t] EXCEPT !.pc = "idle", !.left = 0] /\ \A u \in Threads \ {t} : th'[u] = th[u] BY <1>0, <1>11 DEF Types
  <2>7. th'[t].pc = "idle" /\ th'[t].hdl = th[t].hdl /\ th'[t] \in Thread
    <3>1. "idle" \in PCs /\ 0 \in Nat BY DEF PCs
    <3>2. th'[t] = [th[t] EXCEPT !.pc = "idle", !.left = 0] /\ th[t] \in Thread BY <1>1, <2>6
    <3>3. th'[t].pc = "idle" /\ th'[t].hdl = th[t].hdl BY ONLY <3>2 DEF Thread
    <3>4. th'[t] \in Thread BY ONLY <3>1, <3>2 DEF Thread
    <3> QED BY <3>3, <3>4
  <2>8. th' \in [Threads -> Thread] BY <1>0, <1>11, <2>6, <2>7 DEF Types
  <2>9. OthersStay(t) BY <2>6 DEF OthersStay, Stays
  <2>10. Sleepers(o, r.q) BY <1>1, <1>7, <1>8, <2>5, <2>6, <2>7 DEF Sleepers
  <2>11. Alike(r, obj[o]) BY <1>4, <2>5 DEF Alike
  <2> QED BY <1>1, <1>2, <1>3, <1>9, <1>10, <2>2, <2>4, <2>7, <2>8, <2>9, <2>10, <2>11, QueueStep
<1>12. ASSUME ~(th[t].left <= s.count),
              obj' = [obj EXCEPT ![o].count = 0, ![o].q = Append(@, t)],
              th' = [th EXCEPT ![t].pc = "asleep", ![t].left = @ - s.count]
       PROVE  SemInv'
  <2>1. PICK q : q = Append(s.q, t) OBVIOUS
  <2>2. q \in Seq(Threads) /\ Range(q) = Range(s.q) \cup {t}
    <3>1. q \in Seq(Threads) BY <1>6, <2>1, AppendProperties
    <3>2. Range(q) = Range(s.q) \cup {t}
      <4>1. DOMAIN q = 1..Len(s.q) + 1 /\ DOMAIN s.q = 1..Len(s.q) /\ Len(s.q) \in Nat BY <1>6, <2>1, AppendProperties
      <4>2. q[Len(s.q) + 1] = t /\ \A i \in 1..Len(s.q) : q[i] = s.q[i] BY <1>6, <2>1, AppendProperties
      <4>3. \A i \in DOMAIN q : i = Len(s.q) + 1 \/ i \in 1..Len(s.q) BY <4>1
      <4>4. Len(s.q) + 1 \in DOMAIN q /\ 1..Len(s.q) \subseteq DOMAIN q BY <4>1
      <4>5. \A u \in Range(q) : u = t \/ u \in Range(s.q) BY <4>1, <4>2, <4>3 DEF Range
      <4>6. t \in Range(q) /\ \A u \in Range(s.q) : u \in Range(q) BY <4>1, <4>2, <4>4 DEF Range
      <4> QED BY <4>5, <4>6
    <3> QED BY <3>1, <3>2
  <2>3. PICK r : r = [s EXCEPT !.count = 0, !.q = q] OBVIOUS
  <2>4. obj' = [obj EXCEPT ![o] = r] BY <1>4, <1>5, <1>12, <2>1, <2>3
  <2>5. 0 \in 0..MaxCount BY <1>6
  <2>6. r \in Semaphore BY ONLY <1>5, <2>2, <2>3, <2>5 DEF Semaphore
  <2>7. r.linked = s.linked /\ r.hasvnode = s.hasvnode /\ r.lock = s.lock /\ r.q = q BY ONLY <1>5, <2>3 DEF Semaphore
  <2>8. th'[t] = [th[t] EXCEPT !.pc = "asleep", !.left = th[t].left - s.count] /\ \A u \in Threads \ {t} : th'[u] = th[u]
    BY <1>0, <1>1, <1>12 DEF Types, Thread
  <2>9. th[t].left - s.count \in Nat BY <1>6, <1>12
  <2>10. th'[t].pc = "asleep" /\ th'[t].hdl = th[t].hdl /\ th'[t] \in Thread
    <3>1. "asleep" \in PCs BY DEF PCs
    <3> QED BY ONLY <1>1, <2>8, <2>9, <3>1 DEF Thread
  <2>11. th' \in [Threads -> Thread] BY <1>0, <1>12, <2>8, <2>10 DEF Types
  <2>12. OthersStay(t) BY <2>8 DEF OthersStay, Stays
  <2>13. Sleepers(o, r.q)
    <3>1. \A u \in Range(r.q) : Sem(u) = o BY <1>3, <1>8, <2>2, <2>7
    <3> QED BY <1>1, <1>7, <2>2, <2>7, <2>8, <2>10, <3>1 DEF Sleepers
  <2>14. Alike(r, obj[o]) BY <1>4, <2>7 DEF Alike
  <2> QED BY <1>1, <1>2, <1>3, <1>9, <1>10, <2>4, <2>6, <2>10, <2>11, <2>12, <2>13, <2>14, QueueStep
<1>13. s.count >= th[t].left <=> th[t].left <= s.count BY <1>6
<1> QED BY <1>3, <1>4, <1>11, <1>12, <1>13 DEF semfs_read

\* Who goes on sleeping slept before.
LEMMA WakeupExact ==
  ASSUME NEW s \in Semaphore, NEW n \in Nat
  PROVE  semfs_wakeup(s, n) \in Seq(Threads) /\ Range(semfs_wakeup(s, n)) \subseteq Range(s.q)
<1>1. s.q \in Seq(Threads) BY DEF Semaphore
<1>2. CASE semfs_wakeup(s, n) = s.q BY <1>1, <1>2
<1>3. CASE semfs_wakeup(s, n) = <<>> BY <1>3 DEF Range
<1>4. CASE s.q # <<>> /\ semfs_wakeup(s, n) = Tail(s.q)
  <2>1. PICK q : q = s.q OBVIOUS
  <2>2. q \in Seq(Threads) /\ q # <<>> BY <1>1, <1>4, <2>1
  <2>3. Tail(q) \in Seq(Threads) /\ Len(Tail(q)) = Len(q) - 1 /\ \A i \in 1..Len(Tail(q)) : Tail(q)[i] = q[i + 1]
    BY <2>2, HeadTailProperties
  <2>4. Len(q) \in Nat /\ DOMAIN q = 1..Len(q) /\ DOMAIN Tail(q) = 1..Len(Tail(q)) BY <2>2, <2>3
  <2>5. \A i \in 1..Len(Tail(q)) : i + 1 \in DOMAIN q BY <2>3, <2>4
  <2>6. Range(Tail(q)) \subseteq Range(q) BY <2>3, <2>4, <2>5 DEF Range
  <2> QED BY <1>4, <2>1, <2>3, <2>6
<1> QED BY <1>2, <1>3, <1>4 DEF semfs_wakeup

\* The count is set and sleepers are woken (semfs_write, semfs_truncate).
LEMMA SetStep ==
  ASSUME SemInv, NEW t \in Threads, th[t].pc \in {"idle", "opened"}, th[t].hdl # 0, stopped = None,
         NEW n \in 0..MaxCount, Set(t, n), UNCHANGED <<sems, dents, vnodes, dirlock, tablelock>>
  PROVE  SemInv'
<1>0. Types /\ Local /\ Queues BY DEF SemInv
<1>1. PICK o : o = Sem(t) OBVIOUS
<1>2. PICK s : s = obj[o] OBVIOUS
<1>3. o \in DOMAIN obj /\ s \in Semaphore BY <1>0, <1>1, <1>2, OpenExact DEF Types
<1>4. PICK q : q = semfs_wakeup(s, n) OBVIOUS
<1>5. MaxCount \in Nat /\ n \in Nat BY SemfsAssumption
<1>6. q \in Seq(Threads) /\ Range(q) \subseteq Range(s.q) BY <1>3, <1>4, <1>5, WakeupExact
<1>7. PICK r : r = [s EXCEPT !.count = n, !.q = q] OBVIOUS
<1>8. obj' = [obj EXCEPT ![o] = r] BY <1>1, <1>2, <1>3, <1>4, <1>7 DEF Set
<1>9. r \in Semaphore BY ONLY <1>3, <1>6, <1>7, n \in 0..MaxCount DEF Semaphore
<1>10. r.linked = s.linked /\ r.hasvnode = s.hasvnode /\ r.lock = s.lock /\ r.q = q BY ONLY <1>3, <1>7 DEF Semaphore
<1>11. PICK W : W = Range(s.q) \ Range(q) OBVIOUS
<1>12. th' = [u \in Threads |-> IF u \in W THEN [th[u] EXCEPT !.pc = "read"]
                                ELSE IF u = t THEN [th[u] EXCEPT !.pc = "idle", !.op = "set"] ELSE th[u]]
  BY <1>1, <1>2, <1>4, <1>11 DEF Set
<1>13. \A u \in Threads : th[u].pc = "asleep" /\ Sem(u) = o <=> u \in Range(s.q) BY <1>0, <1>2, <1>3 DEF Queues
<1>14. \A u \in Range(s.q) : Sem(u) = o BY <1>0, <1>2, <1>3 DEF Queues
<1>15. \A u \in W \cap Threads : th[u].pc = "asleep" /\ u # t /\ th'[u] = [th[u] EXCEPT !.pc = "read"]
  BY <1>11, <1>12, <1>13
<1>16. \A u \in Threads \ W : u # t => th'[u] = th[u] BY <1>12
<1>17. t \notin W /\ th'[t] = [th[t] EXCEPT !.pc = "idle", !.op = "set"] BY <1>11, <1>12, <1>13
<1>18. ASSUME NEW u \in W \cap Threads
       PROVE  /\ th'[u].pc = "read" /\ th'[u].op = th[u].op /\ th'[u].name = th[u].name /\ th'[u].num = th[u].num
              /\ th'[u].sem = th[u].sem /\ th'[u].hdl = th[u].hdl /\ th'[u] \in Thread
  <2>1. th[u] \in Thread /\ "read" \in PCs BY <1>0 DEF Types, PCs
  <2>2. th'[u] = [th[u] EXCEPT !.pc = "read"] BY <1>15, <1>18
  <2>3. th'[u] \in Thread BY ONLY <2>1, <2>2 DEF Thread
  <2> QED BY <2>1, <2>2, <2>3 DEF Thread
<1>19. th'[t].pc = "idle" /\ th'[t].hdl = th[t].hdl /\ th'[t] \in Thread
  <2>1. th[t] \in Thread /\ "idle" \in PCs BY <1>0 DEF Types, PCs
  <2>2. th'[t] \in Thread BY ONLY <1>17, <2>1 DEF Thread
  <2> QED BY <1>17, <2>1, <2>2 DEF Thread
<1>20. th' \in [Threads -> Thread]
  <2>1. \A u \in Threads : th'[u] \in Thread BY <1>0, <1>16, <1>18, <1>19 DEF Types
  <2>2. th' = [u \in Threads |-> th'[u]] BY <1>12
  <2> QED BY <2>1, <2>2
<1>21. OthersStay(t) BY <1>15, <1>16, <1>18 DEF OthersStay, Stays
<1>22. Sleepers(o, r.q)
  <2>1. ASSUME NEW u \in Threads PROVE th'[u].pc = "asleep" <=> (th[u].pc = "asleep" /\ Sem(u) # o) \/ u \in Range(q)
    <3>1. CASE u \in W BY <1>11, <1>13, <1>18, <3>1
    <3>2. CASE u = t BY <1>6, <1>13, <1>19, <3>2
    <3>3. CASE u \notin W /\ u # t BY <1>6, <1>11, <1>13, <1>16, <3>3
    <3> QED BY <3>1, <3>2, <3>3
  <2> QED BY <1>6, <1>10, <1>14, <2>1 DEF Sleepers
<1>23. Alike(r, obj[o]) BY <1>2, <1>10 DEF Alike
<1>24. th[t].pc \notin Inside \cup {"unhook", "put", "reclaim", "root", "dir"} BY DEF Inside
<1> QED BY <1>1, <1>8, <1>9, <1>19, <1>20, <1>21, <1>22, <1>23, <1>24, QueueStep

LEMMA WriteStep == ASSUME SemInv, NEW t \in Threads, NEW n \in Amounts, semfs_write(t, n) PROVE SemInv'
<1>1. PICK c : c = (obj[Sem(t)].count + n) % (MaxCount + 1) OBVIOUS
<1>2. th[t].pc = "idle" /\ stopped = None /\ th[t].hdl # 0 BY DEF semfs_write, At
<1>3. UNCHANGED <<sems, dents, vnodes, dirlock, tablelock, stopped>> BY DEF semfs_write
<1>4. CASE UNCHANGED <<obj, th>> BY <1>3, <1>4, StopStep
<1>5. CASE Set(t, c)
  <2>1. obj[Sem(t)] \in Semaphore BY <1>2, OpenExact DEF SemInv, Types
  <2>2. obj[Sem(t)].count \in 0..MaxCount BY <2>1 DEF Semaphore
  <2>3. c \in 0..MaxCount
    <3>1. MaxCount \in Nat /\ n \in Nat BY SemfsAssumption
    <3>2. PICK m : m = obj[Sem(t)].count + n OBVIOUS
    <3>3. m \in Nat /\ c = m % (MaxCount + 1) /\ MaxCount + 1 \in Nat \ {0} BY <1>1, <2>2, <3>1, <3>2
    <3>4. c \in 0..(MaxCount + 1) - 1 BY ONLY <3>3
    <3> QED BY <3>1, <3>4
  <2> QED BY <1>2, <1>3, <1>5, <2>3, SetStep
<1> QED BY <1>1, <1>4, <1>5 DEF semfs_write

LEMMA OpenedStep == ASSUME SemInv, NEW t \in Threads, Opened(t) PROVE SemInv'
<1>0. Types /\ Local /\ Refs BY DEF SemInv
<1>1. th[t].pc = "opened" /\ stopped = None BY DEF Opened, At
<1>2. UNCHANGED <<sems, dents, vnodes, dirlock, tablelock>> BY DEF Opened
<1>3. CASE stopped' = "no vnode" /\ UNCHANGED <<th, obj>> BY <1>2, <1>3, StopStep DEF None
<1>4. CASE Go(t, "idle") /\ UNCHANGED <<obj, stopped>>
  <2>1. Only(t) /\ th' \in [Threads -> Thread] /\ th'[t].pc = "idle" /\ Same(t) BY <1>0, <1>4, GoExact DEF PCs
  <2>2. ThreadOK(t)' BY <2>1 DEF ThreadOK, Inside
  <2>3. HoldSame BY <1>1, <2>1 DEF Holds, Only, Same, HoldSame
  <2>4. Refs' BY <1>0, <1>2, <2>3, RefsSame
  <2> QED BY <1>0, <1>1, <1>2, <1>4, <2>1, <2>2, <2>4, OutsideAlone DEF Inside, Types
<1>5. CASE th[t].hdl # 0 /\ Set(t, 0)
  <2>1. 0 \in 0..MaxCount BY SemfsAssumption
  <2> QED BY <1>1, <1>2, <1>5, <2>1, SetStep
<1> QED BY <1>3, <1>4, <1>5 DEF Opened

LEMMA UnmountStep == ASSUME SemInv, semfs_unmount PROVE SemInv'
BY StopStep DEF semfs_unmount, None
-----------------------------------------------------------------------------
(* Steps with the directory locked. *)

\* Nobody else has the directory.
Alone(t) == \A u \in Threads \ {t} : th[u].pc \notin Inside

LEMMA AloneExact ==
  ASSUME SemInv, NEW t \in Threads, th[t].pc \in Inside
  PROVE  Alone(t) /\ dirlock = t /\ Hand(t, th[t].num, th[t].sem) /\ th[t].name \in Names
BY DEF SemInv, Hands, Alone, Local, ThreadOK

LEMMA AloneFree == ASSUME SemInv, NEW t \in Threads, dirlock = None PROVE Alone(t)
BY SemfsAssumption DEF SemInv, Hands, Alone

\* With the table unlocked, nobody is in the middle of a last close.
LEMMA NobodyLeaves == ASSUME SemInv, stopped = None, tablelock = None PROVE \A u \in Threads : th[u].pc # "unhook"
BY SemfsAssumption DEF SemInv, Leaves, Leaving

\* Where a thread that had the directory is afterwards.
Moves(t) ==
  /\ Only(t) /\ th' \in [Threads -> Thread] /\ ThreadOK(t)'
  /\ \/ th'[t].pc \in Inside /\ dirlock' = t /\ Hand(t, th[t].num, th[t].sem)'
     \/ th'[t].pc = "put" /\ th'[t].num = ROOT /\ dirlock' = None
Place(t) == Moves(t) /\ th'[t].hdl = th[t].hdl

\* Whoever has a last close under way still has it.
LeavesOn == \A u \in Threads : th[u].pc = "unhook" =>
  LET x == th[u].num IN
  x \in DOMAIN sems' /\ sems'[x] = sems[x] /\ sems[x] \in DOMAIN obj' /\ ~obj'[sems[x]].hasvnode

\* What those steps have in common.
LEMMA InsideCommon ==
  ASSUME SemInv, NEW t \in Threads, Alone(t), th[t].pc \in Inside \cup {"dir"}, Moves(t),
         UNCHANGED <<tablelock, stopped>>, LeavesOn
  PROVE  Local' /\ Leaves' /\ Hands' /\ (vnodes' = vnodes /\ Place(t) => Refs')
<1>0. Local /\ Refs /\ Leaves /\ Types BY DEF SemInv
<1>1. Local' BY <1>0, LocalKept DEF Moves
<1>2. th'[t].pc # "unhook" /\ th[t].pc # "unhook" BY DEF Moves, Inside
<1>3. Leaves' BY <1>0, <1>2 DEF Leaves, Leaving, LeavesOn, Moves, Only
<1>4. Hands'
  <2>1. \A u \in Threads \ {t} : th'[u].pc \notin Inside BY DEF Moves, Only, Alone
  <2>2. dirlock' \in {t, None} /\ (dirlock' = t <=> th'[t].pc \in Inside) BY SemfsAssumption DEF Moves, Inside
  <2>3. \A u \in Threads : th'[u].pc \in Inside <=> dirlock' = u BY <2>1, <2>2, SemfsAssumption
  <2>4. th'[t].pc \in Inside => Hand(t, th[t].num, th[t].sem)' BY DEF Moves, Inside
  <2> QED BY <2>1, <2>3, <2>4 DEF Hands
<1>5. ASSUME vnodes' = vnodes, Place(t) PROVE Refs'
  <2>1. \A y : Holds(t, y)' <=> Holds(t, y)
    <3>1. th[t].pc \in {"dir"} \cup Inside /\ th'[t].hdl = th[t].hdl BY <1>5 DEF Place
    <3>2. th'[t].pc \in Inside \/ (th'[t].pc = "put" /\ th'[t].num = ROOT) BY DEF Moves
    <3> QED BY <3>1, <3>2 DEF Holds, Inside
  <2>2. HoldSame BY <2>1 DEF HoldSame, Holds, Moves, Only
  <2> QED BY <1>0, <1>5, <2>2, RefsSame
<1> QED BY <1>1, <1>3, <1>4, <1>5

\* What keeps a semaphore that is not in hand is still there.
Carried(t, o) ==
  /\ o \in DOMAIN obj
  /\ obj[o].linked => obj'[o].linked
  /\ obj[o].hasvnode => obj'[o].hasvnode
  /\ th[t].pc \in {"dir", "make"} \/ th[t].sem # o

LEMMA AliveOn ==
  ASSUME SemInv, NEW t \in Threads, Alone(t), th[t].pc \in Inside \cup {"dir"}, Moves(t), LeavesOn,
         \A o \in DOMAIN obj' : Alive(o)' \/ Carried(t, o)
  PROVE  AllAlive'
<1> SUFFICES ASSUME NEW o \in DOMAIN obj', Carried(t, o) PROVE Alive(o)' BY DEF AllAlive
<1>1. Alive(o) BY DEF SemInv, AllAlive, Carried
<1>2. ~\E u \in Threads : th[u].sem = o /\ th[u].pc \in {"enter", "get", "undo", "drop", "destroy"}
  BY DEF Alone, Carried, Inside
<1>3. \A u \in Threads : th[u].pc = "unhook" => th'[u] = th[u] /\ sems'[th[u].num] = sems[th[u].num]
  BY DEF LeavesOn, Moves, Only, Inside
<1> QED BY <1>1, <1>2, <1>3 DEF Alive, Carried

\* Steps that leave the semaphores and the entries alone.
LEMMA InsideAlone ==
  ASSUME SemInv, NEW t \in Threads, Alone(t), th[t].pc \in Inside \cup {"dir"}, Place(t),
         UNCHANGED <<sems, obj, dents, vnodes, tablelock, stopped>>,
         dirlock' = t \/ th[t].pc = "dir" \/ \A x \in Entered \cup Linked : x \in Entered <=> x \in Linked,
         dirlock' = t => th[t].pc = "dir" \/ th'[t].num = th[t].num,
         th[t].pc \in {"dir", "make"} \/ \A o \in DOMAIN obj : o = th[t].sem => Alive(o)'
  PROVE  SemInv'
<1>0. Types /\ Numbers /\ Hooked /\ Leaves /\ Hands /\ Entries /\ Queues BY DEF SemInv
<1>1. LeavesOn BY <1>0 DEF LeavesOn, Leaves, Leaving
<1>2. Local' /\ Leaves' /\ Hands' /\ Refs' BY <1>1, InsideCommon DEF Place
<1>3. \A o \in DOMAIN obj' : Alive(o)' \/ Carried(t, o) BY DEF Carried
<1>4. AllAlive' BY <1>1, <1>3, AliveOn DEF Place
<1>5. Numbers' /\ Hooked' BY <1>0 DEF Numbers, Hooked
<1>6. \A u \in Threads : (th'[u].pc = "asleep" <=> th[u].pc = "asleep") /\ th'[u].hdl = th[u].hdl BY DEF Place, Moves, Only, Inside
<1>7. Queues' BY <1>6, QueuesKept
<1>8. Types'
  <2>1. th' \in [Threads -> Thread] /\ dirlock' \in Threads \cup {None} BY DEF Place, Moves
  <2> QED BY <1>0, <2>1 DEF Types
<1>9. Entries'
  <2>1. Entered' = Entered /\ EntryPlaces' = EntryPlaces /\ Linked' = Linked BY DEF Entered, EntryPlaces, Linked
  <2>2. ASSUME NEW x \in Entered \cup Linked, dirlock' = None \/ x # th'[dirlock'].num PROVE x \in Entered <=> x \in Linked
    <3>1. CASE th[t].pc = "dir"
      <4>1. dirlock = None
        <5>1. dirlock # None => dirlock \in Threads /\ th[dirlock].pc \in Inside BY <1>0 DEF Types, Hands
        <5> QED BY <3>1, <5>1 DEF Alone, Inside
      <4> QED BY <1>0, <4>1 DEF Entries
    <3>2. CASE th[t].pc # "dir"
      <4>1. dirlock = t BY <1>0, <3>2 DEF Hands
      <4> QED BY <1>0, <2>2, <3>2, <4>1, SemfsAssumption DEF Entries
    <3> QED BY <3>1, <3>2
  <2> QED BY <1>0, <2>1, <2>2 DEF Entries
<1> QED BY <1>2, <1>4, <1>5, <1>7, <1>8, <1>9 DEF SemInv

\* A thread has another number and semaphore in its hands.
Takes(t, p, x, o) == th' = [th EXCEPT ![t].pc = p, ![t].num = x, ![t].sem = o]

LEMMA TakesExact ==
  ASSUME Types, NEW t \in Threads, NEW p \in PCs, NEW x \in Nat, NEW o \in Nat,
         Takes(t, p, x, o)
  PROVE  /\ Only(t) /\ th' \in [Threads -> Thread] /\ th'[t].pc = p /\ th'[t].num = x /\ th'[t].sem = o
         /\ th'[t].op = th[t].op /\ th'[t].name = th[t].name /\ th'[t].hdl = th[t].hdl
<1>1. th \in [Threads -> Thread] BY DEF Types
<1>2. Only(t) BY <1>1 DEF Only, Takes
<1>3. th'[t] = [th[t] EXCEPT !.pc = p, !.num = x, !.sem = o] BY <1>1 DEF Takes
<1>4. th[t] \in Thread BY <1>1
<1>5. /\ th'[t].pc = p /\ th'[t].num = x /\ th'[t].sem = o
      /\ th'[t].op = th[t].op /\ th'[t].name = th[t].name /\ th'[t].hdl = th[t].hdl
  BY ONLY <1>3, <1>4 DEF Thread
<1>6. th'[t] \in Thread BY ONLY <1>3, <1>4, p \in PCs, x \in Nat, o \in Nat DEF Thread
<1>7. th' \in [Threads -> Thread] BY <1>1, <1>6 DEF Takes
<1> QED BY <1>2, <1>5, <1>7

LEMMA SearchStep == ASSUME SemInv, NEW t \in Threads, Search(t) PROVE SemInv'
<1>0. Types /\ Local /\ Numbers /\ Entries BY DEF SemInv
<1>1. th[t].pc = "dir" /\ dirlock = None /\ UNCHANGED <<sems, obj, dents, vnodes, tablelock, stopped>> BY DEF Search, At
<1>2. Alone(t) BY <1>1, AloneFree
<1>3. /\ th[t].op \in {"lookup", "creat", "excl", "remove"} /\ (th[t].op = "remove" \/ th[t].hdl = 0)
      /\ th[t].name \in Names
  BY <1>0, <1>1 DEF Local, ThreadOK
<1>4. PICK K : K = {k \in DOMAIN dents : dents[k].name = th[t].name} OBVIOUS
<1>5. ASSUME NEW k \in K PROVE dents[k].num \in Entered /\ dents[k].num \in Linked
  <2>1. dents[k] # NoEntry BY <1>3, <1>4, SemfsAssumption DEF NoEntry
  <2>2. dents[k].num \in Entered BY <1>4, <2>1 DEF Entered, EntryPlaces
  <2> QED BY <1>0, <1>1, <2>2 DEF Entries
<1>6. ASSUME NEW x \in Linked, x \in Entered, NEW p \in {"get", "unlink"}, p = "unlink" \/ th[t].hdl = 0, dirlock' = t,
             th' = [th EXCEPT ![t].pc = p, ![t].num = x, ![t].sem = IF x = 0 THEN 0 ELSE sems[x]]
      PROVE  SemInv'
  <2>1. PICK o : o = IF x = 0 THEN 0 ELSE sems[x] OBVIOUS
  <2>2. x \in DOMAIN sems /\ sems[x] # 0 /\ obj[sems[x]].linked BY DEF Linked
  <2>3. DOMAIN sems \subseteq Nat \ {0} BY <1>0 DEF Types
  <2>4. o = sems[x] /\ o \in DOMAIN obj /\ x \in Nat /\ o \in Nat BY <1>0, <2>1, <2>2, <2>3 DEF Numbers, Types
  <2>5. Takes(t, p, x, o) /\ p \in PCs BY <1>6, <2>1 DEF PCs, Inside, Takes
  <2>6. /\ Only(t) /\ th' \in [Threads -> Thread] /\ th'[t].pc = p /\ th'[t].num = x /\ th'[t].sem = o
        /\ th'[t].op = th[t].op /\ th'[t].name = th[t].name /\ th'[t].hdl = th[t].hdl
    BY ONLY <1>0, <2>4, <2>5, t \in Threads, TakesExact
  <2>7. ThreadOK(t)' BY <1>3, <1>6, <2>6 DEF ThreadOK
  <2>8. Entered' = Entered BY <1>1 DEF Entered, EntryPlaces
  <2>9. Hand(t, x, o)' BY <1>1, <1>6, <2>2, <2>4, <2>6, <2>8 DEF Hand
  <2>10. Place(t) BY <1>6, <2>6, <2>7, <2>9 DEF Place, Moves, Inside
  <2> QED BY <1>1, <1>2, <1>6, <2>10, InsideAlone
<1>7. ASSUME K = {}, th[t].op \in {"creat", "excl"}, dirlock' = t, th' = [th EXCEPT ![t].pc = "make", ![t].num = 0, ![t].sem = 0]
      PROVE  SemInv'
  <2>1. /\ Only(t) /\ th' \in [Threads -> Thread] /\ th'[t].pc = "make" /\ th'[t].num = 0 /\ th'[t].sem = 0
        /\ th'[t].op = th[t].op /\ th'[t].name = th[t].name /\ th'[t].hdl = th[t].hdl
    <3>1. "make" \in PCs /\ 0 \in Nat /\ Takes(t, "make", 0, 0) BY <1>7 DEF PCs, Inside, Takes
    <3> QED BY <1>0, <3>1, TakesExact
  <2>2. ThreadOK(t)' BY <1>3, <1>7, <2>1 DEF ThreadOK
  <2>3. \A k \in DOMAIN dents : dents[k].name # th[t].name BY <1>4, <1>7
  <2>4. Hand(t, 0, 0)' BY <1>1, <2>1, <2>3 DEF Hand
  <2>5. Place(t) BY <1>7, <2>1, <2>2, <2>4 DEF Place, Moves, Inside
  <2> QED BY <1>1, <1>2, <1>7, <2>5, InsideAlone
<1>8. ASSUME PutRoot(t), UNCHANGED dirlock PROVE SemInv'
  <2>1. /\ Only(t) /\ th' \in [Threads -> Thread] /\ th'[t].pc = "put" /\ th'[t].num = ROOT
        /\ th'[t].hdl = th[t].hdl /\ ThreadOK(t)'
    BY <1>0, <1>8, PutRootExact
  <2>2. Place(t) BY <1>1, <1>8, <2>1 DEF Place, Moves
  <2> QED BY <1>1, <1>2, <2>2, InsideAlone
<1>9. CASE K # {}
  <2>1. PICK x : x = dents[CHOOSE k \in K : TRUE].num OBVIOUS
  <2>2. x \in Linked /\ x \in Entered BY <1>5, <1>9, <2>1
  <2>3. \/ /\ th[t].op \in {"lookup", "creat"} /\ dirlock' = t
           /\ th' = [th EXCEPT ![t].pc = "get", ![t].num = x, ![t].sem = IF x = 0 THEN 0 ELSE sems[x]]
        \/ /\ th[t].op = "remove" /\ dirlock' = t
           /\ th' = [th EXCEPT ![t].pc = "unlink", ![t].num = x, ![t].sem = IF x = 0 THEN 0 ELSE sems[x]]
        \/ PutRoot(t) /\ UNCHANGED dirlock
    BY <1>4, <1>9, <2>1 DEF Search
  <2>4. CASE /\ th[t].op \in {"lookup", "creat"} /\ dirlock' = t
             /\ th' = [th EXCEPT ![t].pc = "get", ![t].num = x, ![t].sem = IF x = 0 THEN 0 ELSE sems[x]]
    BY <1>3, <1>6, <2>2, <2>4
  <2>5. CASE /\ th[t].op = "remove" /\ dirlock' = t
             /\ th' = [th EXCEPT ![t].pc = "unlink", ![t].num = x, ![t].sem = IF x = 0 THEN 0 ELSE sems[x]]
    BY <1>6, <2>2, <2>5
  <2> QED BY <1>8, <2>3, <2>4, <2>5
<1>10. CASE K = {}
  <2>1. \/ /\ th[t].op \in {"creat", "excl"} /\ dirlock' = t
           /\ th' = [th EXCEPT ![t].pc = "make", ![t].num = 0, ![t].sem = 0]
        \/ PutRoot(t) /\ UNCHANGED dirlock
    BY <1>4, <1>10 DEF Search
  <2> QED BY <1>7, <1>8, <1>10, <2>1
<1> QED BY <1>9, <1>10

\* A semaphore is made and numbered (semfs_sem_create, semfs_sem_insert).
LEMMA MakeStep == ASSUME SemInv, NEW t \in Threads, Make(t) PROVE SemInv'
<1>0. Types /\ Local /\ Refs /\ Numbers /\ Hooked /\ Entries BY DEF SemInv
<1>1. th[t].pc = "make" /\ stopped = None /\ tablelock = None /\ UNCHANGED <<dents, vnodes, tablelock, stopped>>
  BY DEF Make, At
<1>2. Alone(t) /\ dirlock = t /\ Hand(t, th[t].num, th[t].sem) /\ th[t].name \in Names BY <1>1, AloneExact DEF Inside
<1>3. th[t].num = 0 /\ \A k \in DOMAIN dents : dents[k].name # th[t].name BY <1>1, <1>2 DEF Hand
<1>4. \A x : x \in Entered <=> x \in Linked
  <2>1. 0 \notin Entered /\ 0 \notin Linked BY <1>0 DEF Entries, Entered, Linked, Types
  <2> QED BY <1>0, <1>2, <1>3, <2>1 DEF Entries
<1>5. CASE dirlock' = None /\ PutRoot(t) /\ UNCHANGED <<sems, obj>>
  <2>1. /\ Only(t) /\ th' \in [Threads -> Thread] /\ th'[t].pc = "put" /\ th'[t].num = ROOT
        /\ th'[t].hdl = th[t].hdl /\ ThreadOK(t)'
    BY <1>0, <1>5, PutRootExact
  <2>2. Place(t) BY <1>5, <2>1 DEF Place, Moves
  <2>3. dirlock' # t BY <1>5, SemfsAssumption
  <2> QED BY <1>1, <1>2, <1>4, <1>5, <2>2, <2>3, InsideAlone DEF Inside
<1>6. ASSUME NEW o, o = CHOOSE p \in 1..Cardinality(DOMAIN obj) + 1 : p \notin DOMAIN obj,
             NEW k, k = First(sems, 0), UNCHANGED dirlock, sems' = Put(sems, k, o),
             obj' = [p \in DOMAIN obj \cup {o} |->
                       IF p = o THEN [count |-> 0, hasvnode |-> FALSE, linked |-> FALSE, lock |-> None, q |-> <<>>] ELSE obj[p]],
             th' = [th EXCEPT ![t].pc = "enter", ![t].num = k, ![t].sem = o]
      PROVE  SemInv'
  <2>1. o \in Nat \ {0} /\ o \notin DOMAIN obj BY <1>0, <1>6, RoomForOne DEF Types
  <2>2. sems \in Seq(Nat) /\ DOMAIN sems = 1..Len(sems) /\ Len(sems) \in Nat BY <1>0 DEF Types
  <2>3. k \in 1..Len(sems) + 1 /\ (k \in DOMAIN sems => sems[k] = 0) BY <1>6, <2>2, FirstExact
  <2>4. /\ sems' \in Seq(Nat) /\ DOMAIN sems' = DOMAIN sems \cup {k} /\ sems'[k] = o
        /\ \A j \in DOMAIN sems \ {k} : sems'[j] = sems[j]
    <3>1. sems' \in Seq(Nat) /\ Filled(sems', sems, k, o) BY <1>6, <2>1, <2>2, <2>3, PutExact
    <3> QED BY <3>1 DEF Filled
  <2>5. k \in Nat \ {0} BY <2>2, <2>3
  <2>6. /\ Only(t) /\ th' \in [Threads -> Thread] /\ th'[t].pc = "enter" /\ th'[t].num = k /\ th'[t].sem = o
        /\ th'[t].op = th[t].op /\ th'[t].name = th[t].name /\ th'[t].hdl = th[t].hdl
    <3>1. "enter" \in PCs /\ Takes(t, "enter", k, o) BY <1>6 DEF PCs, Inside, Takes
    <3> QED BY <1>0, <2>1, <2>5, <3>1, TakesExact
  <2>7. DOMAIN obj' = DOMAIN obj \cup {o} /\ \A p \in DOMAIN obj : obj'[p] = obj[p] BY <1>6, <2>1
  <2>8. obj'[o].count = 0 /\ ~obj'[o].hasvnode /\ ~obj'[o].linked /\ obj'[o].lock = None /\ obj'[o].q = <<>> BY <1>6
  <2>9. \A u \in Threads : th[u].pc # "unhook" BY <1>1, NobodyLeaves
  <2>10. LeavesOn BY <2>9 DEF LeavesOn
  <2>11. ThreadOK(t)' BY <1>0, <1>1, <1>2, <2>6 DEF Local, ThreadOK
  <2>12. k \notin Linked /\ k \notin Entered BY <1>4, <2>3 DEF Linked
  <2>13. Entered' = Entered /\ EntryPlaces' = EntryPlaces BY <1>1 DEF Entered, EntryPlaces
  <2>14. Hand(t, k, o)'
    <3>1. Fresh(k, o)' BY <2>6, <2>8, <2>9 DEF Fresh, Only
    <3>2. \A j \in DOMAIN dents' : dents'[j].name # th'[t].name BY <1>1, <1>3, <2>6
    <3>3. k \in DOMAIN sems' /\ sems'[k] = o /\ o \in DOMAIN obj' BY <2>4, <2>7
    <3> QED BY <2>6, <2>12, <2>13, <3>1, <3>2, <3>3 DEF Hand
  <2>15. Place(t) BY <1>2, <1>6, <2>6, <2>11, <2>14 DEF Place, Moves, Inside
  <2>16. Local' /\ Leaves' /\ Hands' /\ Refs' BY <1>1, <1>2, <2>10, <2>15, InsideCommon DEF Inside, Place
  <2>17. AllAlive'
    <3>1. Alive(o)' BY <2>6 DEF Alive
    <3>2. \A p \in DOMAIN obj : Carried(t, p) BY <1>1, <2>7 DEF Carried
    <3> QED BY <1>1, <1>2, <2>7, <2>10, <2>15, <3>1, <3>2, AliveOn DEF Inside, Place
  <2>18. Types'
    <3>1. obj' = [p \in DOMAIN obj' |-> obj'[p]] BY <1>6
    <3>2. obj'[o] \in Semaphore
      <4>1. 0 \in 0..MaxCount /\ <<>> \in Seq(Threads) BY SemfsAssumption
      <4>2. obj'[o] = [count |-> 0, hasvnode |-> FALSE, linked |-> FALSE, lock |-> None, q |-> <<>>] BY <1>6
      <4> QED BY <4>1, <4>2 DEF Semaphore
    <3>3. \A p \in DOMAIN obj' : obj'[p] \in Semaphore BY <1>0, <2>7, <3>2 DEF Types
    <3>4. IsFiniteSet(DOMAIN obj')
      <4>1. IsFiniteSet(DOMAIN obj) BY <1>0 DEF Types
      <4>2. IsFiniteSet(DOMAIN obj \cup {o}) BY ONLY <4>1, FS_AddElement
      <4> QED BY <2>7, <4>2
    <3>5. obj' \in [DOMAIN obj' -> Semaphore] /\ DOMAIN obj' \subseteq Nat \ {0} BY <1>0, <2>1, <2>7, <3>1, <3>3 DEF Types
    <3> QED BY <1>0, <1>1, <1>6, <2>4, <2>6, <3>4, <3>5 DEF Types
  <2>19. \A j \in DOMAIN sems : sems[j] # 0 => j # k /\ sems[j] \in DOMAIN obj /\ sems[j] # o
    BY <1>0, <2>1, <2>3 DEF Numbers
  <2>20. Numbers'
    <3>1. \A j \in DOMAIN sems' : sems'[j] \in DOMAIN obj' \cup {0} BY <1>0, <2>4, <2>7 DEF Numbers
    <3>2. \A p \in DOMAIN obj' : \E j \in DOMAIN sems' : sems'[j] = p
      <4> SUFFICES ASSUME NEW p \in DOMAIN obj' PROVE \E j \in DOMAIN sems' : sems'[j] = p OBVIOUS
      <4>1. CASE p = o BY <2>4, <4>1
      <4>2. CASE p # o
        <5>1. p \in DOMAIN obj BY <2>7, <4>2
        <5>2. PICK j \in DOMAIN sems : sems[j] = p BY <1>0, <5>1 DEF Numbers
        <5>3. sems[j] # 0 BY <1>0, <5>1, <5>2 DEF Types
        <5> QED BY <2>4, <2>19, <5>2, <5>3
      <4> QED BY <4>1, <4>2
    <3>3. \A i, j \in DOMAIN sems' : sems'[i] = sems'[j] /\ sems'[i] # 0 => i = j
      <4> SUFFICES ASSUME NEW i \in DOMAIN sems', NEW j \in DOMAIN sems', sems'[i] = sems'[j], sems'[i] # 0 PROVE i = j OBVIOUS
      <4>1. CASE i # k /\ j # k BY <1>0, <2>4, <4>1 DEF Numbers
      <4>2. CASE i = k \/ j = k BY <2>1, <2>4, <2>19, <4>2
      <4> QED BY <4>1, <4>2
    <3> QED BY <3>1, <3>2, <3>3 DEF Numbers
  <2>21. Hooked'
    <3> SUFFICES ASSUME NEW y PROVE y \in DOMAIN vnodes \ {ROOT} <=> y \in DOMAIN sems' /\ sems'[y] # 0 /\ obj'[sems'[y]].hasvnode
      BY <1>1 DEF Hooked
    <3>1. y \in DOMAIN vnodes \ {ROOT} <=> y \in DOMAIN sems /\ sems[y] # 0 /\ obj[sems[y]].hasvnode BY <1>0 DEF Hooked
    <3>2. CASE y = k BY <2>3, <2>4, <2>8, <3>1, <3>2
    <3>3. CASE y # k BY <2>4, <2>7, <2>19, <3>1, <3>3
    <3> QED BY <3>2, <3>3
  <2>22. Linked' = Linked
    <3>1. \A y : y \in Linked <=> y \in DOMAIN sems /\ sems[y] # 0 /\ obj[sems[y]].linked BY DEF Linked
    <3>2. \A y : y \in Linked' <=> y \in DOMAIN sems' /\ sems'[y] # 0 /\ obj'[sems'[y]].linked BY DEF Linked
    <3>3. \A y : y # k => (y \in Linked <=> y \in Linked') BY <2>4, <2>7, <2>19, <3>1, <3>2
    <3>4. k \notin Linked' BY <2>4, <2>8, <3>2
    <3> QED BY <2>12, <3>3, <3>4
  <2>23. Entries' BY <1>0, <1>1, <1>4, <2>13, <2>22 DEF Entries
  <2>24. Queues'
    <3>1. ASSUME NEW u \in Threads, th[u].pc = "asleep" PROVE th'[u].hdl = th[u].hdl /\ sems'[th[u].hdl] = sems[th[u].hdl]
      <4>1. th[u].hdl # 0 BY <1>0, <3>1 DEF Local, ThreadOK
      <4>2. th[u].hdl \in DOMAIN sems /\ Sem(u) # 0 BY <4>1, OpenExact
      <4>3. th[u].hdl # k BY <2>19, <4>2 DEF Sem
      <4> QED BY <2>4, <2>6, <4>2, <4>3 DEF Only
    <3>2. \A u \in Threads : th'[u].pc = "asleep" <=> th[u].pc = "asleep" BY <1>1, <2>6 DEF Only
    <3>3. \A p \in DOMAIN obj : p \in DOMAIN obj' /\ obj'[p].q = obj[p].q BY <2>7
    <3>4. \A p \in DOMAIN obj' \ DOMAIN obj : obj'[p].q = <<>> BY <2>7, <2>8
    <3> QED BY <3>1, <3>2, <3>3, <3>4, QueuesKept
  <2> QED BY <2>16, <2>17, <2>18, <2>20, <2>21, <2>23, <2>24 DEF SemInv
<1> QED BY <1>5, <1>6 DEF Make

\* The directory gets its entry, or there is no memory for it.
LEMMA EnterStep == ASSUME SemInv, NEW t \in Threads, Enter(t) PROVE SemInv'
<1>0. Types /\ Local /\ Numbers /\ Hooked /\ Leaves /\ Entries BY DEF SemInv
<1>1. th[t].pc = "enter" /\ stopped = None /\ UNCHANGED <<sems, obj, vnodes, dirlock, tablelock, stopped>> BY DEF Enter, At
<1>2. Alone(t) /\ dirlock = t /\ Hand(t, th[t].num, th[t].sem) /\ th[t].name \in Names BY <1>1, AloneExact DEF Inside
<1>3. PICK x, o : x = th[t].num /\ o = th[t].sem OBVIOUS
<1>4. /\ x \in DOMAIN sems /\ sems[x] = o /\ o \in DOMAIN obj /\ Fresh(x, o)
      /\ (\A k \in DOMAIN dents : dents[k].name # th[t].name) /\ x \notin Entered
  BY <1>1, <1>2, <1>3 DEF Hand
<1>5. CASE UNCHANGED dents /\ (th' = [th EXCEPT ![t].pc = "undo", ![t].op = "open"] \/ Go(t, "undo"))
  <2>1. th[t] \in Thread /\ "undo" \in PCs BY <1>0 DEF Types, PCs, Inside
  <2>2. /\ Only(t) /\ th' \in [Threads -> Thread] /\ th'[t].pc = "undo" /\ th'[t].num = x /\ th'[t].sem = o
        /\ th'[t].hdl = th[t].hdl /\ th'[t].name = th[t].name
    <3>1. CASE Go(t, "undo")
      <4>1. Only(t) /\ th' \in [Threads -> Thread] /\ th'[t].pc = "undo" /\ Same(t) BY <1>0, <2>1, <3>1, GoExact
      <4> QED BY <1>3, <4>1 DEF Same
    <3>2. CASE th' = [th EXCEPT ![t].pc = "undo", ![t].op = "open"]
      <4>1. th'[t] = [th[t] EXCEPT !.pc = "undo", !.op = "open"] /\ Only(t) BY <1>0, <3>2 DEF Types, Only
      <4>2. th'[t] \in Thread BY ONLY <2>1, <4>1 DEF Thread
      <4>3. th' \in [Threads -> Thread] BY <1>0, <3>2, <4>2 DEF Types
      <4>4. /\ th'[t].pc = "undo" /\ th'[t].num = th[t].num /\ th'[t].sem = th[t].sem
            /\ th'[t].hdl = th[t].hdl /\ th'[t].name = th[t].name
        BY ONLY <2>1, <4>1 DEF Thread
      <4> QED BY <1>3, <4>1, <4>3, <4>4
    <3> QED BY <1>5, <3>1, <3>2
  <2>3. ThreadOK(t)' BY <1>2, <2>2 DEF ThreadOK
  <2>4. Fresh(x, o)' BY <1>1, <1>4, <2>2 DEF Fresh, Only
  <2>5. Hand(t, x, o)' BY <1>1, <1>4, <2>2, <2>4 DEF Hand
  <2>6. Place(t) BY <1>1, <1>2, <2>2, <2>3, <2>5 DEF Place, Moves, Inside
  <2>7. Alive(o)' BY <2>2 DEF Alive
  <2> QED BY <1>1, <1>2, <1>3, <1>5, <2>2, <2>6, <2>7, InsideAlone DEF Inside
<1>6. ASSUME NEW k, k = First(dents, NoEntry), NEW e, e = [name |-> th[t].name, num |-> th[t].num],
             dents' = Put(dents, k, e), Go(t, "get")
      PROVE  SemInv'
  <2>1. Only(t) /\ th' \in [Threads -> Thread] /\ th'[t].pc = "get" /\ Same(t) BY <1>0, <1>6, GoExact DEF PCs, Inside
  <2>2. x \in Nat \ {0} BY <1>0, <1>4 DEF Types
  <2>3. e \in Entry /\ e.name = th[t].name /\ e.num = x /\ e # NoEntry
    <3>1. e.name = th[t].name /\ e.num = x BY <1>3, <1>6
    <3>2. e \in Entry BY <1>2, <1>3, <1>6, <2>2 DEF Entry
    <3>3. e # NoEntry BY <1>2, <3>1, SemfsAssumption DEF NoEntry
    <3> QED BY <3>1, <3>2, <3>3
  <2>4. dents \in Seq(Entry) BY <1>0 DEF Types
  <2>5. k \in 1..Len(dents) + 1 /\ (k \in DOMAIN dents => dents[k] = NoEntry) BY <1>6, <2>4, FirstExact
  <2>6. dents' \in Seq(Entry) /\ Filled(dents', dents, k, e) BY <1>6, <2>3, <2>4, <2>5, PutExact
  <2>7. k \notin EntryPlaces BY <2>5 DEF EntryPlaces
  <2>8. EntryPlaces' = EntryPlaces \cup {k} /\ dents'[k] = e /\ \A j \in EntryPlaces : dents'[j] = dents[j]
    <3>1. \A j : j \in EntryPlaces' <=> j \in DOMAIN dents' /\ dents'[j] # NoEntry BY DEF EntryPlaces
    <3>2. \A j : j \in EntryPlaces <=> j \in DOMAIN dents /\ dents[j] # NoEntry BY DEF EntryPlaces
    <3> QED BY <2>3, <2>6, <2>7, <3>1, <3>2 DEF Filled
  <2>9. \A y : y \in Entered' <=> y \in Entered \/ y = x
    <3>1. \A y : y \in Entered' <=> \E j \in EntryPlaces' : dents'[j].num = y BY DEF Entered
    <3>2. \A y : y \in Entered <=> \E j \in EntryPlaces : dents[j].num = y BY DEF Entered
    <3> QED BY <2>3, <2>8, <3>1, <3>2
  <2>10. ThreadOK(t)' BY <1>0, <1>1, <1>2, <2>1 DEF Local, ThreadOK, Same
  <2>11. Hand(t, x, o)'
    <3>1. Fresh(x, o)' BY <1>1, <1>4, <2>1 DEF Fresh, Only
    <3> QED BY <1>1, <1>4, <2>1, <2>9, <3>1 DEF Hand
  <2>12. Place(t) BY <1>1, <1>2, <1>3, <2>1, <2>10, <2>11 DEF Place, Moves, Inside, Same
  <2>13. LeavesOn BY <1>0, <1>1 DEF LeavesOn, Leaves, Leaving
  <2>14. Local' /\ Leaves' /\ Hands' /\ Refs' BY <1>1, <1>2, <2>12, <2>13, InsideCommon DEF Inside, Place
  <2>15. AllAlive'
    <3>1. Alive(o)' BY <1>3, <2>1 DEF Alive, Same
    <3>2. \A p \in DOMAIN obj : p # o => Carried(t, p) BY <1>1, <1>3 DEF Carried
    <3> QED BY <1>1, <1>2, <2>12, <2>13, <3>1, <3>2, AliveOn DEF Inside, Place
  <2>16. Numbers' /\ Hooked' BY <1>0, <1>1 DEF Numbers, Hooked
  <2>17. Linked' = Linked BY <1>1 DEF Linked
  <2>18. Entries'
    <3>1. \A j \in EntryPlaces' : dents'[j].num # 0 BY <1>0, <2>2, <2>3, <2>8 DEF Entries
    <3>2. \A j \in EntryPlaces : dents[j].name # th[t].name /\ dents[j].num # x BY <1>4 DEF EntryPlaces, Entered
    <3>3. ASSUME NEW i \in EntryPlaces', NEW j \in EntryPlaces', dents'[i].name = dents'[j].name \/ dents'[i].num = dents'[j].num
          PROVE  i = j
      <4>1. CASE i \in EntryPlaces /\ j \in EntryPlaces BY <1>0, <2>8, <3>3, <4>1 DEF Entries
      <4>2. CASE i = k \/ j = k BY <2>3, <2>8, <3>2, <3>3, <4>2
      <4> QED BY <2>8, <4>1, <4>2
    <3>4. ASSUME NEW y \in Entered' \cup Linked', dirlock' = None \/ y # th'[dirlock'].num PROVE y \in Entered' <=> y \in Linked'
      <4>1. y # x BY <1>1, <1>2, <1>3, <2>1, <3>4, SemfsAssumption DEF Same
      <4>2. y \in Entered \cup Linked BY <2>9, <2>17, <3>4, <4>1
      <4>3. y \in Entered <=> y \in Linked BY <1>0, <1>2, <1>3, <4>1, <4>2 DEF Entries
      <4> QED BY <2>9, <2>17, <4>1, <4>3
    <3> QED BY <3>1, <3>3, <3>4 DEF Entries
  <2>19. \A u \in Threads : (th'[u].pc = "asleep" <=> th[u].pc = "asleep") /\ th'[u].hdl = th[u].hdl BY <1>1, <2>1 DEF Only, Same
  <2>20. Queues' BY <1>1, <2>19, QueuesKept
  <2>21. Types' BY <1>0, <1>1, <2>1, <2>6 DEF Types
  <2> QED BY <2>14, <2>15, <2>16, <2>18, <2>20, <2>21 DEF SemInv
<1> QED BY <1>5, <1>6 DEF Enter

\* The vnode of the semaphore found or made (semfs_getvnode).
LEMMA GetStep == ASSUME SemInv, NEW t \in Threads, Get(t) PROVE SemInv'
<1>0. Types /\ Local /\ Refs /\ Numbers /\ Hooked /\ Entries BY DEF SemInv
<1>1. th[t].pc = "get" /\ stopped = None /\ tablelock = None /\ UNCHANGED <<sems, dents, tablelock, stopped>>
  BY DEF Get, At, GetVnode, NoVnode
<1>2. Alone(t) /\ dirlock = t /\ Hand(t, th[t].num, th[t].sem) /\ th[t].name \in Names BY <1>1, AloneExact DEF Inside
<1>3. PICK x, o : x = th[t].num /\ o = th[t].sem OBVIOUS
<1>4. x \in DOMAIN sems /\ sems[x] = o /\ o \in DOMAIN obj /\ x \in Entered /\ (obj[o].linked \/ Fresh(x, o))
  BY <1>1, <1>2, <1>3 DEF Hand
<1>5. x \in Nat \ {0} /\ o # 0 /\ th[t].hdl = 0 /\ th[t] \in Thread BY <1>0, <1>1, <1>4 DEF Types, Local, ThreadOK
<1>6. CASE NoVnode(x) /\ UNCHANGED obj /\ obj[o].linked /\ dirlock' = None /\ PutRoot(t)
  <2>1. /\ Only(t) /\ th' \in [Threads -> Thread] /\ th'[t].pc = "put" /\ th'[t].num = ROOT
        /\ th'[t].hdl = th[t].hdl /\ ThreadOK(t)'
    BY <1>0, <1>6, PutRootExact
  <2>2. Place(t) BY <1>6, <2>1 DEF Place, Moves
  <2>3. dirlock' # t BY <1>6, SemfsAssumption
  <2>4. x \in Linked BY <1>4, <1>5, <1>6 DEF Linked
  <2>5. \A y \in Entered \cup Linked : y \in Entered <=> y \in Linked BY <1>0, <1>2, <1>3, <1>4, <2>4 DEF Entries
  <2>6. \A p \in DOMAIN obj : p = th[t].sem => Alive(p)' BY <1>3, <1>6 DEF Alive
  <2>7. vnodes' = vnodes BY <1>6 DEF NoVnode
  <2> QED BY <1>1, <1>2, <1>6, <2>2, <2>3, <2>5, <2>6, <2>7, InsideAlone DEF Inside
<1>7. CASE NoVnode(x) /\ UNCHANGED obj /\ ~obj[o].linked /\ UNCHANGED dirlock /\ Go(t, "undo")
  <2>1. Only(t) /\ th' \in [Threads -> Thread] /\ th'[t].pc = "undo" /\ Same(t) BY <1>0, <1>7, GoExact DEF PCs, Inside
  <2>2. vnodes' = vnodes BY <1>7 DEF NoVnode
  <2>3. ThreadOK(t)' BY <1>2, <2>1 DEF ThreadOK, Same
  <2>4. Fresh(x, o)' BY <1>1, <1>4, <1>7, <2>1 DEF Fresh, Only
  <2>5. Hand(t, x, o)' BY <1>1, <1>4, <1>7, <2>1, <2>4 DEF Hand
  <2>6. Place(t) BY <1>1, <1>2, <1>3, <1>7, <2>1, <2>3, <2>5 DEF Place, Moves, Inside, Same
  <2>7. \A p \in DOMAIN obj : p = th[t].sem => Alive(p)' BY <2>1 DEF Alive, Same
  <2> QED BY <1>1, <1>2, <1>7, <2>1, <2>2, <2>6, <2>7, InsideAlone DEF Inside, Same
<1>8. ASSUME GetVnode(x), obj' = [obj EXCEPT ![o].hasvnode = TRUE, ![o].linked = TRUE],
             th' = [th EXCEPT ![t].pc = "put", ![t].op = "open", ![t].num = ROOT, ![t].hdl = x], dirlock' = None
      PROVE  SemInv'
  <2>1. th'[t] = [th[t] EXCEPT !.pc = "put", !.op = "open", !.num = ROOT, !.hdl = x] /\ Only(t) BY <1>0, <1>8 DEF Types, Only
  <2>2. th'[t].pc = "put" /\ th'[t].num = ROOT /\ th'[t].hdl = x BY ONLY <1>5, <2>1 DEF Thread
  <2>3. th' \in [Threads -> Thread]
    <3>1. "put" \in PCs /\ ROOT \in Nat /\ x \in Nat BY <1>5 DEF PCs, ROOT
    <3>2. th'[t] \in Thread BY ONLY <1>5, <2>1, <3>1 DEF Thread
    <3> QED BY <1>0, <1>8, <3>2 DEF Types
  <2>4. ThreadOK(t)' BY <2>2 DEF ThreadOK, Inside
  <2>5. Moves(t) BY <1>8, <2>1, <2>2, <2>3, <2>4 DEF Moves
  <2>6. \A u \in Threads : th[u].pc # "unhook" BY <1>1, NobodyLeaves
  <2>7. LeavesOn BY <2>6 DEF LeavesOn
  <2>8. Local' /\ Leaves' /\ Hands' BY <1>1, <1>2, <2>5, <2>7, InsideCommon DEF Inside
  <2>9. ~Holds(t, x) BY <1>1, <1>5 DEF Holds, ROOT
  <2>10. HoldMore(t, x) BY <1>1, <1>5, <2>1, <2>2 DEF Holds, Only, HoldMore, ROOT
  <2>11. /\ Refs' /\ DOMAIN vnodes' = DOMAIN vnodes \cup {x}
         /\ vnodes' \in [DOMAIN vnodes' -> Nat \ {0}] /\ DOMAIN vnodes' \subseteq Nat
    BY <1>0, <1>5, <1>8, <2>9, <2>10, RefsTaken
  <2>12. DOMAIN obj' = DOMAIN obj /\ (\A p \in DOMAIN obj \ {o} : obj'[p] = obj[p])
         /\ obj'[o] = [obj[o] EXCEPT !.hasvnode = TRUE, !.linked = TRUE]
    BY <1>4, <1>8
  <2>13. obj[o] \in Semaphore BY <1>0, <1>4 DEF Types
  <2>14. obj'[o] \in Semaphore /\ obj'[o].hasvnode /\ obj'[o].linked /\ obj'[o].q = obj[o].q /\ obj'[o].lock = obj[o].lock
    <3>1. obj'[o] = [obj[o] EXCEPT !.hasvnode = TRUE, !.linked = TRUE] BY <2>12
    <3> QED BY ONLY <2>13, <3>1 DEF Semaphore
  <2>15. \A k \in DOMAIN sems : sems[k] = o <=> k = x BY <1>0, <1>4, <1>5 DEF Numbers
  <2>16. \A k \in DOMAIN sems : sems[k] # 0 => sems[k] \in DOMAIN obj BY <1>0 DEF Numbers
  <2>17. Types'
    <3>1. obj' = [p \in DOMAIN obj' |-> obj'[p]] BY <1>8
    <3>2. \A p \in DOMAIN obj' : obj'[p] \in Semaphore BY <1>0, <2>12, <2>14 DEF Types
    <3>3. obj' \in [DOMAIN obj' -> Semaphore] BY <3>1, <3>2
    <3> QED BY <1>0, <1>1, <1>8, <2>3, <2>11, <2>12, <3>3 DEF Types
  <2>18. Numbers' BY <1>0, <1>1, <2>12 DEF Numbers
  <2>19. Hooked'
    <3> SUFFICES ASSUME NEW y PROVE y \in DOMAIN vnodes' \ {ROOT} <=> y \in DOMAIN sems /\ sems[y] # 0 /\ obj'[sems[y]].hasvnode
      BY <1>1 DEF Hooked
    <3>1. y \in DOMAIN vnodes \ {ROOT} <=> y \in DOMAIN sems /\ sems[y] # 0 /\ obj[sems[y]].hasvnode BY <1>0 DEF Hooked
    <3> QED BY <1>4, <1>5, <2>11, <2>12, <2>14, <2>15, <2>16, <3>1 DEF ROOT
  <2>20. Entered' = Entered /\ EntryPlaces' = EntryPlaces BY <1>1 DEF Entered, EntryPlaces
  <2>21. \A y : y \in Linked' <=> y \in Linked \/ y = x
    <3>1. \A y : y \in Linked <=> y \in DOMAIN sems /\ sems[y] # 0 /\ obj[sems[y]].linked BY DEF Linked
    <3>2. \A y : y \in Linked' <=> y \in DOMAIN sems /\ sems[y] # 0 /\ obj'[sems[y]].linked BY <1>1 DEF Linked
    <3> QED BY <1>4, <1>5, <2>12, <2>14, <2>15, <2>16, <3>1, <3>2
  <2>22. Entries'
    <3>1. ASSUME NEW y \in Entered \cup Linked' PROVE y \in Entered <=> y \in Linked'
      <4>1. CASE y = x BY <1>4, <2>21, <4>1
      <4>2. CASE y # x BY <1>0, <1>2, <1>3, <2>21, <3>1, <4>2 DEF Entries
      <4> QED BY <4>1, <4>2
    <3> QED BY <1>0, <1>1, <2>20, <3>1 DEF Entries
  <2>23. AllAlive'
    <3>1. Alive(o)' BY <2>14 DEF Alive
    <3>2. \A p \in DOMAIN obj : p # o => Carried(t, p) BY <1>3, <2>12 DEF Carried
    <3> QED BY <1>1, <1>2, <2>5, <2>7, <2>12, <3>1, <3>2, AliveOn DEF Inside
  <2>24. Queues'
    <3>1. \A u \in Threads : th'[u].pc = "asleep" <=> th[u].pc = "asleep" BY <1>1, <2>1, <2>2 DEF Only
    <3>2. \A u \in Threads : th[u].pc = "asleep" => th'[u].hdl = th[u].hdl /\ sems'[th[u].hdl] = sems[th[u].hdl]
      BY <1>1, <2>1 DEF Only
    <3>3. \A p \in DOMAIN obj : p \in DOMAIN obj' /\ obj'[p].q = obj[p].q BY <2>12, <2>14
    <3> QED BY <2>12, <3>1, <3>2, <3>3, QueuesKept
  <2> QED BY <2>8, <2>11, <2>17, <2>18, <2>19, <2>22, <2>23, <2>24 DEF SemInv
<1> QED BY <1>3, <1>6, <1>7, <1>8 DEF Get

\* The directory without the entries of a number.
Cleared(x) == [k \in DOMAIN dents |-> IF dents[k].num = x THEN NoEntry ELSE dents[k]]

LEMMA ClearedExact ==
  ASSUME Types, NEW x \in Nat \ {0}, dents' = Cleared(x)
  PROVE  /\ dents' \in Seq(Entry)
         /\ EntryPlaces' \subseteq EntryPlaces /\ \A k \in EntryPlaces' : dents'[k] = dents[k]
         /\ \A y : y \in Entered' <=> y \in Entered /\ y # x
<1>1. dents \in Seq(Entry) BY DEF Types
<1>2. Len(dents) \in Nat /\ DOMAIN dents = 1..Len(dents) BY <1>1
<1>3. NoEntry \in Entry /\ NoEntry.num = 0 BY DEF NoEntry, Entry
<1>4. \A k \in 1..Len(dents) : (IF dents[k].num = x THEN NoEntry ELSE dents[k]) \in Entry BY <1>1, <1>2, <1>3
<1>5. dents' \in Seq(Entry) BY <1>2, <1>4 DEF Cleared
<1>6. \A k : k \in EntryPlaces' <=> k \in DOMAIN dents' /\ dents'[k] # NoEntry BY DEF EntryPlaces
<1>7. \A k : k \in EntryPlaces <=> k \in DOMAIN dents /\ dents[k] # NoEntry BY DEF EntryPlaces
<1>8. \A k : k \in EntryPlaces' <=> k \in EntryPlaces /\ dents[k].num # x BY <1>3, <1>6, <1>7 DEF Cleared
<1>9. \A k \in EntryPlaces' : dents'[k] = dents[k] BY <1>6, <1>8 DEF Cleared
<1>10. \A y : y \in Entered' <=> \E k \in EntryPlaces' : dents'[k].num = y BY DEF Entered
<1>11. \A y : y \in Entered <=> \E k \in EntryPlaces : dents[k].num = y BY DEF Entered
<1>12. EntryPlaces' \subseteq EntryPlaces BY <1>8
<1>13. \A y : y \in Entered' <=> y \in Entered /\ y # x BY <1>8, <1>9, <1>10, <1>11
<1> QED BY <1>5, <1>9, <1>12, <1>13

\* The entry in hand goes, and the directory is unlocked.
LEMMA UnenterExact ==
  ASSUME SemInv, NEW t \in Threads, th[t].pc \in {"undo", "drop", "destroy"}, NEW x, x = th[t].num,
         dents' = Cleared(x),
         dirlock' = None, PutRoot(t), UNCHANGED <<vnodes, tablelock, stopped>>,
         Linked' = Linked, LeavesOn, \A o \in DOMAIN obj' : Alive(o)' \/ Carried(t, o)
  PROVE  /\ Local' /\ Leaves' /\ Hands' /\ Refs' /\ Entries' /\ AllAlive'
         /\ dents' \in Seq(Entry) /\ th' \in [Threads -> Thread]
         /\ \A u \in Threads : (th'[u].pc = "asleep" <=> th[u].pc = "asleep") /\ th'[u].hdl = th[u].hdl
<1>0. Types /\ Entries BY DEF SemInv
<1>1. th[t].pc \in Inside BY DEF Inside
<1>2. Alone(t) /\ dirlock = t /\ Hand(t, x, th[t].sem) BY <1>1, AloneExact
<1>3. x \in Nat \ {0} /\ ~obj[sems[x]].linked
  <2>1. x \in DOMAIN sems /\ ~obj[sems[x]].linked BY <1>2 DEF Hand, Fresh
  <2> QED BY <1>0, <2>1 DEF Types
<1>4. x \notin Linked BY <1>3 DEF Linked
<1>5. /\ Only(t) /\ th' \in [Threads -> Thread] /\ th'[t].pc = "put" /\ th'[t].num = ROOT
      /\ th'[t].hdl = th[t].hdl /\ ThreadOK(t)'
  BY <1>0, PutRootExact
<1>6. Place(t) BY <1>5 DEF Place, Moves
<1>7. Local' /\ Leaves' /\ Hands' /\ Refs' BY <1>1, <1>2, <1>6, InsideCommon DEF Place
<1>8. AllAlive' BY <1>1, <1>2, <1>6, AliveOn DEF Place
<1>9. /\ dents' \in Seq(Entry)
      /\ EntryPlaces' \subseteq EntryPlaces /\ (\A k \in EntryPlaces' : dents'[k] = dents[k])
      /\ \A y : y \in Entered' <=> y \in Entered /\ y # x
  BY <1>0, <1>3, ClearedExact
<1>10. Entries'
  <2>1. \A k \in EntryPlaces' : dents'[k].num # 0 BY <1>0, <1>9 DEF Entries
  <2>2. \A j, k \in EntryPlaces' : dents'[j].name = dents'[k].name \/ dents'[j].num = dents'[k].num => j = k
    <3> SUFFICES ASSUME NEW j \in EntryPlaces', NEW k \in EntryPlaces', dents'[j].name = dents'[k].name \/ dents'[j].num = dents'[k].num
                 PROVE  j = k
      OBVIOUS
    <3>1. j \in EntryPlaces /\ k \in EntryPlaces /\ dents'[j] = dents[j] /\ dents'[k] = dents[k] BY <1>9
    <3> QED BY <1>0, <3>1 DEF Entries
  <2>3. \A y \in Entered' \cup Linked' : y \in Entered' <=> y \in Linked' BY <1>0, <1>2, <1>4, <1>9 DEF Entries
  <2> QED BY <2>1, <2>2, <2>3 DEF Entries
<1>11. \A u \in Threads : (th'[u].pc = "asleep" <=> th[u].pc = "asleep") /\ th'[u].hdl = th[u].hdl BY <1>5 DEF Only
<1> QED BY <1>5, <1>7, <1>8, <1>9, <1>10, <1>11

\* A semaphore goes with its entry.
LEMMA GoneStep ==
  ASSUME SemInv, NEW t \in Threads, th[t].pc \in {"undo", "destroy"}, stopped = None, tablelock = None,
         NEW x, x = th[t].num, NEW o, o = th[t].sem,
         dents' = Cleared(x),
         sems' = [sems EXCEPT ![x] = 0], obj' = Without(obj, o),
         dirlock' = None, PutRoot(t), UNCHANGED <<vnodes, tablelock, stopped>>
  PROVE  SemInv'
<1>0. Types BY DEF SemInv
<1>1. Hand(t, x, o) BY AloneExact DEF Inside
<1>2. x \in DOMAIN sems /\ sems[x] = o /\ o \in DOMAIN obj /\ ~obj[o].linked /\ ~obj[o].hasvnode BY <1>1 DEF Hand, Fresh
<1>3. /\ Only(t) /\ th' \in [Threads -> Thread] /\ th'[t].pc = "put" /\ th'[t].hdl = th[t].hdl
  BY <1>0, PutRootExact
<1>4. \A u \in Threads : (th'[u].pc = "asleep" <=> th[u].pc = "asleep") /\ th'[u].hdl = th[u].hdl BY <1>3 DEF Only
<1>5. /\ sems' \in Seq(Nat) /\ obj' \in [DOMAIN obj' -> Semaphore] /\ IsFiniteSet(DOMAIN obj') /\ DOMAIN obj' \subseteq Nat \ {0}
      /\ DOMAIN obj' = DOMAIN obj \ {o} /\ (\A p \in DOMAIN obj' : obj'[p] = obj[p])
      /\ Numbers' /\ Hooked' /\ Queues' /\ Linked' = Linked
  <2>1. o = sems[x] /\ vnodes' = vnodes BY <1>2
  <2>2. sems' = [sems EXCEPT ![x] = 0] /\ obj' = Without(obj, o) OBVIOUS
  <2> QED BY ONLY SemInv, <1>2, <1>4, <2>1, <2>2, RemovedExact
<1>6. LeavesOn BY NobodyLeaves DEF LeavesOn
<1>7. \A p \in DOMAIN obj' : Carried(t, p) BY <1>5 DEF Carried
<1>8. Local' /\ Leaves' /\ Hands' /\ Refs' /\ Entries' /\ AllAlive' /\ dents' \in Seq(Entry) /\ th' \in [Threads -> Thread]
  BY <1>5, <1>6, <1>7, UnenterExact
<1>9. Types' BY <1>0, <1>5, <1>8 DEF Types
<1> QED BY <1>5, <1>8, <1>9 DEF SemInv

LEMMA UndoStep == ASSUME SemInv, NEW t \in Threads, Undo(t) PROVE SemInv'
BY GoneStep DEF Undo, At, Cleared

LEMMA DestroyStep == ASSUME SemInv, NEW t \in Threads, Destroy(t) PROVE SemInv'
BY GoneStep DEF Destroy, Unenter, At, Cleared

\* The name is taken from the semaphore (semfs_remove).
LEMMA UnlinkStep == ASSUME SemInv, NEW t \in Threads, Unlink(t) PROVE SemInv'
<1>0. Types /\ Local /\ Numbers /\ Hooked /\ Leaves /\ Entries BY DEF SemInv
<1>1. th[t].pc = "unlink" /\ UNCHANGED <<sems, dents, vnodes, dirlock, tablelock, stopped>> BY DEF Unlink, At
<1>2. Alone(t) /\ dirlock = t /\ Hand(t, th[t].num, th[t].sem) /\ th[t].name \in Names BY <1>1, AloneExact DEF Inside
<1>3. PICK x, o : x = th[t].num /\ o = th[t].sem OBVIOUS
<1>4. x \in DOMAIN sems /\ sems[x] = o /\ o \in DOMAIN obj /\ o # 0 BY <1>0, <1>1, <1>2, <1>3 DEF Hand, Types
<1>5. Only(t) /\ th' \in [Threads -> Thread] /\ th'[t].pc = "drop" /\ Same(t) BY <1>0, GoExact DEF Unlink, PCs, Inside
<1>6. /\ DOMAIN obj' = DOMAIN obj /\ (\A p \in DOMAIN obj \ {o} : obj'[p] = obj[p])
      /\ obj'[o] = [obj[o] EXCEPT !.lock = t, !.linked = FALSE]
  BY <1>3, <1>4 DEF Unlink
<1>7. obj[o] \in Semaphore BY <1>0, <1>4 DEF Types
<1>8. obj'[o] \in Semaphore /\ ~obj'[o].linked /\ obj'[o].lock = t /\ obj'[o].hasvnode = obj[o].hasvnode /\ obj'[o].q = obj[o].q
  <2>1. obj'[o] = [obj[o] EXCEPT !.lock = t, !.linked = FALSE] BY <1>6
  <2> QED BY ONLY <1>7, <2>1, t \in Threads DEF Semaphore
<1>9. \A k \in DOMAIN sems : sems[k] = o <=> k = x BY <1>0, <1>4 DEF Numbers
<1>10. \A k \in DOMAIN sems : sems[k] # 0 => sems[k] \in DOMAIN obj BY <1>0 DEF Numbers
<1>11. ThreadOK(t)' BY <1>2, <1>5 DEF ThreadOK, Same
<1>12. Hand(t, x, o)' BY <1>1, <1>4, <1>5, <1>6, <1>8, SemfsAssumption DEF Hand
<1>13. Place(t) BY <1>1, <1>2, <1>3, <1>5, <1>11, <1>12 DEF Place, Moves, Inside, Same
<1>14. LeavesOn BY <1>0, <1>1, <1>6, <1>8 DEF LeavesOn, Leaves, Leaving
<1>15. Local' /\ Leaves' /\ Hands' /\ Refs' BY <1>1, <1>2, <1>13, <1>14, InsideCommon DEF Inside, Place
<1>16. AllAlive'
  <2>1. Alive(o)' BY <1>3, <1>5 DEF Alive, Same
  <2>2. \A p \in DOMAIN obj : p # o => Carried(t, p) BY <1>3, <1>6 DEF Carried
  <2> QED BY <1>1, <1>2, <1>6, <1>13, <1>14, <2>1, <2>2, AliveOn DEF Inside, Place
<1>17. Types'
  <2>1. obj' = [p \in DOMAIN obj' |-> obj'[p]] BY DEF Unlink
  <2>2. \A p \in DOMAIN obj' : obj'[p] \in Semaphore BY <1>0, <1>6, <1>8 DEF Types
  <2>3. obj' \in [DOMAIN obj' -> Semaphore] BY <2>1, <2>2
  <2> QED BY <1>0, <1>1, <1>5, <1>6, <2>3 DEF Types
<1>18. Numbers' BY <1>0, <1>1, <1>6 DEF Numbers
<1>19. Hooked' BY <1>0, <1>1, <1>6, <1>8, <1>10 DEF Hooked
<1>20. Entries'
  <2>1. Entered' = Entered /\ EntryPlaces' = EntryPlaces BY <1>1 DEF Entered, EntryPlaces
  <2>2. \A y : y \in Linked <=> y \in DOMAIN sems /\ sems[y] # 0 /\ obj[sems[y]].linked BY DEF Linked
  <2>3. \A y : y \in Linked' <=> y \in DOMAIN sems /\ sems[y] # 0 /\ obj'[sems[y]].linked BY <1>1 DEF Linked
  <2>4. \A y : y # x => (y \in Linked' <=> y \in Linked) BY <1>6, <1>9, <1>10, <2>2, <2>3
  <2>5. ASSUME NEW y \in Entered \cup Linked', dirlock' = None \/ y # th'[dirlock'].num PROVE y \in Entered <=> y \in Linked'
    <3>1. y # x BY <1>1, <1>2, <1>3, <1>5, <2>5, SemfsAssumption DEF Same
    <3> QED BY <1>0, <1>2, <1>3, <2>4, <2>5, <3>1 DEF Entries
  <2> QED BY <1>0, <1>1, <2>1, <2>5 DEF Entries
<1>21. Queues'
  <2>1. \A u \in Threads : (th'[u].pc = "asleep" <=> th[u].pc = "asleep") /\ th'[u].hdl = th[u].hdl BY <1>1, <1>5 DEF Only, Same
  <2>2. \A p \in DOMAIN obj : p \in DOMAIN obj' /\ obj'[p].q = obj[p].q BY <1>6, <1>8
  <2> QED BY <1>1, <1>6, <2>1, <2>2, QueuesKept
<1> QED BY <1>15, <1>16, <1>17, <1>18, <1>19, <1>20, <1>21 DEF SemInv

\* The entry goes; the semaphore stays for whoever has it open.
LEMMA DropStep == ASSUME SemInv, NEW t \in Threads, Drop(t) PROVE SemInv'
<1>0. Types /\ Local /\ Numbers /\ Hooked /\ Leaves /\ Entries BY DEF SemInv
<1>1. th[t].pc = "drop" /\ UNCHANGED <<sems, vnodes, tablelock, stopped>> BY DEF Drop, At
<1>2. Alone(t) /\ dirlock = t /\ Hand(t, th[t].num, th[t].sem) /\ th[t].name \in Names BY <1>1, AloneExact DEF Inside
<1>3. PICK x, o : x = th[t].num /\ o = th[t].sem OBVIOUS
<1>4. x \in DOMAIN sems /\ sems[x] = o /\ o \in DOMAIN obj /\ ~obj[o].linked /\ obj[o].lock # None BY <1>1, <1>2, <1>3 DEF Hand
<1>5. CASE obj[o].hasvnode
  <2>1. obj' = [obj EXCEPT ![o].lock = None] /\ Unenter(t) BY <1>3, <1>5 DEF Drop
  <2>2. obj[o] \in Semaphore BY <1>0, <1>4 DEF Types
  <2>3. /\ DOMAIN obj' = DOMAIN obj /\ (\A p \in DOMAIN obj \ {o} : obj'[p] = obj[p])
        /\ obj'[o] = [obj[o] EXCEPT !.lock = None]
    BY <1>4, <2>1
  <2>4. /\ obj'[o] \in Semaphore /\ obj'[o].linked = obj[o].linked /\ obj'[o].hasvnode = obj[o].hasvnode
        /\ obj'[o].q = obj[o].q
    <3>1. obj'[o] = [obj[o] EXCEPT !.lock = None] BY <2>3
    <3> QED BY ONLY <2>2, <3>1 DEF Semaphore
  <2>5. \A k \in DOMAIN sems : sems[k] # 0 => sems[k] \in DOMAIN obj BY <1>0 DEF Numbers
  <2>6. Linked' = Linked BY <1>1, <2>3, <2>4, <2>5 DEF Linked
  <2>7. LeavesOn BY <1>0, <1>1, <2>3, <2>4 DEF LeavesOn, Leaves, Leaving
  <2>8. \A p \in DOMAIN obj' : Alive(p)' \/ Carried(t, p)
    <3>1. Alive(o)' BY <1>5, <2>4 DEF Alive
    <3>2. \A p \in DOMAIN obj : p # o => Carried(t, p) BY <1>3, <2>3 DEF Carried
    <3> QED BY <2>3, <3>1, <3>2
  <2>9. /\ Local' /\ Leaves' /\ Hands' /\ Refs' /\ Entries' /\ AllAlive' /\ dents' \in Seq(Entry) /\ th' \in [Threads -> Thread]
        /\ \A u \in Threads : (th'[u].pc = "asleep" <=> th[u].pc = "asleep") /\ th'[u].hdl = th[u].hdl
    BY <1>1, <2>1, <2>6, <2>7, <2>8, UnenterExact DEF Unenter, Cleared
  <2>10. Types'
    <3>1. obj' = [p \in DOMAIN obj' |-> obj'[p]] BY <2>1
    <3>2. \A p \in DOMAIN obj' : obj'[p] \in Semaphore BY <1>0, <2>3, <2>4 DEF Types
    <3>3. obj' \in [DOMAIN obj' -> Semaphore] BY <3>1, <3>2
    <3> QED BY <1>0, <1>1, <2>1, <2>3, <2>9, <3>3 DEF Types, Unenter
  <2>11. Numbers' BY <1>0, <1>1, <2>3 DEF Numbers
  <2>12. Hooked' BY <1>0, <1>1, <2>3, <2>4, <2>5 DEF Hooked
  <2>13. Queues'
    <3>1. \A p \in DOMAIN obj : p \in DOMAIN obj' /\ obj'[p].q = obj[p].q BY <2>3, <2>4
    <3> QED BY <1>1, <2>3, <2>9, <3>1, QueuesKept
  <2> QED BY <2>9, <2>10, <2>11, <2>12, <2>13 DEF SemInv
<1>6. CASE ~obj[o].hasvnode
  <2>1. Go(t, "destroy") /\ UNCHANGED <<obj, dents, dirlock>> BY <1>3, <1>6 DEF Drop
  <2>2. Only(t) /\ th' \in [Threads -> Thread] /\ th'[t].pc = "destroy" /\ Same(t) BY <1>0, <2>1, GoExact DEF PCs, Inside
  <2>3. ThreadOK(t)' BY <1>2, <2>2 DEF ThreadOK, Same
  <2>4. Hand(t, x, o)' BY <1>1, <1>4, <1>6, <2>1, <2>2 DEF Hand
  <2>5. Place(t) BY <1>2, <1>3, <2>1, <2>2, <2>3, <2>4 DEF Place, Moves, Inside, Same
  <2>6. \A p \in DOMAIN obj : p = th[t].sem => Alive(p)' BY <2>2 DEF Alive, Same
  <2> QED BY <1>1, <1>2, <2>1, <2>2, <2>5, <2>6, InsideAlone DEF Inside, Same
<1> QED BY <1>5, <1>6
-----------------------------------------------------------------------------
(* The theorems. *)

LEMMA InitSem == ASSUME Init PROVE SemInv
<1>1. /\ sems = <<>> /\ obj = <<>> /\ dents = <<>> /\ vnodes = <<>>
      /\ dirlock = None /\ tablelock = None /\ th = [t \in Threads |-> Idle]
  BY DEF Init
<1>2. DOMAIN sems = {} /\ DOMAIN obj = {} /\ DOMAIN dents = {} /\ DOMAIN vnodes = {} BY <1>1
<1>3. \A t \in Threads : th[t].pc = "idle" /\ th[t].num = 0 /\ th[t].hdl = 0 /\ th[t] \in Thread
  <2>1. Idle \in Thread BY DEF Idle, Thread, PCs
  <2>2. Idle.pc = "idle" /\ Idle.num = 0 /\ Idle.hdl = 0 BY DEF Idle
  <2> QED BY <1>1, <2>1, <2>2
<1>4. Types
  <2>1. obj \in [DOMAIN obj -> Semaphore] /\ vnodes \in [DOMAIN vnodes -> Nat \ {0}] BY <1>1
  <2>2. IsFiniteSet(DOMAIN obj) BY <1>2, FS_EmptySet
  <2>3. th \in [Threads -> Thread] BY <1>1, <1>3
  <2> QED BY <1>1, <1>2, <2>1, <2>2, <2>3 DEF Types
<1>5. Local BY <1>3 DEF Local, ThreadOK, Inside
<1>6. Refs BY <1>2, <1>3 DEF Refs, Holds, ROOT
<1>7. Numbers /\ Hooked /\ AllAlive BY <1>2 DEF Numbers, Hooked, AllAlive
<1>8. Leaves BY <1>3 DEF Leaves
<1>9. Hands BY <1>1, <1>3, SemfsAssumption DEF Hands, Inside
<1>10. Entries BY <1>2 DEF Entries, EntryPlaces, Entered, Linked
<1>11. Queues BY <1>2, <1>3 DEF Queues
<1> QED BY <1>4, <1>5, <1>6, <1>7, <1>8, <1>9, <1>10, <1>11 DEF SemInv

LEMMA WorkStep == ASSUME SemInv, NEW t \in Threads, Work(t) PROVE SemInv'
<1>1. CASE semfs_getroot(t) \/ Search(t) \/ Make(t) \/ Enter(t) \/ Get(t) \/ Undo(t)
  BY <1>1, RootStep, SearchStep, MakeStep, EnterStep, GetStep, UndoStep
<1>2. CASE Unlink(t) \/ Drop(t) \/ Destroy(t) BY <1>2, UnlinkStep, DropStep, DestroyStep
<1>3. CASE VOP_DECREF(t) \/ semfs_reclaim(t) \/ Unhook(t) BY <1>3, DecrefStep, ReclaimStep, UnhookStep
<1>4. CASE semfs_read(t) \/ Opened(t) BY <1>4, ReadStep, OpenedStep
<1> QED BY <1>1, <1>2, <1>3, <1>4 DEF Work

LEMMA NextSem == ASSUME SemInv, [Next]_vars PROVE SemInv'
<1>1. CASE UNCHANGED vars BY <1>1, StopStep DEF vars
<1>2. CASE semfs_unmount BY <1>2, UnmountStep
<1>3. ASSUME NEW t \in Threads, Begin(t) \/ Work(t) \/ \E n \in Amounts : semfs_write(t, n) PROVE SemInv'
  BY <1>3, BeginStep, WorkStep, WriteStep
<1> QED BY <1>1, <1>2, <1>3 DEF Next

\* The inductive invariant: what a thread found under the directory's lock, the
\* counts of references and the numbers of semaphores stay true at every step of
\* the others (semfs_dirlock, semfs_tablelock, sems_lock).
THEOREM SemInvariant == Spec => []SemInv
<1>1. Init => SemInv BY InitSem
<1>2. SemInv /\ [Next]_vars => SemInv' BY NextSem
<1> QED BY <1>1, <1>2, PTL DEF Spec

LEMMA OneNumber == ASSUME SemInv, NEW o \in DOMAIN obj PROVE Cardinality({k \in DOMAIN sems : sems[k] = o}) = 1
<1>0. Types /\ Numbers BY DEF SemInv
<1>1. PICK k \in DOMAIN sems : sems[k] = o BY <1>0 DEF Numbers
<1>2. o # 0 BY <1>0 DEF Types
<1>3. \A j \in DOMAIN sems : sems[j] = o => j = k BY <1>0, <1>1, <1>2 DEF Numbers
<1>4. {j \in DOMAIN sems : sems[j] = o} = {k} BY <1>1, <1>3
<1> QED BY <1>4, FS_Singleton

LEMMA SemsAgree == ASSUME SemInv PROVE SemaphoresExact
<1>0. Types /\ Refs /\ Numbers /\ Entries /\ AllAlive /\ Queues BY DEF SemInv
<1>1. TypeOK
  <2>1. \A o \in DOMAIN obj : obj[o].count \in 0..MaxCount BY <1>0 DEF Types, Semaphore
  <2> QED BY <1>0, <2>1 DEF TypeOK, Numbers, Types, Queues
<1>2. RefsExact BY <1>0 DEF RefsExact, Refs
<1>3. SemsExact
  <2>1. ASSUME NEW o \in DOMAIN obj
        PROVE  /\ Cardinality({k \in DOMAIN sems : sems[k] = o}) = 1
               /\ Alive(o)
    BY <1>0, OneNumber DEF AllAlive
  <2>2. \A t \in Threads : th[t].hdl # 0 => sems[th[t].hdl] # 0 /\ obj[sems[th[t].hdl]].hasvnode BY OpenExact DEF Sem
  <2> QED BY <2>1, <2>2 DEF SemsExact, Alive
<1>4. NamesExact
  <2> SUFFICES ASSUME dirlock = None
               PROVE  /\ Entered = Linked
                      /\ \A j, k \in EntryPlaces : dents[j].name = dents[k].name \/ dents[j].num = dents[k].num => j = k
    BY DEF NamesExact, Entered, EntryPlaces, Linked
  <2>1. \A x \in Entered \cup Linked : x \in Entered <=> x \in Linked BY <1>0 DEF Entries
  <2> QED BY <1>0, <2>1 DEF Entries
<1> QED BY <1>1, <1>2, <1>3, <1>4 DEF SemaphoresExact

\* The semaphores that exist are those with a name, with a vnode or in the hands
\* of a thread, each under one number; a vnode counts the threads that hold it;
\* with the directory unlocked its names are those of the linked semaphores
\* (semfs_creat, semfs_remove, semfs_getvnode, semfs_reclaim), whatever opens,
\* closes, removes and failed allocations overlap.
THEOREM SemaphoresAreExact == Spec => []SemaphoresExact
BY SemInvariant, SemsAgree, PTL
=============================================================================
