---------------------------- MODULE ProcsProofs ----------------------------
(***************************************************************************)
(* The processes and their open files, for any number of structures,       *)
(* pids, entries, descriptors, executables and references.  The invariant  *)
(* says where each structure is in its life, that every wait leads to a    *)
(* live process, that while programs wait only for their own children each *)
(* is waited for once, and that while no two opens take one entry a file   *)
(* has a reference for every descriptor and every open in progress.  Its   *)
(* two halves, Structures and OpenFilesSound, are kept by each action in   *)
(* turn; the count of references ties them together.                       *)
(***************************************************************************)
EXTENDS Procs, TLAPS, FiniteSetTheorems, WellFoundedInduction

\* The vnodes of executables, and what a structure, a thread and an entry of
\* the system file table can be.
Exes == {im.vnode : im \in Images}
ProcRecords ==
  [live : BOOLEAN, pid : 0..MaxProc, numthreads : 0..1, sem : 0..1, status : 0..255,
   cwd : Dir \cup {NoVnode}, exe : Exes \cup {NoVnode}]
ThreadRecords ==
  [at : {"none", "start", "forked", "user", "signal"}]
    \cup [at : {"wait"}, tgt : User]
    \cup [at : {"open"}, vn : File, i : Entries \cup {Null}]
    \cup [at : {"io"}, u : [of : Entries, fd : Fd, offset : Nat]]
EntryRecords == [vn : File \cup {NoFile}, offset : Nat, countRef : 0..CountMod-1]

Types ==
  /\ proc \in [Proc -> ProcRecords]
  /\ table \in [0..MaxProc -> Proc \cup {NoProc}]
  /\ last_i \in Pids
  /\ thread \in [Proc -> ThreadRecords]
  /\ menu \in User \cup {NoProc}
  /\ kids \in [Proc -> SUBSET Pids]
  /\ ended \in [Proc -> Nat \cup {NotYet}]
  /\ foreign \in BOOLEAN /\ forked \in BOOLEAN

FileTypes ==
  /\ fileTable \in [Proc -> [Fd -> Entries \cup {Null}]]
  /\ entry \in [Entries -> EntryRecords]
  /\ refs \in [Vnodes -> Nat]
  /\ moved \in [Proc -> [Fd -> Nat]]
  /\ raced \in BOOLEAN

\* A structure's life: the thread it has is starting, in its program, or gone
\* from the process and about to signal; a status is there before its signal.
InProgram == {"forked", "user", "wait", "open", "io"}
Life(p) ==
  /\ ~proc[p].live => proc[p] = Dead /\ thread[p].at = "none" /\ fileTable[p] = NoFiles /\ kids[p] = {}
  /\ proc[p].live => proc[p].pid # 0 /\ proc[p].cwd \in Dir
  /\ thread[p].at \in InProgram \cup {"start"} => proc[p].live /\ proc[p].numthreads = 1 /\ proc[p].sem = 0
  /\ thread[p].at = "start" => proc[p].exe = NoVnode
  /\ thread[p].at \in InProgram \cup {"signal"} => proc[p].exe \in Exes
  /\ thread[p].at = "signal" => proc[p].live /\ proc[p].numthreads = 0 /\ proc[p].sem = 0
  /\ thread[p].at = "none" => proc[p].numthreads = 0
  /\ thread[p].at = "signal" \/ proc[p].sem = 1 =>
       ended[p] # NotYet /\ proc[p].status = ended[p] % 256

\* The kernel's own process stays, with pid 1.
Kernel ==
  /\ proc[kproc].live /\ proc[kproc].pid = 1 /\ proc[kproc].sem = 0 /\ proc[kproc].exe = NoVnode
  /\ thread[kproc].at = "none"
Lives == Kernel /\ (\A p \in Proc : Life(p)) /\ table[0] = NoProc

\* Whoever waits waits for a process that has not been destroyed.
WaitsLive ==
  /\ \A w \in User : thread[w].at = "wait" => proc[thread[w].tgt].live
  /\ menu # NoProc => proc[menu].live

\* While programs wait only for their own children, a child has one waiter at
\* most, is in its pid slot until waited for, and has one parent.
Family == ~foreign =>
  /\ \A q \in User, v, w \in Proc : v \in Waiters(q) /\ w \in Waiters(q) => v = w
  /\ \A p \in Proc : \A pid \in kids[p] : table[pid] \in User /\ Waiters(table[pid]) = {}
  /\ \A p, q \in Proc : p # q => kids[p] \cap kids[q] = {}

\* A transfer works on the entry its descriptor still names, whose offset is
\* where the transfer began.
Reading == \A p \in User : thread[p].at = "io" =>
  LET u == thread[p].u IN
  fileTable[p][u.fd] = u.of /\ (raced \/ entry[u.of].offset = u.offset)

\* Who holds a reference to the vnode of a file: descriptor x[2] of x[1], or
\* the open in progress of x[1].  No file is held more often than is counted.
Holds(x, v) ==
  IF x[2] = -1 THEN thread[x[1]].at = "open" /\ thread[x[1]].vn = v
  ELSE fileTable[x[1]][x[2]] # Null /\ entry[fileTable[x[1]][x[2]]].vn = v
Holders(v) == {x \in Proc \X (Fd \cup {-1}) : Holds(x, v)}
Held == raced \/ \A v \in File : Cardinality(Holders(v)) <= refs[v]

\* The inductive invariant.
IInv == /\ Types /\ FileTypes /\ Lives /\ PidsExact /\ WaitsLive /\ Family
        /\ Reading /\ Held /\ DescriptorsSound /\ VnodesCounted /\ StopsHonest

\* FiniteSetsExt's Min of some numbers is the least of them.
LEMMA MinIsLeast ==
  ASSUME NEW S, S \subseteq Nat, S # {}
  PROVE  Min(S) \in S /\ \A y \in S : Min(S) <= y
<1>1. IsWellFoundedOn(OpToRel(<, Nat), Nat)
  BY NatLessThanWellFounded
<1>2. PICK x \in S : \A y \in S : ~(<<y, x>> \in OpToRel(<, Nat))
  BY <1>1, WFMin
<1>3. \A y \in S : x <= y
  <2> TAKE y \in S
  <2>1. x \in Nat /\ y \in Nat
    OBVIOUS
  <2>2. <<y, x>> \in Nat \X Nat /\ <<y, x>>[1] = y /\ <<y, x>>[2] = x
    BY <2>1
  <2>3. ~(y < x)
    BY <1>2, <2>2 DEF OpToRel
  <2> QED BY <2>1, <2>3
<1> QED BY <1>3 DEF Min

\* proc_init_waitpid looks at every slot but the last one it gave out, and
\* finds one that is free: 0 says that there is none.
LEMMA PidFound ==
  ASSUME ProcsAssumption, table \in [0..MaxProc -> Proc \cup {NoProc}], last_i \in Pids
  PROVE  IF proc_init_waitpid = 0
         THEN \A i \in Pids \ {last_i} : table[i] # NoProc
         ELSE proc_init_waitpid \in Pids /\ table[proc_init_waitpid] = NoProc
<1> DEFINE free == {k \in DOMAIN Visited : table[Visited[k]] = NoProc}
<1>0. MaxProc \in Nat /\ MaxProc > 0 /\ last_i \in 1..MaxProc
  BY DEF ProcsAssumption, Pids
<1>1. DOMAIN Visited = 1..MaxProc-1 /\ \A k \in 1..MaxProc-1 : Visited[k] = ((last_i - 1 + k) % MaxProc) + 1
  BY DEF Visited
<1>2. \A k \in 1..MaxProc-1 : Visited[k] \in Pids
  BY <1>0, <1>1 DEF Pids
<1>3. ASSUME free = {}, NEW i \in Pids \ {last_i}
      PROVE  table[i] # NoProc
  <2> DEFINE k == IF i > last_i THEN i - last_i ELSE i - last_i + MaxProc
  <2>1. k \in 1..MaxProc-1
    BY <1>0 DEF Pids
  <2>2. (last_i - 1 + k) % MaxProc = i - 1
    BY <1>0 DEF Pids
  <2> HIDE DEF k
  <2>3. Visited[k] = (i - 1) + 1
    BY <1>1, <2>1, <2>2
  <2>4. Visited[k] = i
    BY <2>3 DEF Pids
  <2> QED BY <1>1, <1>3, <2>1, <2>4
<1>4. ASSUME free # {}
      PROVE  Visited[Min(free)] \in Pids /\ table[Visited[Min(free)]] = NoProc
  <2>1. free \subseteq Nat
    BY <1>0, <1>1
  <2>2. Min(free) \in free
    BY <1>4, <2>1, MinIsLeast
  <2> QED BY <1>1, <1>2, <2>2
<1>5. proc_init_waitpid = IF free = {} THEN 0 ELSE Visited[Min(free)]
  BY DEF proc_init_waitpid
<1> HIDE DEF free
<1>6. CASE free = {}
  BY <1>3, <1>5, <1>6
<1>7. CASE free # {}
  <2>1. Visited[Min(free)] # 0
    BY <1>4, <1>7 DEF Pids
  <2> QED BY <1>4, <1>5, <1>7, <2>1
<1> QED BY <1>6, <1>7

\* Two subsets of a finite set that differ at most at x differ in size by
\* what x is worth.
LEMMA CountMoves ==
  ASSUME NEW P, IsFiniteSet(P), NEW x, NEW A \in SUBSET P, NEW B \in SUBSET P,
         A \ {x} = B \ {x}
  PROVE  /\ Cardinality(A) \in Nat /\ Cardinality(B) \in Nat
         /\ x \in A /\ x \in B => Cardinality(B) = Cardinality(A)
         /\ x \notin A /\ x \notin B => Cardinality(B) = Cardinality(A)
         /\ x \notin A /\ x \in B => Cardinality(B) = Cardinality(A) + 1
         /\ x \in A /\ x \notin B => Cardinality(B) = Cardinality(A) - 1
<1>1. IsFiniteSet(A) /\ IsFiniteSet(B)
  BY FS_Subset
<1>2. Cardinality(A) \in Nat /\ Cardinality(B) \in Nat
  BY <1>1, FS_CardinalityType
<1>3. Cardinality(A \ {x}) = IF x \in A THEN Cardinality(A) - 1 ELSE Cardinality(A)
  BY <1>1, FS_RemoveElement
<1>4. Cardinality(B \ {x}) = IF x \in B THEN Cardinality(B) - 1 ELSE Cardinality(B)
  BY <1>1, FS_RemoveElement
<1>5. Cardinality(A \ {x}) = Cardinality(B \ {x})
  OBVIOUS
<1> QED BY <1>2, <1>3, <1>4, <1>5

\* A member makes a finite set count at least one.
LEMMA MemberCounts ==
  ASSUME NEW P, IsFiniteSet(P), NEW A \in SUBSET P, NEW x \in A
  PROVE  Cardinality(A) \in Nat /\ Cardinality(A) > 0
<1>1. IsFiniteSet(A)
  BY FS_Subset
<1> QED BY <1>1, FS_CardinalityType, FS_EmptySet

\* Vnodes are those of directories, of executables and of files that programs
\* open, and no vnode is two of these.
LEMMA VnodeKinds ==
  ASSUME ProcsAssumption
  PROVE  /\ Dir \subseteq Vnodes /\ File \subseteq Vnodes /\ Exes \subseteq Vnodes
         /\ NoVnode \notin Vnodes /\ NoFile = NoVnode
         /\ \A v \in Exes : v \notin Dir /\ v \notin File
         /\ \A v \in Dir : v \notin File
         /\ \A v \in Vnodes : v \in Dir \/ v \in File \/ v \in Exes
BY DEF ProcsAssumption, Vnodes, Exes, NoVnode

\* The files' part of the invariant, and what of the processes it leans on.
OpenFilesSound == FileTypes /\ Reading /\ Held /\ DescriptorsSound

\* Whoever may hold a reference to a vnode of a file is one of finitely many.
LEMMA HoldersFinite ==
  ASSUME ProcsAssumption
  PROVE  IsFiniteSet(Proc \X (Fd \cup {-1})) /\ \A v \in File : Holders(v) \in SUBSET (Proc \X (Fd \cup {-1}))
<1>1. IsFiniteSet(Fd)
  BY FS_Interval DEF Fd, ProcsAssumption
<1>2. IsFiniteSet(Fd \cup {-1})
  BY <1>1, FS_AddElement
<1>3. IsFiniteSet(Proc \X (Fd \cup {-1}))
  BY <1>2, FS_Product DEF ProcsAssumption
<1> QED BY <1>3 DEF Holders

\* DescriptorsSound, element by element.
LEMMA Described ==
  ASSUME DescriptorsSound, ~raced, NEW p \in Proc, NEW fd \in Fd, NEW i, fileTable[p][fd] = i, i # Null
  PROVE  /\ \A x \in Proc \X Fd : fileTable[x[1]][x[2]] = i <=> x = <<p, fd>>
         /\ entry[i].vn # NoFile /\ entry[i].countRef = 1 /\ refs[entry[i].vn] > 0
         /\ entry[i].offset = moved[p][fd]
<1>1. Refers(i) = {<<p, fd>>}
  BY DEF DescriptorsSound
<1> QED BY <1>1 DEF DescriptorsSound, Refers

\* A step that moves no offset and opens nothing keeps the files' part, if it
\* keeps each process's table of files or empties it, and starts neither an
\* open nor a transfer.
LEMMA FilesKept ==
  ASSUME ProcsAssumption, OpenFilesSound, Types,
         FileTypes', entry' = entry, raced' = raced,
         \A v \in File : refs'[v] = refs[v],
         \A p \in Proc : thread'[p] = thread[p] \/ thread'[p].at \notin {"open", "io"},
         \A p \in Proc : \/ fileTable'[p] = fileTable[p] /\ moved'[p] = moved[p]
                         \/ fileTable'[p] = NoFiles /\ thread'[p].at # "io"
  PROVE  OpenFilesSound'
<1>0. \A p \in Proc, fd \in Fd : fileTable'[p][fd] # Null => fileTable'[p][fd] = fileTable[p][fd] /\ moved'[p][fd] = moved[p][fd]
  BY DEF NoFiles
<1>1. Reading'
  <2> SUFFICES ASSUME NEW p \in User, thread'[p].at = "io"
               PROVE  /\ fileTable'[p][thread'[p].u.fd] = thread'[p].u.of
                      /\ raced' \/ entry'[thread'[p].u.of].offset = thread'[p].u.offset
    BY DEF Reading
  <2>1. p \in Proc
    BY DEF User
  <2>2. thread'[p] = thread[p] /\ fileTable'[p] = fileTable[p]
    BY <2>1
  <2> QED BY <2>2 DEF OpenFilesSound, Reading
<1>2. Held'
  <2> SUFFICES ASSUME ~raced, NEW v \in File
               PROVE  Cardinality(Holders(v)') <= refs'[v]
    BY DEF Held
  <2>1. Cardinality(Holders(v)) <= refs[v] /\ refs[v] \in Nat
    BY VnodeKinds DEF OpenFilesSound, Held, FileTypes
  <2>2. \A x \in Proc \X (Fd \cup {-1}) : Holds(x, v)' => Holds(x, v)
    <3> TAKE x \in Proc \X (Fd \cup {-1})
    <3>1. x[1] \in Proc /\ x[2] \in Fd \cup {-1}
      OBVIOUS
    <3>2. CASE x[2] = -1
      BY <3>1, <3>2 DEF Holds
    <3>3. CASE x[2] # -1
      BY <1>0, <3>1, <3>3 DEF Holds
    <3> QED BY <3>2, <3>3
  <2>3. Holders(v)' \in SUBSET Holders(v)
    BY <2>2 DEF Holders
  <2>4. IsFiniteSet(Holders(v))
    BY HoldersFinite, FS_Subset
  <2>5. Cardinality(Holders(v)') <= Cardinality(Holders(v)) /\ Cardinality(Holders(v)) \in Nat /\ Cardinality(Holders(v)') \in Nat
    BY <2>3, <2>4, FS_Subset, FS_CardinalityType
  <2> QED BY <2>1, <2>5
<1>3. DescriptorsSound'
  <2> SUFFICES ASSUME ~raced, NEW p \in Proc, NEW fd \in Fd, NEW i, i = fileTable'[p][fd], i # Null
               PROVE  /\ \A x \in Proc \X Fd : fileTable'[x[1]][x[2]] = i <=> x = <<p, fd>>
                      /\ entry'[i].vn # NoFile /\ entry'[i].countRef = 1 /\ refs'[entry'[i].vn] > 0
                      /\ entry'[i].offset = moved'[p][fd]
    BY DEF DescriptorsSound, Refers
  <2>1. fileTable[p][fd] = i /\ moved'[p][fd] = moved[p][fd] /\ i \in Entries
    BY <1>0 DEF OpenFilesSound, FileTypes
  <2>2. /\ \A x \in Proc \X Fd : fileTable[x[1]][x[2]] = i <=> x = <<p, fd>>
        /\ entry[i].vn # NoFile /\ entry[i].countRef = 1 /\ refs[entry[i].vn] > 0
        /\ entry[i].offset = moved[p][fd]
    BY <2>1, Described DEF OpenFilesSound
  <2>3. entry[i].vn \in File
    BY <2>1, <2>2 DEF OpenFilesSound, FileTypes, EntryRecords
  <2>4. ASSUME NEW x \in Proc \X Fd
        PROVE  fileTable'[x[1]][x[2]] = i <=> x = <<p, fd>>
    <3>1. x[1] \in Proc /\ x[2] \in Fd
      OBVIOUS
    <3> QED BY <1>0, <2>1, <2>2, <3>1
  <2> QED BY <2>1, <2>2, <2>3, <2>4
<1> QED BY <1>1, <1>2, <1>3 DEF OpenFilesSound

\* What an open in progress, and a descriptor, hold is counted.
LEMMA HeldIsReferenced ==
  ASSUME ProcsAssumption, Held, ~raced, refs \in [Vnodes -> Nat], NEW v \in File,
         NEW x \in Holders(v)
  PROVE  refs[v] > 0
<1>1. Cardinality(Holders(v)) \in Nat /\ Cardinality(Holders(v)) > 0
  BY HoldersFinite, MemberCounts
<1>2. Cardinality(Holders(v)) <= refs[v] /\ refs[v] \in Nat
  BY VnodeKinds DEF Held
<1> QED BY <1>1, <1>2

\* The entry an open finds is one of the system's, or Null.
LEMMA EntryFound ==
  ASSUME ProcsAssumption PROVE free_entry \in Entries \cup {Null}
<1> DEFINE free == {i \in Entries : entry[i].vn = NoFile}
<1>1. free \subseteq Nat /\ free \subseteq Entries
  BY DEF ProcsAssumption, Entries
<1>2. free # {} => Min(free) \in free
  BY <1>1, MinIsLeast
<1>3. free_entry = IF free = {} THEN Null ELSE Min(free)
  BY DEF free_entry
<1> HIDE DEF free
<1> QED BY <1>1, <1>2, <1>3

\* An open that begins adds the one reference it holds.
LEMMA OpenSearchFiles ==
  ASSUME ProcsAssumption, OpenFilesSound, Types, NEW p \in User, NEW v \in File, OpenSearch(p, v)
  PROVE  OpenFilesSound'
<1>1. /\ thread[p] = At("user") /\ p \in Proc
      /\ thread' = [thread EXCEPT ![p] = [at |-> "open", vn |-> v, i |-> free_entry]]
      /\ refs' = [refs EXCEPT ![v] = @ + 1]
      /\ UNCHANGED <<fileTable, entry, moved, raced>>
  BY DEF OpenSearch, MoveTo, User
<1>2. FileTypes'
  BY <1>1, VnodeKinds DEF OpenFilesSound, FileTypes
<1>3. Reading'
  <2> SUFFICES ASSUME NEW q \in User, thread'[q].at = "io"
               PROVE  /\ fileTable'[q][thread'[q].u.fd] = thread'[q].u.of
                      /\ raced' \/ entry'[thread'[q].u.of].offset = thread'[q].u.offset
    BY DEF Reading
  <2>1. q # p /\ thread'[q] = thread[q]
    BY <1>1 DEF Types, User
  <2> QED BY <1>1, <2>1 DEF OpenFilesSound, Reading
<1>4. Held'
  <2> SUFFICES ASSUME ~raced, NEW w \in File
               PROVE  Cardinality(Holders(w)') <= refs'[w]
    BY <1>1 DEF Held
  <2> DEFINE x == <<p, -1>>
  <2>1. x \in Proc \X (Fd \cup {-1}) /\ x[1] = p /\ x[2] = -1
    BY <1>1
  <2>2. \A y \in Proc \X (Fd \cup {-1}) : y # x => (Holds(y, w)' <=> Holds(y, w))
    <3> SUFFICES ASSUME NEW y \in Proc \X (Fd \cup {-1}), y # x
                 PROVE  Holds(y, w)' <=> Holds(y, w)
      OBVIOUS
    <3>1. CASE y[2] = -1
      <4>1. y[1] # p /\ y[1] \in Proc
        BY <3>1
      <4> QED BY <1>1, <3>1, <4>1 DEF Holds, Types
    <3>2. CASE y[2] # -1
      BY <1>1, <3>2 DEF Holds
    <3> QED BY <3>1, <3>2
  <2>3. ~Holds(x, w) /\ (Holds(x, w)' <=> w = v)
    BY <1>1, <2>1 DEF Holds, At, Types
  <2> HIDE DEF x
  <2>4. Holders(w)' \in SUBSET (Proc \X (Fd \cup {-1})) /\ Holders(w) \in SUBSET (Proc \X (Fd \cup {-1}))
    BY DEF Holders
  <2>5. Holders(w) \ {x} = Holders(w)' \ {x}
    BY <2>2 DEF Holders
  <2>6. x \notin Holders(w) /\ (x \in Holders(w)' <=> w = v)
    BY <2>1, <2>3 DEF Holders
  <2>7. Cardinality(Holders(w)) \in Nat /\ Cardinality(Holders(w)') = IF w = v THEN Cardinality(Holders(w)) + 1 ELSE Cardinality(Holders(w))
    BY <2>4, <2>5, <2>6, HoldersFinite, CountMoves
  <2>8. Cardinality(Holders(w)) <= refs[w] /\ refs[w] \in Nat /\ w \in Vnodes
    BY VnodeKinds DEF OpenFilesSound, Held, FileTypes
  <2>9. refs'[w] = IF w = v THEN refs[w] + 1 ELSE refs[w]
    BY <1>1, <2>8 DEF OpenFilesSound, FileTypes
  <2> QED BY <2>7, <2>8, <2>9
<1>5. DescriptorsSound'
  <2> SUFFICES ASSUME ~raced, NEW q \in Proc, NEW fd \in Fd, NEW i, i = fileTable[q][fd], i # Null
               PROVE  /\ \A x \in Proc \X Fd : fileTable[x[1]][x[2]] = i <=> x = <<q, fd>>
                      /\ entry[i].vn # NoFile /\ entry[i].countRef = 1 /\ refs'[entry[i].vn] > 0
                      /\ entry[i].offset = moved[q][fd]
    BY <1>1 DEF DescriptorsSound, Refers
  <2>1. i \in Entries
    BY DEF OpenFilesSound, FileTypes
  <2>2. /\ \A x \in Proc \X Fd : fileTable[x[1]][x[2]] = i <=> x = <<q, fd>>
        /\ entry[i].vn # NoFile /\ entry[i].countRef = 1 /\ refs[entry[i].vn] > 0
        /\ entry[i].offset = moved[q][fd]
    BY Described DEF OpenFilesSound
  <2>3. entry[i].vn \in File
    BY <2>1, <2>2 DEF OpenFilesSound, FileTypes, EntryRecords
  <2>4. refs'[entry[i].vn] > 0
    BY <1>1, <2>2, <2>3, VnodeKinds DEF OpenFilesSound, FileTypes
  <2> QED BY <2>2, <2>4
<1> QED BY <1>2, <1>3, <1>4, <1>5 DEF OpenFilesSound

\* A transfer begins at the offset its entry has.
LEMMA BeginIOFiles ==
  ASSUME ProcsAssumption, OpenFilesSound, Types, NEW p \in User, NEW fd \in Fd, BeginIO(p, fd)
  PROVE  OpenFilesSound'
<1> DEFINE u == [of |-> fileTable[p][fd], fd |-> fd, offset |-> entry[fileTable[p][fd]].offset]
<1>1. /\ thread[p] = At("user") /\ p \in Proc
      /\ thread' = [thread EXCEPT ![p] = [at |-> "io", u |-> u]]
      /\ UNCHANGED <<fileTable, entry, refs, moved, raced>>
  BY DEF BeginIO, MoveTo, User, files
<1>2. FileTypes' /\ DescriptorsSound'
  BY <1>1 DEF OpenFilesSound, FileTypes, DescriptorsSound, Refers
<1>3. Reading'
  <2> SUFFICES ASSUME NEW q \in User, thread'[q].at = "io"
               PROVE  /\ fileTable[q][thread'[q].u.fd] = thread'[q].u.of
                      /\ raced \/ entry[thread'[q].u.of].offset = thread'[q].u.offset
    BY <1>1 DEF Reading
  <2>1. CASE q = p
    BY <1>1, <2>1 DEF Types
  <2>2. CASE q # p
    BY <1>1, <2>2 DEF OpenFilesSound, Reading, Types, User
  <2> QED BY <2>1, <2>2
<1>4. Held'
  <2>1. ASSUME NEW v \in File, NEW x \in Proc \X (Fd \cup {-1})
        PROVE  Holds(x, v)' <=> Holds(x, v)
    <3>1. x[1] \in Proc
      OBVIOUS
    <3>2. CASE x[2] = -1
      BY <1>1, <3>1, <3>2 DEF Holds, At, Types
    <3>3. CASE x[2] # -1
      BY <1>1, <3>3 DEF Holds
    <3> QED BY <3>2, <3>3
  <2>2. \A v \in File : Holders(v)' = Holders(v)
    BY <2>1 DEF Holders
  <2> QED BY <1>1, <2>2 DEF OpenFilesSound, Held
<1> QED BY <1>2, <1>3, <1>4 DEF OpenFilesSound

\* A transfer ends where nobody else has moved the entry meanwhile.
LEMMA EndIOFiles ==
  ASSUME ProcsAssumption, OpenFilesSound, Types, NEW p \in User, EndIO(p)
  PROVE  OpenFilesSound'
<1> DEFINE u == thread[p].u
<1>1. /\ thread[p].at = "io" /\ p \in Proc
      /\ thread' = [thread EXCEPT ![p] = At("user")]
      /\ \A q \in Proc : thread'[q] = thread[q] \/ thread'[q].at = "user"
  BY DEF EndIO, MoveTo, User, Types, At
<1>2. CASE UNCHANGED files
  <2>1. FileTypes'
    BY <1>2 DEF files, OpenFilesSound, FileTypes
  <2> QED BY <1>1, <1>2, <2>1, FilesKept DEF files
<1>3. CASE file_io(p, u, 1)
  <2>1. u.of \in Entries /\ u.fd \in Fd /\ u.offset \in Nat
    BY <1>1 DEF Types, ThreadRecords
  <2>2. fileTable[p][u.fd] = u.of /\ (raced \/ entry[u.of].offset = u.offset)
    BY <1>1 DEF OpenFilesSound, Reading
  <2>3. u.of # Null
    BY <2>1 DEF ProcsAssumption, Entries, Null
  <2>4. /\ entry' = [entry EXCEPT ![u.of].offset = u.offset + 1]
        /\ moved' = [moved EXCEPT ![p][u.fd] = @ + 1]
        /\ UNCHANGED <<fileTable, refs, raced>>
    BY <1>3 DEF file_io, moved_to
  <2> HIDE DEF u
  <2>5. FileTypes'
    <3>1. entry' \in [Entries -> EntryRecords]
      <4>1. entry[u.of] \in EntryRecords /\ entry \in [Entries -> EntryRecords]
        BY <2>1 DEF OpenFilesSound, FileTypes
      <4>2. [entry[u.of] EXCEPT !.offset = u.offset + 1] \in EntryRecords
        BY <2>1, <4>1 DEF EntryRecords
      <4> QED BY <2>1, <2>4, <4>1, <4>2
    <3>2. moved' \in [Proc -> [Fd -> Nat]]
      BY <1>1, <2>1, <2>4 DEF OpenFilesSound, FileTypes
    <3> QED BY <2>4, <3>1, <3>2 DEF OpenFilesSound, FileTypes
  <2>6. \A i \in Entries : /\ entry'[i].vn = entry[i].vn /\ entry'[i].countRef = entry[i].countRef
                           /\ i # u.of => entry'[i] = entry[i]
    BY <2>1, <2>4 DEF OpenFilesSound, FileTypes, EntryRecords
  <2>7. entry'[u.of].offset = u.offset + 1
    BY <2>1, <2>4 DEF OpenFilesSound, FileTypes, EntryRecords
  <2>8. ~raced => \A q \in Proc, fd \in Fd : fileTable[q][fd] = u.of => q = p /\ fd = u.fd
    <3> SUFFICES ASSUME ~raced, NEW q \in Proc, NEW fd \in Fd, fileTable[q][fd] = u.of
                 PROVE  q = p /\ fd = u.fd
      OBVIOUS
    <3>1. \A x \in Proc \X Fd : fileTable[x[1]][x[2]] = u.of <=> x = <<p, u.fd>>
      BY <1>1, <2>1, <2>2, <2>3, Described DEF OpenFilesSound
    <3>2. <<q, fd>> \in Proc \X Fd
      OBVIOUS
    <3>3. <<q, fd>> = <<p, u.fd>>
      BY <3>1, <3>2
    <3> QED BY <3>3
  <2>9. Reading'
    <3> SUFFICES ASSUME NEW q \in User, thread'[q].at = "io"
                 PROVE  /\ fileTable[q][thread'[q].u.fd] = thread'[q].u.of
                        /\ raced \/ entry'[thread'[q].u.of].offset = thread'[q].u.offset
      BY <2>4 DEF Reading
    <3>1. q # p /\ thread'[q] = thread[q] /\ q \in Proc
      BY <1>1 DEF User, Types, At
    <3>2. /\ thread[q].u.of \in Entries /\ thread[q].u.fd \in Fd
          /\ fileTable[q][thread[q].u.fd] = thread[q].u.of
          /\ raced \/ entry[thread[q].u.of].offset = thread[q].u.offset
      BY <3>1 DEF Types, ThreadRecords, OpenFilesSound, Reading
    <3> QED BY <2>6, <2>8, <3>1, <3>2
  <2>10. Held'
    <3>1. ASSUME NEW v \in File, NEW x \in Proc \X (Fd \cup {-1}), Holds(x, v)'
          PROVE  Holds(x, v)
      <4>1. x[1] \in Proc /\ x[2] \in Fd \cup {-1}
        OBVIOUS
      <4>2. CASE x[2] = -1
        BY <1>1, <3>1, <4>1, <4>2 DEF Holds
      <4>3. CASE x[2] # -1
        <5>1. fileTable[x[1]][x[2]] # Null /\ fileTable[x[1]][x[2]] \in Entries
          BY <2>4, <3>1, <4>1, <4>3 DEF Holds, OpenFilesSound, FileTypes
        <5> QED BY <2>4, <2>6, <3>1, <4>3, <5>1 DEF Holds
      <4> QED BY <4>2, <4>3
    <3> SUFFICES ASSUME ~raced, NEW v \in File
                 PROVE  Cardinality(Holders(v)') <= refs[v]
      BY <2>4 DEF Held
    <3>2. Holders(v)' \in SUBSET Holders(v)
      BY <3>1 DEF Holders
    <3>3. IsFiniteSet(Holders(v))
      BY HoldersFinite, FS_Subset
    <3>4. Cardinality(Holders(v)') <= Cardinality(Holders(v)) /\ Cardinality(Holders(v)) \in Nat /\ Cardinality(Holders(v)') \in Nat
      BY <3>2, <3>3, FS_Subset, FS_CardinalityType
    <3>5. Cardinality(Holders(v)) <= refs[v] /\ refs[v] \in Nat
      BY VnodeKinds DEF OpenFilesSound, Held, FileTypes
    <3> QED BY <3>4, <3>5
  <2>11. DescriptorsSound'
    <3> SUFFICES ASSUME ~raced, NEW q \in Proc, NEW fd \in Fd, NEW i, i = fileTable[q][fd], i # Null
                 PROVE  /\ \A x \in Proc \X Fd : fileTable[x[1]][x[2]] = i <=> x = <<q, fd>>
                        /\ entry'[i].vn # NoFile /\ entry'[i].countRef = 1 /\ refs[entry'[i].vn] > 0
                        /\ entry'[i].offset = moved'[q][fd]
      BY <2>4 DEF DescriptorsSound, Refers
    <3>1. i \in Entries
      BY DEF OpenFilesSound, FileTypes
    <3>2. /\ \A x \in Proc \X Fd : fileTable[x[1]][x[2]] = i <=> x = <<q, fd>>
          /\ entry[i].vn # NoFile /\ entry[i].countRef = 1 /\ refs[entry[i].vn] > 0
          /\ entry[i].offset = moved[q][fd]
      BY Described DEF OpenFilesSound
    <3>3. entry'[i].offset = moved'[q][fd]
      <4>1. CASE i = u.of
        <5>1. q = p /\ fd = u.fd
          BY <2>8, <4>1
        <5>2. entry[i].offset = u.offset
          BY <2>2, <4>1
        <5>3. moved'[q][fd] = moved[q][fd] + 1
          BY <1>1, <2>1, <2>4, <5>1 DEF OpenFilesSound, FileTypes
        <5> QED BY <2>7, <3>2, <4>1, <5>2, <5>3
      <4>2. CASE i # u.of
        <5>1. ~(q = p /\ fd = u.fd)
          BY <2>2, <4>2
        <5>2. moved'[q][fd] = moved[q][fd]
          BY <1>1, <2>1, <2>4, <5>1 DEF OpenFilesSound, FileTypes
        <5> QED BY <2>6, <3>1, <3>2, <4>2, <5>2
      <4> QED BY <4>1, <4>2
    <3> QED BY <2>6, <3>1, <3>2, <3>3
  <2> QED BY <2>5, <2>9, <2>10, <2>11 DEF OpenFilesSound
<1> QED BY <1>2, <1>3 DEF EndIO

\* A close gives up what the descriptor held.
LEMMA CloseFiles ==
  ASSUME ProcsAssumption, OpenFilesSound, Types, NEW p \in User, NEW fd \in Fd,
         ~overclosed(p, fd), sys_close(p, fd), thread[p] = At("user"), UNCHANGED thread
  PROVE  OpenFilesSound'
<1> DEFINE count == (entry[fileTable[p][fd]].countRef + CountMod - 1) % CountMod
<1>0. PICK i : i = fileTable[p][fd]
  OBVIOUS
<1>1. i # Null /\ i \in Entries /\ p \in Proc /\ thread[p].at = "user"
  BY <1>0 DEF sys_close, OpenFilesSound, FileTypes, User, At
<1>2. fileTable' = [fileTable EXCEPT ![p][fd] = Null] /\ UNCHANGED <<moved, raced>>
  BY DEF sys_close
<1>3. count \in Nat /\ count < CountMod /\ (count = 0 <=> entry[i].countRef = 1)
  <2>1. entry[i].countRef \in 0..CountMod-1 /\ CountMod \in Nat /\ CountMod > 1
    BY <1>1 DEF OpenFilesSound, FileTypes, EntryRecords, ProcsAssumption
  <2> QED BY <1>0, <2>1
<1>4. entry[i].vn \in File \cup {NoFile}
  BY <1>1 DEF OpenFilesSound, FileTypes, EntryRecords
<1>5. /\ \A j \in Entries : j # i => entry'[j] = entry[j]
      /\ entry'[i].vn = IF count = 0 THEN NoFile ELSE entry[i].vn
      /\ entry' \in [Entries -> EntryRecords]
  <2>1. CASE count = 0
    <3>1. entry' = [entry EXCEPT ![i].countRef = count, ![i].vn = NoFile]
      BY <1>0, <2>1 DEF sys_close
    <3> DEFINE e == [entry[i] EXCEPT !.countRef = count, !.vn = NoFile]
    <3> HIDE DEF count
    <3>2. entry[i] \in EntryRecords /\ entry \in [Entries -> EntryRecords] /\ count \in 0..CountMod-1
      BY <1>1, <1>3 DEF OpenFilesSound, FileTypes, ProcsAssumption
    <3>3. e \in EntryRecords /\ e.vn = NoFile
      BY <3>2 DEF EntryRecords
    <3>4. entry' = [entry EXCEPT ![i] = e]
      BY <1>1, <3>1, <3>2
    <3> HIDE DEF e
    <3> QED BY <1>1, <2>1, <3>2, <3>3, <3>4
  <2>2. CASE count # 0
    <3>1. entry' = [entry EXCEPT ![i].countRef = count]
      BY <1>0, <1>3, <2>2 DEF sys_close
    <3> HIDE DEF count
    <3> QED BY <1>1, <1>3, <2>2, <3>1 DEF OpenFilesSound, FileTypes, EntryRecords
  <2> QED BY <2>1, <2>2
<1>6. refs' = IF count = 0 /\ entry[i].vn # NoFile THEN [refs EXCEPT ![entry[i].vn] = @ - 1] ELSE refs
  BY <1>0, <1>3 DEF sys_close
<1>7. count = 0 /\ entry[i].vn # NoFile => refs[entry[i].vn] # 0
  BY <1>0, <1>1, <1>3 DEF overclosed
<1> HIDE DEF count
<1>8. refs' \in [Vnodes -> Nat]
  <2>1. refs \in [Vnodes -> Nat]
    BY DEF OpenFilesSound, FileTypes
  <2>2. CASE count = 0 /\ entry[i].vn # NoFile
    <3>1. entry[i].vn \in Vnodes /\ refs[entry[i].vn] - 1 \in Nat
      BY <1>4, <1>7, <2>1, <2>2, VnodeKinds
    <3> QED BY <1>6, <2>1, <2>2, <3>1
  <2> QED BY <1>6, <2>1, <2>2
<1>9. fileTable' \in [Proc -> [Fd -> Entries \cup {Null}]]
  BY <1>1, <1>2 DEF OpenFilesSound, FileTypes
<1>10. FileTypes'
  BY <1>2, <1>5, <1>8, <1>9 DEF OpenFilesSound, FileTypes
<1>11. /\ fileTable'[p][fd] = Null
       /\ \A q \in Proc, f \in Fd : ~(q = p /\ f = fd) => fileTable'[q][f] = fileTable[q][f]
  BY <1>1, <1>2 DEF OpenFilesSound, FileTypes
<1>12. ~raced => /\ \A q \in Proc, f \in Fd : fileTable[q][f] = i => q = p /\ f = fd
                 /\ entry[i].vn \in File /\ count = 0
  <2> SUFFICES ASSUME ~raced
               PROVE  /\ \A q \in Proc, f \in Fd : fileTable[q][f] = i => q = p /\ f = fd
                      /\ entry[i].vn \in File /\ count = 0
    OBVIOUS
  <2>1. /\ \A x \in Proc \X Fd : fileTable[x[1]][x[2]] = i <=> x = <<p, fd>>
        /\ entry[i].vn # NoFile /\ entry[i].countRef = 1
    BY <1>0, <1>1, Described DEF OpenFilesSound
  <2>2. ASSUME NEW q \in Proc, NEW f \in Fd, fileTable[q][f] = i
        PROVE  q = p /\ f = fd
    <3>1. <<q, f>> \in Proc \X Fd
      OBVIOUS
    <3>2. <<q, f>> = <<p, fd>>
      BY <2>1, <2>2, <3>1
    <3> QED BY <3>2
  <2> QED BY <1>3, <1>4, <2>1, <2>2
<1>13. Reading'
  <2> SUFFICES ASSUME NEW q \in User, thread[q].at = "io"
               PROVE  /\ fileTable'[q][thread[q].u.fd] = thread[q].u.of
                      /\ raced \/ entry'[thread[q].u.of].offset = thread[q].u.offset
    BY <1>2 DEF Reading
  <2>1. q # p /\ q \in Proc
    BY <1>1 DEF User
  <2>2. /\ thread[q].u.of \in Entries /\ thread[q].u.fd \in Fd
        /\ fileTable[q][thread[q].u.fd] = thread[q].u.of
        /\ raced \/ entry[thread[q].u.of].offset = thread[q].u.offset
    BY <2>1 DEF Types, ThreadRecords, OpenFilesSound, Reading
  <2> QED BY <1>5, <1>11, <1>12, <2>1, <2>2
<1>14. ASSUME ~raced, NEW v \in File, NEW x \in Proc \X (Fd \cup {-1})
       PROVE  Holds(x, v)' <=> Holds(x, v) /\ ~(x = <<p, fd>>)
  <2>1. x[1] \in Proc /\ x[2] \in Fd \cup {-1} /\ x = <<x[1], x[2]>>
    OBVIOUS
  <2>2. CASE x[2] = -1
    <3>1. fd # -1
      BY DEF Fd
    <3> QED BY <2>1, <2>2, <3>1 DEF Holds
  <2>3. CASE x[2] # -1 /\ x = <<p, fd>>
    BY <1>11, <2>3 DEF Holds
  <2>4. CASE x[2] # -1 /\ x # <<p, fd>>
    <3>1. fileTable'[x[1]][x[2]] = fileTable[x[1]][x[2]] /\ fileTable[x[1]][x[2]] # i
      BY <1>11, <1>12, <1>14, <2>1, <2>4
    <3>2. fileTable[x[1]][x[2]] \in Entries \cup {Null}
      BY <2>1, <2>4 DEF OpenFilesSound, FileTypes
    <3> QED BY <1>5, <2>4, <3>1, <3>2 DEF Holds
  <2> QED BY <2>2, <2>3, <2>4
<1>15. Held'
  <2> SUFFICES ASSUME ~raced, NEW v \in File
               PROVE  Cardinality(Holders(v)') <= refs'[v]
    BY <1>2 DEF Held
  <2> DEFINE x == <<p, fd>>
  <2>1. x \in Proc \X (Fd \cup {-1}) /\ x[1] = p /\ x[2] = fd /\ fd # -1
    BY <1>1 DEF Fd
  <2>2. Holds(x, v) <=> v = entry[i].vn
    BY <1>0, <1>1, <2>1 DEF Holds
  <2> HIDE DEF x
  <2>3. Holders(v)' \in SUBSET (Proc \X (Fd \cup {-1})) /\ Holders(v) \in SUBSET (Proc \X (Fd \cup {-1}))
    BY DEF Holders
  <2>4. x \notin Holders(v)' /\ Holders(v) \ {x} = Holders(v)' \ {x}
    BY <1>14 DEF Holders, x
  <2>5. x \in Holders(v) <=> v = entry[i].vn
    BY <2>1, <2>2 DEF Holders
  <2>6. Cardinality(Holders(v)) \in Nat /\ Cardinality(Holders(v)') = IF v = entry[i].vn THEN Cardinality(Holders(v)) - 1 ELSE Cardinality(Holders(v))
    BY <2>3, <2>4, <2>5, HoldersFinite, CountMoves
  <2>7. Cardinality(Holders(v)) <= refs[v] /\ refs[v] \in Nat /\ v \in Vnodes
    BY VnodeKinds DEF OpenFilesSound, Held, FileTypes
  <2>8. refs'[v] = IF v = entry[i].vn THEN refs[v] - 1 ELSE refs[v]
    <3>1. count = 0 /\ entry[i].vn # NoFile
      BY <1>12, VnodeKinds
    <3> QED BY <1>6, <2>7, <3>1 DEF OpenFilesSound, FileTypes
  <2> QED BY <2>6, <2>7, <2>8
<1>16. DescriptorsSound'
  <2> SUFFICES ASSUME ~raced, NEW q \in Proc, NEW f \in Fd, NEW j, j = fileTable'[q][f], j # Null
               PROVE  /\ \A x \in Proc \X Fd : fileTable'[x[1]][x[2]] = j <=> x = <<q, f>>
                      /\ entry'[j].vn # NoFile /\ entry'[j].countRef = 1 /\ refs'[entry'[j].vn] > 0
                      /\ entry'[j].offset = moved'[q][f]
    BY <1>2 DEF DescriptorsSound, Refers
  <2>1. ~(q = p /\ f = fd) /\ j = fileTable[q][f] /\ j \in Entries /\ j # i
    BY <1>11, <1>12 DEF OpenFilesSound, FileTypes
  <2>2. /\ \A x \in Proc \X Fd : fileTable[x[1]][x[2]] = j <=> x = <<q, f>>
        /\ entry[j].vn # NoFile /\ entry[j].countRef = 1
        /\ entry[j].offset = moved[q][f]
    BY <2>1, Described DEF OpenFilesSound
  <2>3. entry'[j] = entry[j] /\ entry[j].vn \in File
    BY <1>5, <2>1, <2>2 DEF OpenFilesSound, FileTypes, EntryRecords
  <2>4. ASSUME NEW x \in Proc \X Fd
        PROVE  fileTable'[x[1]][x[2]] = j <=> x = <<q, f>>
    <3>1. x[1] \in Proc /\ x[2] \in Fd /\ x = <<x[1], x[2]>>
      OBVIOUS
    <3>2. CASE x[1] = p /\ x[2] = fd
      BY <1>11, <2>1, <3>1, <3>2
    <3>3. CASE ~(x[1] = p /\ x[2] = fd)
      BY <1>11, <2>2, <3>1, <3>3
    <3> QED BY <3>2, <3>3
  <2>5. refs'[entry'[j].vn] > 0
    <3>1. PICK v \in File : v = entry'[j].vn
      BY <2>3
    <3>2. <<q, f>> \in Holders(v)'
      <4>1. fileTable'[q][f] = j /\ j # Null
        BY <2>1, <1>11
      <4>2. <<q, f>> \in Proc \X (Fd \cup {-1}) /\ <<q, f>>[1] = q /\ <<q, f>>[2] = f /\ f # -1
        BY DEF Fd
      <4>3. Holds(<<q, f>>, v)'
        BY <3>1, <4>1, <4>2 DEF Holds
      <4> QED BY <4>2, <4>3 DEF Holders
    <3>3. Cardinality(Holders(v)') > 0 /\ Cardinality(Holders(v)') \in Nat
      <4>1. Holders(v)' \in SUBSET (Proc \X (Fd \cup {-1}))
        BY DEF Holders
      <4> QED BY <3>2, <4>1, HoldersFinite, MemberCounts
    <3>4. Cardinality(Holders(v)') <= refs'[v] /\ refs'[v] \in Nat
      BY <1>2, <1>8, <1>15, VnodeKinds DEF Held
    <3> QED BY <3>1, <3>3, <3>4
  <2> QED BY <1>2, <2>2, <2>3, <2>4, <2>5
<1> QED BY <1>10, <1>13, <1>15, <1>16 DEF OpenFilesSound

\* An open takes the entry it found, or gives its reference back.  If another
\* open has taken the entry since, this one races with it.
LEMMA OpenTakeFiles ==
  ASSUME ProcsAssumption, OpenFilesSound, Types, NEW p \in User, thread[p].at = "open",
         ~open_overcloses(p, thread[p].vn, thread[p].i),
         sys_open(p, thread[p].vn, thread[p].i), MoveTo(p, At("user"))
  PROVE  OpenFilesSound'
<1> DEFINE fds == {fd \in FirstFd..OpenMax-1 : fileTable[p][fd] = Null}
<1>0. PICK v \in File, i \in Entries \cup {Null} : v = thread[p].vn /\ i = thread[p].i
  BY DEF Types, ThreadRecords, User
<1>1. /\ p \in Proc /\ v \in Vnodes /\ v # NoFile
      /\ thread' = [thread EXCEPT ![p] = At("user")]
      /\ \A q \in Proc : q # p => thread'[q] = thread[q]
      /\ thread'[p].at = "user"
  BY VnodeKinds DEF MoveTo, User, Types, At
<1>2. /\ entry' = IF i = Null THEN entry ELSE [entry EXCEPT ![i] = opened(v)]
      /\ raced' = (raced \/ (i # Null /\ entry[i].vn # NoFile))
      /\ IF i = Null \/ fds = {}
         THEN /\ refs' = [refs EXCEPT ![v] = @ - 1]
              /\ UNCHANGED <<fileTable, moved>>
         ELSE /\ fileTable' = [fileTable EXCEPT ![p][Min(fds)] = i]
              /\ moved' = [moved EXCEPT ![p][Min(fds)] = 0]
              /\ UNCHANGED refs
  BY <1>0 DEF sys_open
<1>3. (i = Null \/ fds = {}) => refs[v] # 0
  BY <1>0 DEF open_overcloses
<1>4. fds # {} => Min(fds) \in Fd /\ fileTable[p][Min(fds)] = Null
  <2>1. fds \subseteq Nat /\ fds \subseteq Fd
    BY DEF Fd, FirstFd, ProcsAssumption
  <2> QED BY <2>1, MinIsLeast
<1>5. PICK m : m = Min(fds)
  OBVIOUS
<1> DEFINE taken == ~(i = Null \/ fds = {})
<1>6. /\ taken => /\ m \in Fd /\ i \in Entries /\ fileTable[p][m] = Null
                  /\ fileTable' = [fileTable EXCEPT ![p][m] = i]
                  /\ moved' = [moved EXCEPT ![p][m] = 0] /\ refs' = refs
      /\ ~taken => /\ refs' = [refs EXCEPT ![v] = @ - 1] /\ refs[v] # 0
                   /\ fileTable' = fileTable /\ moved' = moved
  BY <1>2, <1>3, <1>4, <1>5
<1> HIDE DEF fds, taken
<1>7. refs' \in [Vnodes -> Nat]
  <2>1. refs \in [Vnodes -> Nat]
    BY DEF OpenFilesSound, FileTypes
  <2>2. ~taken => refs[v] - 1 \in Nat
    BY <1>1, <1>6, <2>1
  <2> QED BY <1>1, <1>6, <2>1, <2>2
<1>8. entry' \in [Entries -> EntryRecords]
  <2>1. opened(v) \in EntryRecords
    BY DEF opened, EntryRecords, ProcsAssumption
  <2> QED BY <1>2, <2>1 DEF OpenFilesSound, FileTypes
<1>9. fileTable' \in [Proc -> [Fd -> Entries \cup {Null}]] /\ moved' \in [Proc -> [Fd -> Nat]]
  <2>1. fileTable \in [Proc -> [Fd -> Entries \cup {Null}]] /\ moved \in [Proc -> [Fd -> Nat]]
    BY DEF OpenFilesSound, FileTypes
  <2>2. CASE taken
    <3>1. fileTable' = [fileTable EXCEPT ![p][m] = i] /\ moved' = [moved EXCEPT ![p][m] = 0] /\ m \in Fd /\ i \in Entries
      BY <1>6, <2>2
    <3>2. fileTable' \in [Proc -> [Fd -> Entries \cup {Null}]]
      BY <1>1, <2>1, <3>1
    <3>3. moved' \in [Proc -> [Fd -> Nat]]
      BY <1>1, <2>1, <3>1
    <3> QED BY <3>2, <3>3
  <2>3. CASE ~taken
    BY <1>6, <2>1, <2>3
  <2> QED BY <2>2, <2>3
<1>10. FileTypes'
  BY <1>2, <1>7, <1>8, <1>9 DEF OpenFilesSound, FileTypes
<1>11. /\ \A j \in Entries : j # i => entry'[j] = entry[j]
       /\ i # Null => entry'[i] = opened(v) /\ opened(v).vn = v /\ opened(v).countRef = 1 /\ opened(v).offset = 0
  BY <1>2 DEF OpenFilesSound, FileTypes, opened
<1>12. /\ \A q \in Proc, fd \in Fd : ~(taken /\ q = p /\ fd = m) =>
             fileTable'[q][fd] = fileTable[q][fd] /\ moved'[q][fd] = moved[q][fd]
       /\ taken => fileTable'[p][m] = i /\ moved'[p][m] = 0
  <2>1. CASE taken
    BY <1>1, <1>6, <2>1 DEF OpenFilesSound, FileTypes
  <2>2. CASE ~taken
    BY <1>6, <2>2
  <2> QED BY <2>1, <2>2
<1>13. ~raced' => ~raced /\ (i # Null => \A q \in Proc, fd \in Fd : fileTable[q][fd] # i)
  <2> SUFFICES ASSUME ~raced', i # Null, NEW q \in Proc, NEW fd \in Fd, fileTable[q][fd] = i
               PROVE  FALSE
    BY <1>2
  <2>1. ~raced /\ entry[i].vn = NoFile
    BY <1>2
  <2>2. entry[i].vn # NoFile
    BY <2>1, Described DEF OpenFilesSound
  <2> QED BY <2>1, <2>2
<1>14. Reading'
  <2> SUFFICES ASSUME NEW q \in User, thread'[q].at = "io"
               PROVE  /\ fileTable'[q][thread'[q].u.fd] = thread'[q].u.of
                      /\ raced' \/ entry'[thread'[q].u.of].offset = thread'[q].u.offset
    BY DEF Reading
  <2>1. q # p /\ q \in Proc /\ thread'[q] = thread[q]
    BY <1>1 DEF User
  <2>2. /\ thread[q].u.of \in Entries /\ thread[q].u.fd \in Fd
        /\ fileTable[q][thread[q].u.fd] = thread[q].u.of
        /\ raced \/ entry[thread[q].u.of].offset = thread[q].u.offset
    BY <2>1 DEF Types, ThreadRecords, OpenFilesSound, Reading
  <2>3. fileTable'[q][thread[q].u.fd] = thread[q].u.of
    BY <1>12, <2>1, <2>2
  <2>4. ~raced' => thread[q].u.of # i
    <3>1. i = Null => thread[q].u.of # i
      BY <2>2 DEF Entries, Null
    <3> QED BY <1>13, <2>1, <2>2, <3>1
  <2> QED BY <1>11, <1>13, <2>1, <2>2, <2>3, <2>4
<1>15. ASSUME ~raced', NEW w \in File, NEW x \in Proc \X (Fd \cup {-1})
       PROVE  Holds(x, w)' <=> \/ Holds(x, w) /\ x # <<p, -1>>
                               \/ taken /\ x = <<p, m>> /\ w = v
  <2>1. x[1] \in Proc /\ x[2] \in Fd \cup {-1} /\ x = <<x[1], x[2]>> /\ -1 \notin Fd
    BY DEF Fd
  <2>2. CASE x[2] = -1
    <3>1. CASE x[1] = p
      <4>1. ~Holds(x, w)'
        BY <1>1, <2>2, <3>1 DEF Holds
      <4>2. x = <<p, -1>> /\ ~(taken /\ x = <<p, m>>)
        BY <1>6, <2>1, <2>2, <3>1
      <4> QED BY <4>1, <4>2
    <3>2. CASE x[1] # p
      <4>1. Holds(x, w)' <=> Holds(x, w)
        BY <1>1, <2>1, <2>2, <3>2 DEF Holds
      <4>2. x # <<p, -1>> /\ x # <<p, m>>
        BY <3>2
      <4> QED BY <4>1, <4>2
    <3> QED BY <3>1, <3>2
  <2>3. CASE x[2] # -1 /\ taken /\ x = <<p, m>>
    <3>1. x[1] = p /\ x[2] = m /\ x # <<p, -1>>
      BY <2>3
    <3>2. ~Holds(x, w)
      BY <1>6, <2>3, <3>1 DEF Holds
    <3>3. fileTable'[p][m] = i /\ i # Null /\ entry'[i].vn = v
      BY <1>6, <1>11, <1>12, <2>3 DEF taken
    <3>4. Holds(x, w)' <=> w = v
      BY <2>3, <3>1, <3>3 DEF Holds
    <3> QED BY <2>3, <3>1, <3>2, <3>4
  <2>4. CASE x[2] # -1 /\ ~(taken /\ x = <<p, m>>)
    <3>1. fileTable'[x[1]][x[2]] = fileTable[x[1]][x[2]]
      BY <1>12, <2>1, <2>4
    <3>2. fileTable[x[1]][x[2]] \in Entries \cup {Null}
      BY <2>1, <2>4 DEF OpenFilesSound, FileTypes
    <3>3. fileTable[x[1]][x[2]] # Null => fileTable[x[1]][x[2]] # i
      BY <1>13, <1>15, <2>1, <2>4
    <3>4. Holds(x, w)' <=> Holds(x, w)
      BY <1>11, <2>4, <3>1, <3>2, <3>3 DEF Holds
    <3>5. x # <<p, -1>>
      BY <2>4
    <3> QED BY <2>4, <3>4, <3>5
  <2> QED BY <2>2, <2>3, <2>4
<1>16. Held'
  <2> SUFFICES ASSUME ~raced', NEW w \in File
               PROVE  Cardinality(Holders(w)') <= refs'[w]
    BY DEF Held
  <2> DEFINE P == Proc \X (Fd \cup {-1})
  <2> DEFINE H == Holders(w) \ {<<p, -1>>}
  <2>1. <<p, -1>> \in P /\ (taken => <<p, m>> \in P /\ <<p, m>> # <<p, -1>>)
    BY <1>1, <1>6 DEF Fd
  <2>2. Holders(w) \in SUBSET P /\ Holders(w)' \in SUBSET P /\ IsFiniteSet(P)
    BY HoldersFinite DEF Holders
  <2>3. <<p, -1>> \in Holders(w) <=> w = v
    <3>1. <<p, -1>> \in P /\ <<p, -1>>[1] = p /\ <<p, -1>>[2] = -1
      BY <1>1
    <3> QED BY <1>0, <3>1 DEF Holders, Holds
  <2>4. Cardinality(Holders(w)) <= refs[w] /\ refs[w] \in Nat /\ w \in Vnodes
    BY <1>2, VnodeKinds DEF OpenFilesSound, Held, FileTypes
  <2>5. H \in SUBSET P /\ H \ {<<p, -1>>} = Holders(w) \ {<<p, -1>>} /\ <<p, -1>> \notin H
    BY <2>2
  <2>6. /\ Cardinality(H) \in Nat /\ Cardinality(Holders(w)) \in Nat
        /\ Cardinality(H) = IF w = v THEN Cardinality(Holders(w)) - 1 ELSE Cardinality(Holders(w))
    <3> HIDE DEF H, P
    <3> QED BY <2>2, <2>3, <2>5, CountMoves
  <2>7. CASE taken /\ w = v
    <3>1. Holders(w)' \ {<<p, m>>} = H \ {<<p, m>>} /\ <<p, m>> \in Holders(w)'
      BY <1>15, <2>1, <2>7 DEF Holders
    <3>2. <<p, m>> \notin H
      <4>1. ~Holds(<<p, m>>, w)
        <5>1. <<p, m>>[1] = p /\ <<p, m>>[2] = m /\ m # -1
          BY <1>6, <2>7 DEF Fd
        <5> QED BY <1>6, <2>7, <5>1 DEF Holds
      <4> QED BY <4>1 DEF Holders
    <3>3. Cardinality(Holders(w)') = Cardinality(H) + 1
      <4> HIDE DEF H, P
      <4> QED BY <2>2, <2>5, <3>1, <3>2, CountMoves
    <3> QED BY <1>6, <2>4, <2>6, <2>7, <3>3
  <2>8. CASE ~(taken /\ w = v)
    <3>1. Holders(w)' = H
      BY <1>15, <2>8 DEF Holders
    <3>2. refs'[w] = IF ~taken /\ w = v THEN refs[w] - 1 ELSE refs[w]
      BY <1>6, <2>4 DEF OpenFilesSound, FileTypes
    <3> QED BY <2>4, <2>6, <2>8, <3>1, <3>2
  <2> QED BY <2>7, <2>8
<1>17. DescriptorsSound'
  <2> SUFFICES ASSUME ~raced', NEW q \in Proc, NEW f \in Fd, NEW j, j = fileTable'[q][f], j # Null
               PROVE  /\ \A x \in Proc \X Fd : fileTable'[x[1]][x[2]] = j <=> x = <<q, f>>
                      /\ entry'[j].vn # NoFile /\ entry'[j].countRef = 1 /\ refs'[entry'[j].vn] > 0
                      /\ entry'[j].offset = moved'[q][f]
    BY DEF DescriptorsSound, Refers
  <2>0. \A x \in Proc \X Fd : x[1] \in Proc /\ x[2] \in Fd /\ x = <<x[1], x[2]>>
    OBVIOUS
  <2>1. /\ \A x \in Proc \X Fd : fileTable'[x[1]][x[2]] = j <=> x = <<q, f>>
        /\ entry'[j].vn \in File /\ entry'[j].countRef = 1
        /\ entry'[j].offset = moved'[q][f]
    <3>1. CASE taken /\ q = p /\ f = m
      <4>1. j = i /\ i # Null
        BY <1>12, <3>1 DEF taken
      <4>2. ASSUME NEW x \in Proc \X Fd
            PROVE  fileTable'[x[1]][x[2]] = j <=> x = <<q, f>>
        BY <1>12, <1>13, <2>0, <3>1, <4>1
      <4> QED BY <1>11, <1>12, <3>1, <4>1, <4>2
    <3>2. CASE ~(taken /\ q = p /\ f = m)
      <4>1. j = fileTable[q][f] /\ j \in Entries /\ j # i /\ moved'[q][f] = moved[q][f]
        BY <1>12, <1>13, <3>2 DEF OpenFilesSound, FileTypes
      <4>2. /\ \A x \in Proc \X Fd : fileTable[x[1]][x[2]] = j <=> x = <<q, f>>
            /\ entry[j].vn # NoFile /\ entry[j].countRef = 1
            /\ entry[j].offset = moved[q][f]
        BY <1>13, <4>1, Described DEF OpenFilesSound
      <4>3. entry'[j] = entry[j] /\ entry[j].vn \in File
        BY <1>11, <4>1, <4>2 DEF OpenFilesSound, FileTypes, EntryRecords
      <4>4. ASSUME NEW x \in Proc \X Fd
            PROVE  fileTable'[x[1]][x[2]] = j <=> x = <<q, f>>
        <5>1. CASE taken /\ x[1] = p /\ x[2] = m
          <6>1. fileTable'[x[1]][x[2]] = i /\ x # <<q, f>>
            BY <1>12, <3>2, <5>1
          <6> QED BY <4>1, <6>1
        <5>2. CASE ~(taken /\ x[1] = p /\ x[2] = m)
          BY <1>12, <2>0, <4>2, <5>2
        <5> QED BY <5>1, <5>2
      <4> QED BY <4>1, <4>2, <4>3, <4>4
    <3> QED BY <3>1, <3>2
  <2>2. refs'[entry'[j].vn] > 0
    <3>1. PICK w \in File : w = entry'[j].vn
      BY <2>1
    <3>2. <<q, f>> \in Holders(w)'
      <4>1. <<q, f>> \in Proc \X (Fd \cup {-1}) /\ <<q, f>>[1] = q /\ <<q, f>>[2] = f /\ f # -1
        BY DEF Fd
      <4>2. Holds(<<q, f>>, w)'
        BY <3>1, <4>1 DEF Holds
      <4> QED BY <4>1, <4>2 DEF Holders
    <3>3. Cardinality(Holders(w)') > 0 /\ Cardinality(Holders(w)') \in Nat
      <4>1. Holders(w)' \in SUBSET (Proc \X (Fd \cup {-1}))
        BY DEF Holders
      <4> QED BY <3>2, <4>1, HoldersFinite, MemberCounts
    <3>4. Cardinality(Holders(w)') <= refs'[w] /\ refs'[w] \in Nat
      BY <1>7, <1>16, VnodeKinds DEF Held
    <3> QED BY <3>1, <3>3, <3>4
  <2>3. entry'[j].vn # NoFile
    BY <2>1, VnodeKinds
  <2> QED BY <2>1, <2>2, <2>3
<1> QED BY <1>10, <1>14, <1>16, <1>17 DEF OpenFilesSound

\* The processes' part of the invariant, without the counts of references.
Structures == Types /\ Lives /\ PidsExact /\ WaitsLive /\ Family

\* Who waits for whom depends on the menu and the threads that wait.
LEMMA WaitersKept ==
  ASSUME menu' = menu,
         \A q \in User : \/ thread'[q] = thread[q]
                         \/ thread[q].at # "wait" /\ thread'[q].at # "wait"
  PROVE  \A q : Waiters(q)' = Waiters(q)
BY DEF Waiters

\* A step of one process's thread that neither begins nor ends a wait and
\* leaves the process its structure, pid and children.
LEMMA ThreadStep ==
  ASSUME ProcsAssumption, Structures, NEW p \in User, Types', Life(p)',
         UNCHANGED <<table, menu, kids, foreign>>,
         \A q \in Proc : q # p => /\ proc'[q] = proc[q] /\ thread'[q] = thread[q]
                                  /\ ended'[q] = ended[q] /\ fileTable'[q] = fileTable[q],
         proc'[p].live = proc[p].live, proc'[p].pid = proc[p].pid,
         thread[p].at # "wait", thread'[p].at # "wait"
  PROVE  Structures'
<1>1. p \in Proc /\ p # kproc /\ kproc \in Proc
  BY DEF User, ProcsAssumption
<1>2. Lives'
  <2>1. \A q \in Proc : Life(q)'
    <3> TAKE q \in Proc
    <3>1. CASE q = p
      BY <3>1
    <3>2. CASE q # p
      BY <3>2 DEF Structures, Lives, Life
    <3> QED BY <3>1, <3>2
  <2>2. Kernel'
    BY <1>1 DEF Structures, Lives, Kernel
  <2> QED BY <2>1, <2>2 DEF Structures, Lives
<1>3. \A q \in Proc : proc'[q].live = proc[q].live /\ proc'[q].pid = proc[q].pid
  OBVIOUS
<1>4. PidsExact'
  <2>1. \A q \in Proc : proc'[q].live => table[proc'[q].pid] = q
    BY <1>3 DEF Structures, PidsExact
  <2>2. \A i \in 0..MaxProc : table[i] # NoProc => proc'[table[i]].live /\ proc'[table[i]].pid = i
    BY <1>3 DEF Structures, PidsExact, Types
  <2> QED BY <2>1, <2>2 DEF PidsExact
<1>5. WaitsLive'
  <2>1. ASSUME NEW w \in User, thread'[w].at = "wait"
        PROVE  proc'[thread'[w].tgt].live
    <3>1. thread'[w] = thread[w] /\ w \in Proc
      BY <2>1 DEF User
    <3>2. thread[w].tgt \in Proc
      BY <2>1, <3>1 DEF Structures, Types, ThreadRecords, User
    <3> QED BY <1>3, <2>1, <3>1, <3>2 DEF Structures, WaitsLive
  <2>2. menu # NoProc => proc'[menu].live
    BY <1>3 DEF Structures, WaitsLive, Types, User
  <2> QED BY <2>1, <2>2 DEF WaitsLive
<1>6. Family'
  <2>1. \A q : Waiters(q)' = Waiters(q)
    BY WaitersKept DEF User
  <2> QED BY <2>1 DEF Structures, Family
<1> QED BY <1>2, <1>4, <1>5, <1>6 DEF Structures

\* The counts of references depend on what the processes hold.
LEMMA CountsKept ==
  ASSUME ProcsAssumption, VnodesCounted,
         \A v \in Vnodes : v \notin File => refs'[v] = refs[v],
         forked => forked',
         \A q \in Proc : proc'[q].cwd = proc[q].cwd /\ proc'[q].exe = proc[q].exe
  PROVE  VnodesCounted'
<1>1. \A v : /\ {q \in Proc : proc'[q].cwd = v} = {q \in Proc : proc[q].cwd = v}
             /\ {q \in Proc : proc'[q].exe = v} = {q \in Proc : proc[q].exe = v}
  OBVIOUS
<1>2. \A d \in Dir : refs'[d] = Cardinality({q \in Proc : proc'[q].cwd = d})
  BY <1>1, VnodeKinds DEF VnodesCounted
<1>3. forked' \/ \A v \in Vnodes \ (Dir \cup File) : refs'[v] = Cardinality({q \in Proc : proc'[q].exe = v})
  BY <1>1, VnodeKinds DEF VnodesCounted
<1> QED BY <1>2, <1>3 DEF VnodesCounted

\* Executables are found by their vnodes.
LEMMA ImageVnode == \A im \in Images : im.vnode \in Exes
BY DEF Exes

\* runprogram gives a new process its executable.
LEMMA runprogramStep ==
  ASSUME ProcsAssumption, Structures, VnodesCounted, OpenFilesSound, NEW p \in User, runprogram(p)
  PROVE  Structures' /\ VnodesCounted' /\ OpenFilesSound'
<1>1. PICK x \in Exes :
        /\ proc' = [proc EXCEPT ![p].exe = x]
        /\ refs' = [refs EXCEPT ![x] = @ + 1]
        /\ thread' = [thread EXCEPT ![p] = At("user")]
  BY ImageVnode DEF runprogram, proc_setas
<1>2. /\ thread[p].at = "start" /\ p \in Proc
      /\ UNCHANGED <<table, last_i, menu, kids, ended, foreign, forked, fileTable, entry, moved, raced>>
  BY DEF runprogram, At, User
<1>3. proc \in [Proc -> ProcRecords] /\ thread \in [Proc -> ThreadRecords] /\ refs \in [Vnodes -> Nat]
      /\ x \in Vnodes /\ x \notin Dir /\ x \notin File
  BY VnodeKinds DEF Structures, Types, OpenFilesSound, FileTypes
<1>4. /\ proc'[p] \in ProcRecords /\ proc'[p].exe = x
      /\ proc'[p].live = proc[p].live /\ proc'[p].pid = proc[p].pid /\ proc'[p].cwd = proc[p].cwd
      /\ proc'[p].numthreads = proc[p].numthreads /\ proc'[p].sem = proc[p].sem /\ proc'[p].status = proc[p].status
  BY <1>1, <1>2, <1>3 DEF ProcRecords
<1>5. \A q \in Proc : q # p => proc'[q] = proc[q] /\ thread'[q] = thread[q]
  BY <1>1, <1>2, <1>3
<1>6. thread'[p].at = "user" /\ At("user") \in ThreadRecords
  BY <1>1, <1>2, <1>3 DEF At, ThreadRecords
<1>7. Types'
  <2>1. proc' \in [Proc -> ProcRecords]
    BY <1>1, <1>3, <1>4, <1>5
  <2>2. thread' \in [Proc -> ThreadRecords]
    BY <1>1, <1>3, <1>6
  <2> QED BY <1>2, <2>1, <2>2 DEF Structures, Types
<1>8. Life(p) /\ proc[p].live
  BY <1>2 DEF Structures, Lives, Life
<1>9. Life(p)'
  BY <1>1, <1>2, <1>4, <1>6, <1>8 DEF Life, InProgram
<1>10. Structures'
  BY <1>2, <1>4, <1>5, <1>6, <1>7, <1>9, ThreadStep
<1>11. proc[p].exe = NoVnode
  BY <1>2, <1>8 DEF Life
<1>12. VnodesCounted'
  <2>1. \A d \in Dir : {q \in Proc : proc'[q].cwd = d} = {q \in Proc : proc[q].cwd = d} /\ refs'[d] = refs[d]
    BY <1>1, <1>3, <1>4, <1>5, VnodeKinds
  <2>2. ASSUME ~forked, NEW v \in Vnodes \ (Dir \cup File)
        PROVE  refs'[v] = Cardinality({q \in Proc : proc'[q].exe = v})
    <3> DEFINE A == {q \in Proc : proc[q].exe = v}
    <3> DEFINE B == {q \in Proc : proc'[q].exe = v}
    <3>1. A \in SUBSET Proc /\ B \in SUBSET Proc /\ A \ {p} = B \ {p} /\ p \notin A /\ (p \in B <=> v = x)
      BY <1>2, <1>4, <1>5, <1>11, VnodeKinds
    <3>2. refs[v] = Cardinality(A)
      BY <2>2 DEF VnodesCounted
    <3>3. refs'[v] = IF v = x THEN refs[v] + 1 ELSE refs[v]
      BY <1>1, <1>3
    <3> HIDE DEF A, B
    <3>4. Cardinality(B) = IF v = x THEN Cardinality(A) + 1 ELSE Cardinality(A)
      BY <3>1, CountMoves DEF ProcsAssumption
    <3>5. refs'[v] = Cardinality(B)
      BY <3>2, <3>3, <3>4
    <3> QED BY <3>5 DEF B
  <2> QED BY <1>2, <2>1, <2>2 DEF VnodesCounted
<1>13. OpenFilesSound'
  <2>1. FileTypes'
    BY <1>1, <1>2, <1>3 DEF OpenFilesSound, FileTypes
  <2>2. \A v \in File : refs'[v] = refs[v]
    BY <1>1, <1>3, VnodeKinds
  <2>3. \A q \in Proc : thread'[q] = thread[q] \/ thread'[q].at \notin {"open", "io"}
    BY <1>5, <1>6
  <2> QED BY <1>2, <2>1, <2>2, <2>3, FilesKept DEF Structures
<1> QED BY <1>10, <1>12, <1>13

\* ThreadStep for a step that opens no executable and closes none.
LEMMA PlainStep ==
  ASSUME ProcsAssumption, Structures, VnodesCounted, NEW p \in User,
         NEW r \in ProcRecords, NEW a \in ThreadRecords,
         proc' = [proc EXCEPT ![p] = r], thread' = [thread EXCEPT ![p] = a],
         r.live = proc[p].live, r.pid = proc[p].pid, r.cwd = proc[p].cwd, r.exe = proc[p].exe,
         thread[p].at # "wait", a.at # "wait",
         UNCHANGED <<table, last_i, menu, kids, foreign, forked>>,
         ended' \in [Proc -> Nat \cup {NotYet}],
         \A q \in Proc : q # p => ended'[q] = ended[q] /\ fileTable'[q] = fileTable[q],
         \A v \in Vnodes : v \notin File => refs'[v] = refs[v],
         Life(p)'
  PROVE  Structures' /\ VnodesCounted'
<1>1. p \in Proc /\ proc \in [Proc -> ProcRecords] /\ thread \in [Proc -> ThreadRecords]
  BY DEF User, Structures, Types
<1>2. proc'[p] = r /\ thread'[p] = a /\ \A q \in Proc : q # p => proc'[q] = proc[q] /\ thread'[q] = thread[q]
  BY <1>1
<1>3. Types'
  <2>1. proc' \in [Proc -> ProcRecords] /\ thread' \in [Proc -> ThreadRecords]
    BY <1>1
  <2> QED BY <2>1 DEF Structures, Types
<1>4. Structures'
  BY <1>2, <1>3, ThreadStep
<1>5. \A q \in Proc : proc'[q].cwd = proc[q].cwd /\ proc'[q].exe = proc[q].exe
  BY <1>2
<1> QED BY <1>4, <1>5, CountsKept

\* What the step of a process in its program may lean on.
LEMMA ProgramRuns ==
  ASSUME ProcsAssumption, Structures, NEW p \in User
  PROVE  /\ p \in Proc /\ proc[p] \in ProcRecords /\ thread[p] \in ThreadRecords /\ Life(p)
         /\ proc \in [Proc -> ProcRecords] /\ thread \in [Proc -> ThreadRecords]
         /\ ended \in [Proc -> Nat \cup {NotYet}]
         /\ \A a \in {"none", "start", "forked", "user", "signal"} : At(a) \in ThreadRecords /\ At(a).at = a
         /\ proc = [proc EXCEPT ![p] = proc[p]]
BY DEF User, Structures, Types, Lives, At, ThreadRecords

\* The records of processes that step: proc_remthread, and the V of
\* proc_signal_end.
LEMMA RecordLeft ==
  ASSUME NEW x \in ProcRecords, x.numthreads = 1
  PROVE  LET r == [x EXCEPT !.numthreads = @ - 1]
         IN  /\ r \in ProcRecords /\ r.numthreads = 0 /\ r.status = x.status
             /\ r.cwd = x.cwd /\ r.pid = x.pid /\ r.exe = x.exe /\ r.sem = x.sem /\ r.live = x.live
BY DEF ProcRecords

\* The V of proc_signal_end, in the record.
LEMMA RecordSignalled ==
  ASSUME NEW x \in ProcRecords, x.sem = 0
  PROVE  LET r == [x EXCEPT !.sem = @ + 1]
         IN  /\ r \in ProcRecords /\ r.sem = 1 /\ r.numthreads = x.numthreads
             /\ r.cwd = x.cwd /\ r.pid = x.pid /\ r.exe = x.exe /\ r.status = x.status /\ r.live = x.live
BY DEF ProcRecords

\* A process whose thread is out, or on its way out, satisfies Life.
LEMMA LifeAfter ==
  ASSUME NEW p, proc'[p].live, proc'[p].pid # 0, proc'[p].cwd \in Dir, proc'[p].numthreads = 0,
         \/ thread'[p].at = "none" /\ proc'[p].sem = 0
         \/ /\ \/ thread'[p].at = "none"
               \/ thread'[p].at = "signal" /\ proc'[p].sem = 0 /\ proc'[p].exe \in Exes
            /\ ended'[p] # NotYet /\ proc'[p].status = ended'[p] % 256
  PROVE Life(p)'
BY DEF Life, InProgram

\* A program that cannot be run leaves its process without a thread.
LEMMA cmd_progthreadStep ==
  ASSUME ProcsAssumption, Structures, VnodesCounted, OpenFilesSound, NEW p \in User, cmd_progthread(p)
  PROVE  Structures' /\ VnodesCounted' /\ OpenFilesSound'
<1> DEFINE r == [proc[p] EXCEPT !.numthreads = @ - 1]
<1>1. thread[p].at = "start" /\ Life(p) /\ p \in Proc
  BY ProgramRuns DEF cmd_progthread, At
<1>2. proc[p].live /\ proc[p].numthreads = 1 /\ proc[p].sem = 0
  BY <1>1 DEF Life
<1>3. /\ r \in ProcRecords /\ r.numthreads = 0
      /\ r.live = proc[p].live /\ r.pid = proc[p].pid /\ r.cwd = proc[p].cwd /\ r.exe = proc[p].exe
      /\ r.sem = proc[p].sem /\ r.status = proc[p].status
  <2>1. proc[p] \in ProcRecords
    BY ProgramRuns
  <2> QED BY <1>2, <2>1, RecordLeft
<1>4. /\ proc' = [proc EXCEPT ![p] = r] /\ thread' = [thread EXCEPT ![p] = At("none")]
      /\ UNCHANGED <<table, last_i, menu, kids, ended, foreign, forked, files>>
  BY ProgramRuns DEF cmd_progthread, proc_remthread, Gone, At
<1> HIDE DEF r
<1>5. At("none") \in ThreadRecords /\ At("none").at = "none"
  BY ProgramRuns
<1>6. proc'[p] = r /\ thread'[p] = At("none")
  BY <1>4, ProgramRuns
<1>7. Life(p)'
  <2>1. proc[p].pid # 0 /\ proc[p].cwd \in Dir
    BY <1>1, <1>2 DEF Life
  <2> QED BY <1>2, <1>3, <1>5, <1>6, <2>1, LifeAfter
<1>8. Structures' /\ VnodesCounted'
  BY <1>1, <1>3, <1>4, <1>5, <1>7, ProgramRuns, PlainStep DEF files
<1>9. \A q \in Proc : thread'[q] = thread[q] \/ thread'[q].at \notin {"open", "io"}
  BY <1>4, <1>5, ProgramRuns
<1>10. OpenFilesSound'
  <2>1. FileTypes'
    BY <1>4 DEF OpenFilesSound, FileTypes, files
  <2> QED BY <1>4, <1>9, <2>1, FilesKept DEF Structures, files
<1> QED BY <1>8, <1>10

\* The child of a fork enters its program.
LEMMA enter_forked_processStep ==
  ASSUME ProcsAssumption, Structures, VnodesCounted, OpenFilesSound, NEW p \in User, enter_forked_process(p)
  PROVE  Structures' /\ VnodesCounted' /\ OpenFilesSound'
<1>1. thread[p].at = "forked" /\ Life(p) /\ p \in Proc
  BY ProgramRuns DEF enter_forked_process, At
<1>2. /\ proc' = [proc EXCEPT ![p] = proc[p]] /\ thread' = [thread EXCEPT ![p] = At("user")]
      /\ UNCHANGED <<proc, table, last_i, menu, kids, ended, foreign, forked, files>>
  BY ProgramRuns DEF enter_forked_process
<1>3. At("user") \in ThreadRecords /\ At("user").at = "user" /\ thread'[p] = At("user")
  BY <1>2, ProgramRuns
<1>4. Life(p)'
  BY <1>1, <1>2, <1>3 DEF Life, InProgram, files
<1>5. Structures' /\ VnodesCounted'
  BY <1>1, <1>2, <1>3, <1>4, ProgramRuns, PlainStep DEF files
<1>6. \A q \in Proc : thread'[q] = thread[q] \/ thread'[q].at \notin {"open", "io"}
  BY <1>2, <1>3, ProgramRuns
<1>7. OpenFilesSound'
  <2>1. FileTypes'
    BY <1>2 DEF OpenFilesSound, FileTypes, files
  <2> QED BY <1>2, <1>6, <2>1, FilesKept DEF Structures, files
<1> QED BY <1>5, <1>7

\* _exit leaves the status before the signal.
LEMMA sys__exitStep ==
  ASSUME ProcsAssumption, Structures, VnodesCounted, OpenFilesSound, NEW p \in User, sys__exit(p)
  PROVE  Structures' /\ VnodesCounted' /\ OpenFilesSound'
<1>0. PICK code \in Codes :
        /\ proc' = [proc_remthread(p) EXCEPT ![p].status = low8(code)]
        /\ ended' = [ended EXCEPT ![p] = code]
  BY DEF sys__exit
<1>1. thread[p].at = "user" /\ Life(p) /\ p \in Proc /\ code \in Nat
  BY ProgramRuns DEF sys__exit, At, ProcsAssumption
<1>2. proc[p].live /\ proc[p].numthreads = 1 /\ proc[p].sem = 0 /\ proc[p].exe \in Exes /\ code % 256 \in 0..255
  BY <1>1 DEF Life, InProgram
<1> DEFINE x == [proc[p] EXCEPT !.numthreads = @ - 1]
<1> DEFINE r == [x EXCEPT !.status = code % 256]
<1>3. /\ r \in ProcRecords /\ r.numthreads = 0 /\ r.status = code % 256
      /\ r.live = proc[p].live /\ r.pid = proc[p].pid /\ r.cwd = proc[p].cwd /\ r.exe = proc[p].exe
      /\ r.sem = proc[p].sem
  <2>1. proc[p] \in ProcRecords
    BY ProgramRuns
  <2>2. /\ x \in ProcRecords /\ x.numthreads = 0
        /\ x.live = proc[p].live /\ x.pid = proc[p].pid /\ x.cwd = proc[p].cwd /\ x.exe = proc[p].exe
        /\ x.sem = proc[p].sem
    BY <1>2, <2>1, RecordLeft
  <2>3. PICK c \in 0..255 : c = code % 256
    BY <1>2
  <2> HIDE DEF x
  <2>4. r = [x EXCEPT !.status = c]
    BY <2>3
  <2>5. /\ r \in ProcRecords /\ r.numthreads = x.numthreads /\ r.status = c
        /\ r.cwd = x.cwd /\ r.pid = x.pid /\ r.exe = x.exe /\ r.sem = x.sem /\ r.live = x.live
    BY <2>2, <2>4 DEF ProcRecords
  <2> HIDE DEF r
  <2> QED BY <2>2, <2>3, <2>5
<1>4. proc' = [proc EXCEPT ![p] = r]
  <2>1. proc[p] \in ProcRecords /\ proc \in [Proc -> ProcRecords]
    BY ProgramRuns
  <2>2. proc_remthread(p) = [proc EXCEPT ![p] = x]
    BY <1>1, <2>1 DEF proc_remthread
  <2> HIDE DEF x
  <2>3. [proc_remthread(p) EXCEPT ![p].status = code % 256] = [proc EXCEPT ![p] = r]
    BY <1>1, <2>1, <2>2
  <2> QED BY <1>0, <2>3 DEF low8
<1>5. /\ thread' = [thread EXCEPT ![p] = At("signal")]
      /\ UNCHANGED <<table, last_i, menu, kids, foreign, forked, files>>
  BY DEF sys__exit
<1> HIDE DEF r, x
<1>6. At("signal") \in ThreadRecords /\ At("signal").at = "signal" /\ thread'[p] = At("signal") /\ proc'[p] = r
  BY <1>4, <1>5, ProgramRuns
<1>7. ended'[p] = code /\ code # NotYet /\ ended' \in [Proc -> Nat \cup {NotYet}]
      /\ \A q \in Proc : q # p => ended'[q] = ended[q]
  BY <1>0, <1>1, ProgramRuns DEF NotYet
<1>8. Life(p)'
  <2>1. proc[p].pid # 0 /\ proc[p].cwd \in Dir
    BY <1>1, <1>2 DEF Life
  <2> QED BY <1>2, <1>3, <1>6, <1>7, <2>1, LifeAfter
<1>9. Structures' /\ VnodesCounted'
  <2>1. thread[p].at # "wait" /\ At("signal").at # "wait"
    BY <1>1, <1>6
  <2>2. UNCHANGED <<table, last_i, menu, kids, foreign, forked, fileTable, refs>>
    BY <1>5 DEF files
  <2> QED BY <1>3, <1>4, <1>5, <1>6, <1>7, <1>8, <2>1, <2>2, PlainStep
<1>10. \A q \in Proc : thread'[q] = thread[q] \/ thread'[q].at \notin {"open", "io"}
  BY <1>5, <1>6, ProgramRuns
<1>11. OpenFilesSound'
  <2>1. FileTypes'
    BY <1>5 DEF OpenFilesSound, FileTypes, files
  <2> QED BY <1>5, <1>10, <2>1, FilesKept DEF Structures, files
<1> QED BY <1>9, <1>11

\* The signal comes after the status.
LEMMA proc_signal_endStep ==
  ASSUME ProcsAssumption, Structures, VnodesCounted, OpenFilesSound, NEW p \in User, proc_signal_end(p)
  PROVE  Structures' /\ VnodesCounted' /\ OpenFilesSound'
<1>1. thread[p].at = "signal" /\ Life(p) /\ p \in Proc
  BY ProgramRuns DEF proc_signal_end, At
<1>2. /\ proc[p].live /\ proc[p].numthreads = 0 /\ proc[p].sem = 0
      /\ ended[p] # NotYet /\ proc[p].status = ended[p] % 256
  BY <1>1 DEF Life
<1> DEFINE r == [proc[p] EXCEPT !.sem = @ + 1]
<1>3. /\ r \in ProcRecords /\ r.sem = 1
      /\ r.live = proc[p].live /\ r.pid = proc[p].pid /\ r.cwd = proc[p].cwd /\ r.exe = proc[p].exe
      /\ r.numthreads = proc[p].numthreads /\ r.status = proc[p].status
  <2>1. proc[p] \in ProcRecords
    BY ProgramRuns
  <2> QED BY <1>2, <2>1, RecordSignalled
<1>4. /\ proc' = [proc EXCEPT ![p] = r] /\ thread' = [thread EXCEPT ![p] = At("none")]
      /\ UNCHANGED <<table, last_i, menu, kids, ended, foreign, forked, files>>
  BY ProgramRuns DEF proc_signal_end, Gone, At
<1> HIDE DEF r
<1>5. At("none") \in ThreadRecords /\ At("none").at = "none" /\ thread'[p] = At("none") /\ proc'[p] = r
  BY <1>4, ProgramRuns
<1>6. Life(p)'
  BY <1>1, <1>2, <1>3, <1>4, <1>5 DEF Life, InProgram, files
<1>7. Structures' /\ VnodesCounted'
  BY <1>1, <1>3, <1>4, <1>5, <1>6, ProgramRuns, PlainStep DEF files
<1>8. \A q \in Proc : thread'[q] = thread[q] \/ thread'[q].at \notin {"open", "io"}
  BY <1>4, <1>5, ProgramRuns
<1>9. OpenFilesSound'
  <2>1. FileTypes'
    BY <1>4 DEF OpenFilesSound, FileTypes, files
  <2> QED BY <1>4, <1>8, <2>1, FilesKept DEF Structures, files
<1> QED BY <1>7, <1>9

\* The steps of a program's calls on its files, as the processes see them.
LEMMA FileStep ==
  ASSUME ProcsAssumption, Structures, VnodesCounted, NEW p \in User,
         thread[p].at \in {"user", "open", "io"}, NEW a \in ThreadRecords, a.at \in {"user", "open", "io"},
         thread' = [thread EXCEPT ![p] = a],
         UNCHANGED <<proc, table, last_i, menu, kids, ended, foreign, forked>>,
         \A q \in Proc : q # p => fileTable'[q] = fileTable[q],
         \A v \in Vnodes : v \notin File => refs'[v] = refs[v]
  PROVE  Structures' /\ VnodesCounted'
<1>1. thread'[p] = a /\ p \in Proc /\ proc' = [proc EXCEPT ![p] = proc[p]] /\ proc[p] \in ProcRecords
  BY ProgramRuns
<1>2. proc[p].live /\ Life(p)
  BY ProgramRuns DEF Life, InProgram
<1>3. Life(p)'
  BY <1>1, <1>2 DEF Life, InProgram
<1> QED BY <1>1, <1>3, ProgramRuns, PlainStep

\* A new process: nobody waited for its structure, and nobody's child had its
\* pid.
LEMMA BornStep ==
  ASSUME ProcsAssumption, Structures, NEW c \in User, ~proc[c].live, thread[c].at = "none",
         NEW pid \in Pids, table[pid] = NoProc, NEW cwd \in Dir, NEW exe \in Exes \cup {NoVnode},
         NEW a \in {"start", "forked"}, a = "start" <=> exe = NoVnode, Born(c, pid, cwd, exe, a),
         menu' = menu \/ (menu = NoProc /\ menu' = c),
         NEW p \in Proc, p # c, kids' \in [Proc -> SUBSET Pids],
         \A q \in Proc : q # p => kids'[q] = kids[q],
         kids'[p] = kids[p] \/ (menu' = menu /\ proc[p].live /\ kids'[p] = kids[p] \cup {pid}),
         UNCHANGED <<ended, foreign>>, forked' \in BOOLEAN,
         \A q \in Proc : fileTable'[q] = fileTable[q] \/ fileTable'[q] = NoFiles
  PROVE  Structures'
<1> DEFINE new == proc_create(pid, cwd, 1, exe)
<1>1. /\ table' = [table EXCEPT ![pid] = c] /\ last_i' = pid
      /\ proc' = [proc EXCEPT ![c] = new] /\ thread' = [thread EXCEPT ![c] = At(a)]
  BY DEF Born
<1>2. /\ proc \in [Proc -> ProcRecords] /\ thread \in [Proc -> ThreadRecords]
      /\ table \in [0..MaxProc -> Proc \cup {NoProc}] /\ pid \in 0..MaxProc /\ pid # 0
      /\ c \in Proc /\ c # kproc /\ c # NoProc /\ MaxProc \in Nat
  BY DEF Structures, Types, User, Pids, ProcsAssumption
<1>3. /\ new \in ProcRecords /\ new.live /\ new.pid = pid /\ new.numthreads = 1 /\ new.sem = 0
      /\ new.cwd = cwd /\ new.exe = exe
  BY <1>2 DEF proc_create, ProcRecords
<1>4. At(a) \in ThreadRecords /\ At(a).at = a
  BY ProgramRuns
<1> HIDE DEF new
<1>5. /\ proc'[c] = new /\ \A q \in Proc : q # c => proc'[q] = proc[q]
      /\ thread'[c].at = a /\ \A q \in Proc : q # c => thread'[q] = thread[q]
      /\ table'[pid] = c /\ \A i \in 0..MaxProc : i # pid => table'[i] = table[i]
  BY <1>1, <1>2, <1>4
<1>6. Types'
  <2>1. proc' \in [Proc -> ProcRecords] /\ thread' \in [Proc -> ThreadRecords]
    BY <1>1, <1>2, <1>3, <1>4
  <2>2. table' \in [0..MaxProc -> Proc \cup {NoProc}] /\ last_i' \in Pids
    BY <1>1, <1>2
  <2>3. menu' \in User \cup {NoProc}
    BY DEF Structures, Types
  <2> QED BY <2>1, <2>2, <2>3 DEF Structures, Types
<1>7. Lives'
  <2>1. \A q \in Proc : Life(q)'
    <3> TAKE q \in Proc
    <3>1. CASE q = c
      BY <1>2, <1>3, <1>5, <3>1 DEF Life, InProgram
    <3>2. CASE q # c
      <4>2. Life(q)
        BY DEF Structures, Lives
      <4>3. ~proc[q].live => kids'[q] = {}
        <5>1. ~proc[q].live => kids[q] = {}
          BY <4>2 DEF Life
        <5> QED BY <5>1
      <4> QED BY <1>5, <3>2, <4>2, <4>3 DEF Life
    <3> QED BY <3>1, <3>2
  <2>2. Kernel'
    BY <1>2, <1>5 DEF Structures, Lives, Kernel, ProcsAssumption
  <2>3. table'[0] = NoProc
    BY <1>2, <1>5 DEF Structures, Lives
  <2> QED BY <2>1, <2>2, <2>3 DEF Lives
<1>8. PidsExact'
  <2>1. ASSUME NEW q \in Proc, proc'[q].live
        PROVE  table'[proc'[q].pid] = q
    <3>1. CASE q = c
      BY <1>3, <1>5, <3>1
    <3>2. CASE q # c
      <4>1. proc'[q] = proc[q] /\ table[proc[q].pid] = q /\ proc[q].pid \in 0..MaxProc /\ q # NoProc
        BY <1>2, <1>5, <2>1, <3>2 DEF Structures, PidsExact, ProcRecords, ProcsAssumption
      <4> QED BY <1>5, <4>1
    <3> QED BY <3>1, <3>2
  <2>2. ASSUME NEW i \in 0..MaxProc, table'[i] # NoProc
        PROVE  proc'[table'[i]].live /\ proc'[table'[i]].pid = i
    <3>1. CASE i = pid
      BY <1>3, <1>5, <3>1
    <3>2. CASE i # pid
      <4>1. table'[i] = table[i] /\ table[i] \in Proc /\ proc[table[i]].live /\ proc[table[i]].pid = i
        BY <1>2, <1>5, <2>2, <3>2 DEF Structures, PidsExact
      <4> QED BY <1>5, <4>1
    <3> QED BY <3>1, <3>2
  <2> QED BY <2>1, <2>2 DEF PidsExact
<1>9. /\ \A w \in User : thread'[w].at = "wait" => w # c /\ thread'[w] = thread[w] /\ thread[w].tgt # c
                                                   /\ thread[w].tgt \in Proc /\ proc[thread[w].tgt].live
      /\ menu # NoProc => menu # c /\ menu \in Proc
  <2>1. ASSUME NEW w \in User, thread'[w].at = "wait"
        PROVE  w # c /\ thread'[w] = thread[w] /\ thread[w].tgt # c /\ thread[w].tgt \in Proc /\ proc[thread[w].tgt].live
    <3>1. w # c /\ w \in Proc
      BY <1>5, <2>1 DEF User
    <3>2. thread'[w] = thread[w]
      BY <1>5, <3>1
    <3>3. proc[thread[w].tgt].live /\ thread[w].tgt \in Proc
      BY <2>1, <3>1, <3>2 DEF Structures, WaitsLive, Types, ThreadRecords, User
    <3> QED BY <3>1, <3>2, <3>3
  <2> QED BY <2>1 DEF Structures, WaitsLive, Types, User
<1>10. WaitsLive'
  <2>1. ASSUME NEW w \in User, thread'[w].at = "wait"
        PROVE  proc'[thread'[w].tgt].live
    BY <1>5, <1>9, <2>1
  <2>2. menu' # NoProc => proc'[menu'].live
    BY <1>3, <1>5, <1>9 DEF Structures, WaitsLive
  <2> QED BY <2>1, <2>2 DEF WaitsLive
<1>11. /\ \A q : q # c => Waiters(q)' \subseteq Waiters(q)
       /\ Waiters(c)' \subseteq {kproc} /\ (menu' = menu => Waiters(c)' = {})
  <2>1. ASSUME NEW q, NEW w \in User, thread'[w].at = "wait", thread'[w].tgt = q
        PROVE  q # c /\ thread[w].at = "wait" /\ thread[w].tgt = q
    BY <1>9, <2>1
  <2>2. menu' = menu => menu' # c
    BY <1>2, <1>9
  <2>3. \A q : q # c /\ menu' = q => menu = q
    OBVIOUS
  <2> QED BY <2>1, <2>2, <2>3 DEF Waiters
<1>12. Family'
  <2> SUFFICES ASSUME ~foreign
               PROVE  /\ \A q \in User, v, w \in Proc : v \in Waiters(q)' /\ w \in Waiters(q)' => v = w
                      /\ \A q \in Proc : \A x \in kids'[q] : table'[x] \in User /\ Waiters(table[x])' = {}
                      /\ \A q, r \in Proc : q # r => kids'[q] \cap kids'[r] = {}
    BY DEF Family
  <2>1. \A q \in User, v, w \in Proc : v \in Waiters(q) /\ w \in Waiters(q) => v = w
    BY DEF Structures, Family
  <2>2. ASSUME NEW q \in Proc, NEW x \in kids[q]
        PROVE  /\ x # pid /\ x \in 0..MaxProc /\ table[x] \in User /\ table[x] # c
               /\ \A w : w \notin Waiters(table[x])
    <3>1. x \in Pids /\ table[x] \in User /\ Waiters(table[x]) = {}
      BY DEF Structures, Types, Family
    <3>2. x \in 0..MaxProc /\ table[x] # NoProc
      BY <1>2, <3>1 DEF Pids, User, ProcsAssumption
    <3>3. proc[table[x]].live
      BY <3>2 DEF Structures, PidsExact
    <3> QED BY <3>1, <3>2, <3>3
  <2>3. \A q \in Proc : kids'[q] \subseteq kids[q] \cup {pid} /\ (q # p => kids'[q] = kids[q]) /\ (pid \in kids'[q] => menu' = menu)
    BY <2>2
  <2>4. ASSUME NEW q \in User, NEW v \in Proc, NEW w \in Proc, v \in Waiters(q)', w \in Waiters(q)'
        PROVE  v = w
    BY <1>11, <2>1, <2>4
  <2>5. ASSUME NEW q \in Proc, NEW x \in kids'[q], NEW y, y = table'[x]
        PROVE  y \in User /\ \A w : w \notin Waiters(y)'
    <3>1. CASE x = pid
      <4>1. y = c /\ menu' = menu
        BY <1>5, <2>3, <2>5, <3>1
      <4> QED BY <1>11, <4>1
    <3>2. CASE x # pid
      <4>1. x \in kids[q]
        BY <2>3, <3>2
      <4>2. y = table[x]
        BY <1>5, <2>2, <2>5, <4>1
      <4> QED BY <1>11, <2>2, <4>1, <4>2
    <3> QED BY <3>1, <3>2
  <2>6. ASSUME NEW q \in Proc, NEW x \in kids'[q]
        PROVE  table'[x] \in User /\ Waiters(table[x])' = {}
    BY <2>5
  <2>7. ASSUME NEW q \in Proc, NEW r \in Proc, q # r
        PROVE  kids'[q] \cap kids'[r] = {}
    <3>1. kids[q] \cap kids[r] = {} /\ pid \notin kids[q] /\ pid \notin kids[r]
      BY <2>2, <2>7 DEF Structures, Family
    <3> QED BY <2>3, <2>7, <3>1
  <2> QED BY <2>4, <2>6, <2>7
<1> QED BY <1>6, <1>7, <1>8, <1>10, <1>12 DEF Structures

\* A new process holds its working directory, and after a fork the executable.
LEMMA BornCounts ==
  ASSUME ProcsAssumption, Structures, VnodesCounted, refs \in [Vnodes -> Nat],
         NEW c \in User, ~proc[c].live,
         NEW pid \in Pids, NEW cwd \in Dir, NEW exe, NEW a, Born(c, pid, cwd, exe, a),
         exe = NoVnode \/ forked', forked => forked'
  PROVE  VnodesCounted'
<1>1. /\ proc' = [proc EXCEPT ![c] = proc_create(pid, cwd, 1, exe)]
      /\ refs' = [refs EXCEPT ![cwd] = @ + 1]
      /\ c \in Proc /\ proc[c] = Dead /\ proc \in [Proc -> ProcRecords]
  BY DEF Born, User, Structures, Types, Lives, Life
<1>2. /\ proc'[c].cwd = cwd /\ proc'[c].exe = exe /\ \A q \in Proc : q # c => proc'[q] = proc[q]
      /\ proc[c].cwd = NoVnode /\ proc[c].exe = NoVnode
  BY <1>1 DEF proc_create, Dead
<1>3. \A d \in Vnodes : refs'[d] = IF d = cwd THEN refs[d] + 1 ELSE refs[d]
  BY <1>1
<1>4. ASSUME NEW d \in Dir
      PROVE  refs'[d] = Cardinality({q \in Proc : proc'[q].cwd = d})
  <2> DEFINE A == {q \in Proc : proc[q].cwd = d}
  <2> DEFINE B == {q \in Proc : proc'[q].cwd = d}
  <2>1. A \in SUBSET Proc /\ B \in SUBSET Proc /\ A \ {c} = B \ {c} /\ c \notin A /\ (c \in B <=> d = cwd)
    BY <1>1, <1>2, VnodeKinds
  <2>2. refs[d] = Cardinality(A) /\ d \in Vnodes
    BY VnodeKinds DEF VnodesCounted
  <2> HIDE DEF A, B
  <2>3. Cardinality(B) = IF d = cwd THEN Cardinality(A) + 1 ELSE Cardinality(A)
    BY <2>1, CountMoves DEF ProcsAssumption
  <2>4. refs'[d] = Cardinality(B)
    BY <1>3, <2>2, <2>3
  <2> QED BY <2>4 DEF B
<1>5. ASSUME ~forked', NEW v \in Vnodes \ (Dir \cup File)
      PROVE  refs'[v] = Cardinality({q \in Proc : proc'[q].exe = v})
  <2>1. {q \in Proc : proc'[q].exe = v} = {q \in Proc : proc[q].exe = v}
    BY <1>1, <1>2, <1>5, VnodeKinds
  <2>2. refs[v] = Cardinality({q \in Proc : proc[q].exe = v})
    BY <1>5 DEF VnodesCounted
  <2>3. refs'[v] = refs[v]
    BY <1>3, <1>5
  <2> QED BY <2>1, <2>2, <2>3
<1> QED BY <1>4, <1>5 DEF VnodesCounted

\* The kernel has not stopped.
Running == stopped = ""

\* A kernel that runs has stopped for no reason.
LEMMA RunningHonest == ASSUME Running PROVE StopsHonest
BY Zenon DEF Running, StopsHonest

\* And a step that does not stop it leaves it so.
LEMMA RunsOn == ASSUME Running, stopped' = stopped PROVE StopsHonest'
BY Zenon DEF Running, StopsHonest

\* What the pid search gives the processes.
LEMMA PidFree ==
  ASSUME ProcsAssumption, Structures, proc_init_waitpid # 0
  PROVE  proc_init_waitpid \in Pids /\ table[proc_init_waitpid] = NoProc
BY PidFound DEF Structures, Types

\* The kernel's process stands, with a directory to run in.
LEMMA KernelStands ==
  ASSUME ProcsAssumption, Structures
  PROVE  kproc \in Proc /\ proc[kproc].live /\ proc[kproc].cwd \in Dir
BY DEF ProcsAssumption, Structures, Lives, Kernel, Life

\* A step that only gives a pid up again.
LEMMA StillbornStep ==
  ASSUME ProcsAssumption, Structures, VnodesCounted, NEW pid \in Pids, Stillborn(pid),
         \A q \in Proc : fileTable'[q] = fileTable[q] \/ fileTable'[q] = NoFiles,
         forked' \in BOOLEAN, forked => forked',
         \A d \in Dir : refs'[d] = refs[d],
         forked' \/ UNCHANGED refs
  PROVE  Structures' /\ VnodesCounted' /\ stopped' = stopped
<1>1. last_i' = pid /\ UNCHANGED <<proc, table, thread, menu, kids, ended, foreign, stopped>>
  BY DEF Stillborn
<1>2. Types'
  BY <1>1 DEF Structures, Types
<1>3. Lives'
  <2>1. \A q \in Proc : Life(q)'
    BY <1>1 DEF Structures, Lives, Life
  <2> QED BY <1>1, <2>1 DEF Structures, Lives, Kernel
<1>4. PidsExact' /\ WaitsLive' /\ Family'
  BY <1>1 DEF Structures, PidsExact, WaitsLive, Family, Waiters
<1>5. VnodesCounted'
  <2>1. \A d \in Dir : refs'[d] = Cardinality({q \in Proc : proc'[q].cwd = d})
    BY <1>1 DEF VnodesCounted
  <2>2. forked' \/ \A v \in Vnodes \ (Dir \cup File) : refs'[v] = Cardinality({q \in Proc : proc'[q].exe = v})
    BY <1>1 DEF VnodesCounted
  <2> QED BY <2>1, <2>2 DEF VnodesCounted
<1> QED BY <1>1, <1>2, <1>3, <1>4, <1>5 DEF Structures

\* A panic leaves everything but stopped alone.
LEMMA StopKeeps ==
  ASSUME NEW why, Stop(why), Structures, VnodesCounted, OpenFilesSound
  PROVE  Structures' /\ VnodesCounted' /\ OpenFilesSound'
<1>1. UNCHANGED <<proc, table, last_i, thread, menu, kids, ended, foreign, forked, fails,
                  fileTable, entry, refs, moved, raced>>
  BY DEF Stop, files
<1>2. Structures'
  <2>1. \A q \in Proc : Life(q)'
    BY <1>1 DEF Structures, Lives, Life
  <2>2. Types' /\ Lives'
    BY <1>1, <2>1 DEF Structures, Types, Lives, Kernel
  <2>3. PidsExact' /\ WaitsLive' /\ Family'
    BY <1>1 DEF Structures, PidsExact, WaitsLive, Family, Waiters
  <2> QED BY <2>2, <2>3 DEF Structures
<1>3. VnodesCounted'
  BY <1>1 DEF VnodesCounted
<1>4. FileTypes' /\ Reading' /\ DescriptorsSound'
  BY <1>1 DEF OpenFilesSound, FileTypes, Reading, DescriptorsSound, Refers
<1>5. Held'
  <2>1. \A v : Holders(v)' = Holders(v)
    BY <1>1 DEF Holders, Holds
  <2> QED BY <1>1, <2>1 DEF OpenFilesSound, Held
<1> QED BY <1>2, <1>3, <1>4, <1>5 DEF OpenFilesSound

\* The menu's commands start a process, or fail.
LEMMA common_progStep ==
  ASSUME ProcsAssumption, Structures, VnodesCounted, OpenFilesSound, Running, common_prog
  PROVE  Structures' /\ VnodesCounted' /\ OpenFilesSound' /\ StopsHonest'
<1> DEFINE pid == proc_init_waitpid
<1>0. menu = NoProc
  BY DEF common_prog
<1>1. CASE pid = 0
  <2>1. Stop("process table full")
    BY <1>1 DEF common_prog
  <2>2. \A i \in Pids \ {last_i} : table[i] # NoProc
    BY <1>1, PidFound DEF Structures, Types
  <2>3. stopped' = "process table full" /\ UNCHANGED <<table, last_i>>
    BY <2>1 DEF Stop
  <2>4. StopsHonest'
    BY <2>2, <2>3 DEF StopsHonest
  <2> QED BY <2>1, <2>4, StopKeeps
<1>2. ASSUME pid # 0, NEW p \in User, ~proc[p].live, thread[p] = Gone,
             Born(p, pid, proc[kproc].cwd, NoVnode, "start"), menu' = p,
             UNCHANGED <<kids, ended, foreign, forked, fails, stopped, fileTable, entry, moved, raced>>
      PROVE  Structures' /\ VnodesCounted' /\ OpenFilesSound' /\ StopsHonest'
  <2>1. pid \in Pids /\ table[pid] = NoProc
    BY <1>2, PidFree
  <2> HIDE DEF pid
  <2>2. kproc \in Proc /\ kproc # p /\ proc[kproc].cwd \in Dir /\ thread[p].at = "none" /\ NoVnode \notin Exes
    <3>1. kproc \in Proc /\ kproc # p /\ proc[kproc].cwd \in Dir
      BY <1>2, KernelStands DEF User
    <3>2. NoVnode \notin Exes
      BY VnodeKinds
    <3>3. thread[p].at = "none"
      BY <1>2 DEF Gone
    <3> QED BY <3>1, <3>2, <3>3
  <2>3. PICK cwd \in Dir : cwd = proc[kproc].cwd
    BY <2>2
  <2>4. Born(p, pid, cwd, NoVnode, "start")
    BY <1>2, <2>3
  <2>5. kids' \in [Proc -> SUBSET Pids] /\ forked' \in BOOLEAN
    BY <1>2 DEF Structures, Types
  <2>6. Structures'
    BY <1>0, <1>2, <2>1, <2>2, <2>4, <2>5, BornStep
  <2>7. refs \in [Vnodes -> Nat]
    BY DEF OpenFilesSound, FileTypes
  <2>8. VnodesCounted'
    BY <1>2, <2>1, <2>4, <2>7, BornCounts
  <2>9. OpenFilesSound'
    <3>1. refs' = [refs EXCEPT ![cwd] = @ + 1] /\ thread' = [thread EXCEPT ![p] = At("start")]
      BY <2>4 DEF Born
    <3>2. refs' \in [Vnodes -> Nat] /\ \A v \in File : refs'[v] = refs[v]
      <4>1. cwd \in Vnodes /\ cwd \notin File /\ File \subseteq Vnodes
        BY VnodeKinds
      <4>2. refs[cwd] + 1 \in Nat
        BY <2>7, <4>1
      <4> QED BY <2>7, <3>1, <4>1, <4>2
    <3>3. \A q \in Proc : thread'[q] = thread[q] \/ thread'[q].at \notin {"open", "io"}
      BY <3>1, ProgramRuns
    <3>4. FileTypes'
      BY <1>2, <3>2 DEF OpenFilesSound, FileTypes
    <3> QED BY <1>2, <3>2, <3>3, <3>4, FilesKept DEF Structures
  <2> QED BY <1>2, <2>6, <2>8, <2>9, RunsOn
<1>3. ASSUME pid # 0, Stillborn(pid), UNCHANGED <<files, forked>>
      PROVE  Structures' /\ VnodesCounted' /\ OpenFilesSound' /\ StopsHonest'
  <2>1. pid \in Pids
    BY <1>3, PidFree
  <2>2. UNCHANGED <<fileTable, entry, refs, moved, raced>> /\ UNCHANGED thread
    BY <1>3 DEF files, Stillborn
  <2>3. forked' \in BOOLEAN
    BY <1>3 DEF Structures, Types
  <2> HIDE DEF pid
  <2>4. Structures' /\ VnodesCounted' /\ stopped' = stopped
    BY <1>3, <2>1, <2>2, <2>3, StillbornStep
  <2>5. FileTypes'
    BY <2>2 DEF OpenFilesSound, FileTypes
  <2>6. OpenFilesSound'
    BY <2>2, <2>5, FilesKept DEF Structures
  <2> QED BY <2>4, <2>6, RunsOn
<1> QED BY <1>1, <1>2, <1>3 DEF common_prog

\* Until a program has forked, an executable that runs is referenced.
LEMMA ExeReferenced ==
  ASSUME ProcsAssumption, VnodesCounted, ~forked, NEW p \in Proc, proc[p].exe \in Exes
  PROVE  refs[proc[p].exe] \in Nat /\ refs[proc[p].exe] > 0
<1> DEFINE A == {q \in Proc : proc[q].exe = proc[p].exe}
<1>1. refs[proc[p].exe] = Cardinality(A)
  BY VnodeKinds DEF VnodesCounted
<1>2. A \in SUBSET Proc /\ p \in A
  OBVIOUS
<1> HIDE DEF A
<1> QED BY <1>1, <1>2, MemberCounts DEF ProcsAssumption

\* A directory some process runs in is referenced.
LEMMA CwdReferenced ==
  ASSUME ProcsAssumption, VnodesCounted, NEW p \in Proc, proc[p].cwd \in Dir
  PROVE  refs[proc[p].cwd] \in Nat /\ refs[proc[p].cwd] > 0
<1> DEFINE A == {q \in Proc : proc[q].cwd = proc[p].cwd}
<1>1. refs[proc[p].cwd] = Cardinality(A)
  BY DEF VnodesCounted
<1>2. A \in SUBSET Proc /\ p \in A
  OBVIOUS
<1> HIDE DEF A
<1> QED BY <1>1, <1>2, MemberCounts DEF ProcsAssumption

\* proc_file_table_copy out of a new process empties the parent's table, and
\* counts nothing.
LEMMA CopyEmpties ==
  ASSUME ProcsAssumption, FileTypes, NEW c \in Proc, NEW p \in Proc, fileTable[c] = NoFiles,
         proc_file_table_copy(c, p)
  PROVE  /\ fileTable' = [fileTable EXCEPT ![p] = NoFiles] /\ entry' = entry
         /\ moved' \in [Proc -> [Fd -> Nat]] /\ \A q \in Proc : q # p => moved'[q] = moved[q]
<1>1. fileTable' = [fileTable EXCEPT ![p] = NoFiles] /\ moved' = [moved EXCEPT ![p] = moved[c]]
      /\ entry' = Shared(NoFiles)
  BY DEF proc_file_table_copy
<1>2. moved' \in [Proc -> [Fd -> Nat]] /\ \A q \in Proc : q # p => moved'[q] = moved[q]
  BY <1>1 DEF FileTypes
<1>3. ASSUME NEW i \in Entries
      PROVE  [entry[i] EXCEPT !.countRef = @ + Cardinality({fd \in Fd : NoFiles[fd] = i})] = entry[i]
  <2>1. {fd \in Fd : NoFiles[fd] = i} = {}
    BY DEF NoFiles, Entries, Null
  <2>2. Cardinality({fd \in Fd : NoFiles[fd] = i}) = 0
    BY <2>1, FS_EmptySet
  <2>3. entry[i] \in EntryRecords /\ entry[i].countRef \in Nat
    BY DEF FileTypes, EntryRecords
  <2>4. entry[i].countRef + Cardinality({fd \in Fd : NoFiles[fd] = i}) = entry[i].countRef
    BY <2>2, <2>3
  <2>5. [entry[i] EXCEPT !.countRef = entry[i].countRef] = entry[i]
    BY <2>3 DEF EntryRecords
  <2> QED BY <2>4, <2>5
<1>4. Shared(NoFiles) = entry
  <2>1. entry = [i \in Entries |-> entry[i]]
    BY DEF FileTypes
  <2> QED BY <1>3, <2>1 DEF Shared
<1> QED BY <1>1, <1>2, <1>4

\* fork makes a child, or fails, or stops the kernel.
LEMMA sys_forkStep ==
  ASSUME ProcsAssumption, Structures, VnodesCounted, OpenFilesSound, Running, NEW p \in User, sys_fork(p)
  PROVE  Structures' /\ VnodesCounted' /\ OpenFilesSound' /\ StopsHonest'
<1> DEFINE pid == proc_init_waitpid
<1>0. /\ thread[p].at = "user" /\ p \in Proc /\ proc[p].live /\ proc[p].exe \in Exes /\ proc[p].cwd \in Dir
      /\ refs \in [Vnodes -> Nat] /\ thread[p].at # "none"
  <2>0. thread[p] = At("user")
    BY Zenon DEF sys_fork
  <2>1. thread[p].at = "user"
    BY <2>0 DEF At
  <2>2. Life(p) /\ p \in Proc
    BY ProgramRuns
  <2>3. refs \in [Vnodes -> Nat]
    BY DEF OpenFilesSound, FileTypes
  <2> QED BY <2>1, <2>2, <2>3 DEF Life, InProgram
<1>1. PICK exe \in Exes, cwd \in Dir : exe = proc[p].exe /\ cwd = proc[p].cwd
  BY <1>0
<1>2. /\ exe \in Vnodes /\ exe \notin Dir /\ exe \notin File /\ cwd \in Vnodes /\ cwd \notin File
      /\ File \subseteq Vnodes /\ Dir \subseteq Vnodes /\ exe # NoVnode
  BY VnodeKinds
<1>3. CASE pid = 0
  <2>1. Stop("process table full")
    BY <1>3 DEF sys_fork
  <2>2. \A i \in Pids \ {last_i} : table[i] # NoProc
    BY <1>3, PidFound DEF Structures, Types
  <2>3. stopped' = "process table full" /\ UNCHANGED <<table, last_i>>
    BY <2>1 DEF Stop
  <2>4. StopsHonest'
    BY <2>2, <2>3 DEF StopsHonest
  <2> QED BY <2>1, <2>4, StopKeeps
<1>4. ASSUME pid # 0
      PROVE  pid \in Pids /\ table[pid] = NoProc
  BY <1>4, PidFree
<1>5. ASSUME NEW c \in User, ~proc[c].live, thread[c] = Gone
      PROVE  c \in Proc /\ c # p /\ thread[c].at = "none" /\ fileTable[c] = NoFiles
  <2>1. thread[c].at = "none"
    BY <1>5 DEF Gone
  <2>2. c \in Proc /\ Life(c)
    BY ProgramRuns
  <2> QED BY <1>0, <1>5, <2>1, <2>2 DEF Life
<1> HIDE DEF pid
<1>6. ASSUME pid # 0, NEW c \in User, ~proc[c].live, thread[c] = Gone,
             Born(c, pid, cwd, exe, "forked"), forked' = TRUE, kids' = [kids EXCEPT ![p] = @ \cup {pid}],
             proc_file_table_copy(c, p), UNCHANGED <<menu, ended, foreign, fails, stopped, raced>>
      PROVE  Structures' /\ VnodesCounted' /\ OpenFilesSound' /\ StopsHonest'
  <2>1. pid \in Pids /\ table[pid] = NoProc /\ c \in Proc /\ c # p /\ thread[c].at = "none" /\ fileTable[c] = NoFiles
    BY <1>4, <1>5, <1>6
  <2>2. /\ fileTable' = [fileTable EXCEPT ![p] = NoFiles] /\ entry' = entry
        /\ moved' \in [Proc -> [Fd -> Nat]] /\ \A q \in Proc : q # p => moved'[q] = moved[q]
    BY <1>0, <1>6, <2>1, CopyEmpties DEF OpenFilesSound
  <2>3. /\ fileTable \in [Proc -> [Fd -> Entries \cup {Null}]] /\ NoFiles \in [Fd -> Entries \cup {Null}]
    BY DEF OpenFilesSound, FileTypes, NoFiles
  <2>4. /\ fileTable' \in [Proc -> [Fd -> Entries \cup {Null}]]
        /\ fileTable'[p] = NoFiles /\ \A q \in Proc : q # p => fileTable'[q] = fileTable[q]
    BY <1>0, <2>2, <2>3
  <2>5. /\ kids' \in [Proc -> SUBSET Pids] /\ kids'[p] = kids[p] \cup {pid}
        /\ \A q \in Proc : q # p => kids'[q] = kids[q]
    BY <1>0, <1>6, <2>1 DEF Structures, Types
  <2>6. Structures'
    BY <1>0, <1>2, <1>6, <2>1, <2>4, <2>5, BornStep
  <2>7. VnodesCounted'
    BY <1>0, <1>6, <2>1, BornCounts
  <2>8. OpenFilesSound'
    <3>1. refs' = [refs EXCEPT ![cwd] = @ + 1] /\ thread' = [thread EXCEPT ![c] = At("forked")]
      BY <1>6 DEF Born
    <3>2. refs' \in [Vnodes -> Nat] /\ \A v \in File : refs'[v] = refs[v]
      <4>1. refs[cwd] + 1 \in Nat
        BY <1>0, <1>2
      <4> QED BY <1>0, <1>2, <3>1, <4>1
    <3>3. \A q \in Proc : thread'[q] = thread[q] \/ (q # p /\ thread'[q].at \notin {"open", "io"})
      BY <2>1, <3>1, ProgramRuns
    <3>4. FileTypes'
      BY <1>6, <2>2, <2>4, <3>2 DEF OpenFilesSound, FileTypes
    <3>5. thread'[p].at # "io"
      BY <1>0, <3>3
    <3> QED BY <1>6, <2>2, <2>4, <3>2, <3>3, <3>4, <3>5, FilesKept DEF Structures
  <2> QED BY <1>6, <2>6, <2>7, <2>8, RunsOn
<1>7. ASSUME pid # 0, NEW c \in User, ~proc[c].live, thread[c] = Gone,
             Stillborn(pid), forked' = TRUE, refs[exe] > 0, refs' = [refs EXCEPT ![exe] = @ - 1],
             proc_file_table_copy(c, p), UNCHANGED raced
      PROVE  Structures' /\ VnodesCounted' /\ OpenFilesSound' /\ StopsHonest'
  <2>1. pid \in Pids /\ c \in Proc /\ c # p /\ fileTable[c] = NoFiles /\ UNCHANGED thread
    BY <1>4, <1>5, <1>7 DEF Stillborn
  <2>2. /\ fileTable' = [fileTable EXCEPT ![p] = NoFiles] /\ entry' = entry
        /\ moved' \in [Proc -> [Fd -> Nat]] /\ \A q \in Proc : q # p => moved'[q] = moved[q]
    BY <1>0, <1>7, <2>1, CopyEmpties DEF OpenFilesSound
  <2>3. /\ fileTable \in [Proc -> [Fd -> Entries \cup {Null}]] /\ NoFiles \in [Fd -> Entries \cup {Null}]
    BY DEF OpenFilesSound, FileTypes, NoFiles
  <2>4. /\ fileTable' \in [Proc -> [Fd -> Entries \cup {Null}]]
        /\ fileTable'[p] = NoFiles /\ \A q \in Proc : q # p => fileTable'[q] = fileTable[q]
    BY <1>0, <2>2, <2>3
  <2>5. refs' \in [Vnodes -> Nat] /\ \A v \in Vnodes : v # exe => refs'[v] = refs[v]
    <3>1. refs[exe] - 1 \in Nat
      BY <1>0, <1>2, <1>7
    <3> QED BY <1>0, <1>2, <1>7, <3>1
  <2>6. Structures' /\ VnodesCounted' /\ stopped' = stopped
    BY <1>2, <1>7, <2>1, <2>4, <2>5, StillbornStep
  <2>7. FileTypes'
    BY <1>7, <2>2, <2>4, <2>5 DEF OpenFilesSound, FileTypes
  <2>8. OpenFilesSound'
    BY <1>0, <1>2, <1>7, <2>1, <2>2, <2>4, <2>5, <2>7, FilesKept DEF Structures
  <2> QED BY <2>6, <2>8, RunsOn
<1>8. ASSUME refs[exe] = 0, Stop("closed twice")
      PROVE  Structures' /\ VnodesCounted' /\ OpenFilesSound' /\ StopsHonest'
  <2>1. forked
    <3> SUFFICES ASSUME ~forked PROVE FALSE
      OBVIOUS
    <3>1. refs[proc[p].exe] > 0
      BY <1>0, ExeReferenced
    <3>2. refs[proc[p].exe] = 0
      BY <1>1, <1>8
    <3> QED BY <3>1, <3>2
  <2>2. stopped' = "closed twice" /\ forked' = forked
    BY <1>8 DEF Stop
  <2>3. StopsHonest'
    BY <2>1, <2>2 DEF StopsHonest
  <2> QED BY <1>8, <2>3, StopKeeps
<1>9. ASSUME pid # 0, Stillborn(pid), UNCHANGED <<files, forked>>
      PROVE  Structures' /\ VnodesCounted' /\ OpenFilesSound' /\ StopsHonest'
  <2>1. pid \in Pids
    BY <1>4, <1>9
  <2>2. UNCHANGED <<fileTable, entry, refs, moved, raced>> /\ UNCHANGED thread
    BY <1>9 DEF files, Stillborn
  <2>3. forked' \in BOOLEAN
    BY <1>9 DEF Structures, Types
  <2>4. Structures' /\ VnodesCounted' /\ stopped' = stopped
    BY <1>9, <2>1, <2>2, <2>3, StillbornStep
  <2>5. FileTypes'
    BY <2>2 DEF OpenFilesSound, FileTypes
  <2>6. OpenFilesSound'
    BY <2>2, <2>5, FilesKept DEF Structures
  <2> QED BY <2>4, <2>6, RunsOn
<1>10. CASE pid # 0
  <2>1. PICK c \in User :
          /\ ~proc[c].live /\ thread[c] = Gone
          /\ \/ /\ Born(c, pid, cwd, exe, "forked")
                /\ forked' = TRUE
                /\ kids' = [kids EXCEPT ![p] = @ \cup {pid}]
                /\ proc_file_table_copy(c, p)
                /\ UNCHANGED <<menu, ended, foreign, fails, stopped, raced>>
             \/ /\ Stillborn(pid)
                /\ forked' = TRUE
                /\ refs[exe] > 0
                /\ refs' = [refs EXCEPT ![exe] = @ - 1]
                /\ proc_file_table_copy(c, p)
                /\ UNCHANGED raced
             \/ refs[exe] = 0 /\ fails < MaxFail /\ Stop("closed twice")
             \/ Stillborn(pid) /\ UNCHANGED <<files, forked>>
    BY <1>1, <1>10 DEF sys_fork, pid
  <2> QED BY <1>6, <1>7, <1>8, <1>9, <1>10, <2>1
<1> QED BY <1>3, <1>10

\* proc_search_pid finds the process, or says why there is none.
LEMMA SearchOutcome ==
  ASSUME ProcsAssumption, Structures, NEW pid \in 0..MaxProc
  PROVE  \/ search_panics(pid) = "pid out of range" /\ pid = MaxProc
         \/ search_panics(pid) = "no such process" /\ table[pid] = NoProc
         \/ search_panics(pid) = "kernel process" /\ table[pid] = kproc
         \/ /\ search_panics(pid) = ""
            /\ table[pid] \in User /\ proc[table[pid]].live /\ proc[table[pid]].pid = pid
<1>1. MaxProc \in Nat /\ kproc # NoProc /\ (pid >= MaxProc \/ pid < MaxProc) /\ ~(pid >= MaxProc /\ pid < MaxProc)
  BY DEF ProcsAssumption
<1>2. CASE pid >= MaxProc
  <2>1. pid = MaxProc
    BY <1>1, <1>2
  <2>2. search_panics(pid) = "pid out of range"
    BY <1>1, <1>2, Zenon DEF search_panics
  <2> QED BY <2>1, <2>2, Zenon
<1>3. CASE pid < MaxProc /\ table[pid] = NoProc
  <2>1. search_panics(pid) = "no such process"
    BY <1>1, <1>3, Zenon DEF search_panics
  <2> QED BY <1>3, <2>1, Zenon
<1>4. CASE pid < MaxProc /\ table[pid] = kproc
  <2>1. search_panics(pid) = "kernel process"
    BY <1>1, <1>4, Zenon DEF search_panics
  <2> QED BY <1>4, <2>1, Zenon
<1>5. CASE pid < MaxProc /\ table[pid] # NoProc /\ table[pid] # kproc
  <2>1. search_panics(pid) = ""
    BY <1>1, <1>5, Zenon DEF search_panics
  <2>2. table[pid] \in User /\ proc[table[pid]].live /\ proc[table[pid]].pid = pid
    BY <1>5 DEF Structures, Types, PidsExact, User
  <2> QED BY <2>1, <2>2, Zenon
<1> QED BY <1>1, <1>2, <1>3, <1>4, <1>5, Zenon

\* A wait that finds its process.
LEMMA WaitStep ==
  ASSUME ProcsAssumption, Structures, VnodesCounted, OpenFilesSound, NEW p \in User, NEW pid \in 0..MaxProc,
         thread[p].at = "user", foreign' = (foreign \/ pid \notin kids[p]),
         kids' = [kids EXCEPT ![p] = @ \ {pid}],
         NEW t \in User, table[pid] = t, proc[t].live, proc[t].pid = pid,
         thread' = [thread EXCEPT ![p] = [at |-> "wait", tgt |-> t]],
         UNCHANGED <<proc, table, last_i, menu, ended, forked, fails, files>>
  PROVE  Structures' /\ VnodesCounted' /\ OpenFilesSound'
<1> DEFINE a == [at |-> "wait", tgt |-> t]
<1>1. /\ a \in ThreadRecords /\ a.at = "wait" /\ a.tgt = t
      /\ p \in Proc /\ thread \in [Proc -> ThreadRecords] /\ kids \in [Proc -> SUBSET Pids] /\ Life(p)
      /\ UNCHANGED <<fileTable, entry, refs, moved, raced>>
  BY ProgramRuns DEF ThreadRecords, Structures, Types, files
<1> HIDE DEF a
<1>2. /\ thread'[p] = a /\ \A q \in Proc : q # p => thread'[q] = thread[q]
      /\ thread' \in [Proc -> ThreadRecords]
  BY <1>1 DEF a
<1>3. /\ kids' \in [Proc -> SUBSET Pids] /\ kids'[p] = kids[p] \ {pid}
      /\ \A q \in Proc : q # p => kids'[q] = kids[q]
  BY <1>1
<1>4. Types'
  <2>1. foreign \in BOOLEAN /\ foreign' \in BOOLEAN
    BY DEF Structures, Types
  <2> QED BY <1>2, <1>3, <2>1 DEF Structures, Types
<1>5. Lives'
  <2>1. ASSUME NEW q \in Proc
        PROVE  Life(q)'
    <3>1. Life(q)
      BY DEF Structures, Lives
    <3>2. kids[q] = {} => kids'[q] = {}
      BY <1>3
    <3>3. CASE q = p
      BY <1>1, <1>2, <3>1, <3>2, <3>3 DEF Life, InProgram
    <3>4. CASE q # p
      BY <1>1, <1>2, <3>1, <3>2, <3>4 DEF Life
    <3> QED BY <3>3, <3>4
  <2>2. Kernel'
    BY <1>2 DEF Structures, Lives, Kernel, User, ProcsAssumption
  <2> QED BY <2>1, <2>2 DEF Structures, Lives
<1>6. PidsExact'
  BY DEF Structures, PidsExact
<1>7. WaitsLive'
  <2>1. ASSUME NEW w \in User, thread'[w].at = "wait"
        PROVE  proc[thread'[w].tgt].live
    <3>1. CASE w = p
      BY <1>1, <1>2, <3>1
    <3>2. CASE w # p
      BY <1>2, <2>1, <3>2 DEF Structures, WaitsLive, User
    <3> QED BY <3>1, <3>2
  <2> QED BY <2>1 DEF Structures, WaitsLive
<1>8. Waiters(t)' \subseteq Waiters(t) \cup {p} /\ \A q : q # t => Waiters(q)' = Waiters(q)
  <2>1. ASSUME NEW w \in User, NEW q
        PROVE  (thread'[w].at = "wait" /\ thread'[w].tgt = q) <=>
                 ((thread[w].at = "wait" /\ thread[w].tgt = q) \/ (w = p /\ q = t))
    BY <1>1, <1>2 DEF User
  <2> QED BY <2>1 DEF Waiters
<1>9. Family'
  <2> SUFFICES ASSUME ~foreign, pid \in kids[p]
               PROVE  /\ \A q \in User, v, w \in Proc : v \in Waiters(q)' /\ w \in Waiters(q)' => v = w
                      /\ \A q \in Proc : \A x \in kids'[q] : table[x] \in User /\ \A w : w \notin Waiters(table[x])'
                      /\ \A q, r \in Proc : q # r => kids'[q] \cap kids'[r] = {}
    BY DEF Family
  <2>1. /\ \A q \in User, v, w \in Proc : v \in Waiters(q) /\ w \in Waiters(q) => v = w
        /\ \A q \in Proc : \A x \in kids[q] : table[x] \in User /\ Waiters(table[x]) = {}
        /\ \A q, r \in Proc : q # r => kids[q] \cap kids[r] = {}
    BY DEF Structures, Family
  <2>2. Waiters(t) = {}
    BY <1>1, <2>1
  <2>3. ASSUME NEW q \in User, NEW v \in Proc, NEW w \in Proc, v \in Waiters(q)', w \in Waiters(q)'
        PROVE  v = w
    BY <1>8, <2>1, <2>2, <2>3
  <2>4. ASSUME NEW q \in Proc, NEW x \in kids'[q], NEW y, y = table[x]
        PROVE  y \in User /\ \A w : w \notin Waiters(y)'
    <3>1. x \in kids[q] /\ x # pid /\ x \in 0..MaxProc
      <4>1. x \in kids[q] /\ ~(q = p /\ x = pid) /\ x \in Pids
        BY <1>1, <1>3
      <4>2. q # p => x # pid
        BY <1>1, <2>1, <4>1
      <4> QED BY <4>1, <4>2 DEF Pids, ProcsAssumption
    <3>2. y \in User /\ Waiters(y) = {} /\ y # NoProc
      BY <2>1, <2>4, <3>1 DEF User, ProcsAssumption
    <3>3. proc[y].pid = x
      BY <2>4, <3>1, <3>2 DEF Structures, PidsExact
    <3>4. y # t
      BY <3>1, <3>3
    <3> QED BY <1>8, <3>2, <3>4
  <2>5. \A q \in Proc : \A x \in kids'[q] : table[x] \in User /\ \A w : w \notin Waiters(table[x])'
    BY <2>4
  <2>6. \A q, r \in Proc : q # r => kids'[q] \cap kids'[r] = {}
    BY <1>3, <2>1
  <2> QED BY <2>3, <2>5, <2>6
<1>10. VnodesCounted'
  BY <1>1, CountsKept
<1>11. OpenFilesSound'
  <2>1. FileTypes'
    BY <1>1 DEF OpenFilesSound, FileTypes
  <2>2. \A q \in Proc : thread'[q] = thread[q] \/ thread'[q].at \notin {"open", "io"}
    BY <1>1, <1>2
  <2> QED BY <1>1, <2>1, <2>2, FilesKept DEF Structures
<1> QED BY <1>4, <1>5, <1>6, <1>7, <1>9, <1>10, <1>11 DEF Structures

\* A wait that stops the kernel.
LEMMA WaitStops ==
  ASSUME ProcsAssumption, Structures, VnodesCounted, OpenFilesSound, NEW p \in User, NEW pid \in 0..MaxProc,
         foreign' = (foreign \/ pid \notin kids[p]),
         kids' = [kids EXCEPT ![p] = @ \ {pid}], thread' = thread,
         UNCHANGED <<proc, table, last_i, menu, ended, forked, fails, files>>,
         \/ stopped' = "pid out of range" /\ pid = MaxProc
         \/ stopped' = "no such process" /\ table[pid] = NoProc
         \/ stopped' = "kernel process" /\ table[pid] = kproc
  PROVE  Structures' /\ VnodesCounted' /\ OpenFilesSound' /\ StopsHonest'
<1>1. /\ p \in Proc /\ kids \in [Proc -> SUBSET Pids]
      /\ UNCHANGED <<fileTable, entry, refs, moved, raced>>
  BY ProgramRuns DEF Structures, Types, files
<1>2. /\ kids' \in [Proc -> SUBSET Pids] /\ \A q \in Proc : kids'[q] \subseteq kids[q]
  BY <1>1
<1>3. Types'
  <2>1. foreign \in BOOLEAN /\ foreign' \in BOOLEAN
    BY DEF Structures, Types
  <2> QED BY <1>2, <2>1 DEF Structures, Types
<1>4. Lives'
  <2>1. ASSUME NEW q \in Proc
        PROVE  Life(q)'
    <3>1. Life(q)
      BY DEF Structures, Lives
    <3>2. kids[q] = {} => kids'[q] = {}
      BY <1>2
    <3>3. /\ proc'[q] = proc[q] /\ thread'[q] = thread[q] /\ fileTable'[q] = fileTable[q]
          /\ ended'[q] = ended[q]
      BY <1>1
    <3> QED BY <3>1, <3>2, <3>3 DEF Life, InProgram
  <2>2. Kernel'
    BY DEF Structures, Lives, Kernel
  <2> QED BY <2>1, <2>2 DEF Structures, Lives
<1>5. PidsExact' /\ WaitsLive'
  BY DEF Structures, PidsExact, WaitsLive
<1>6. Family'
  <2>1. \A q : Waiters(q)' = Waiters(q)
    BY DEF Waiters
  <2> SUFFICES ASSUME ~foreign
               PROVE  /\ \A q \in User, v, w \in Proc : v \in Waiters(q) /\ w \in Waiters(q) => v = w
                      /\ \A q \in Proc : \A x \in kids'[q] : table[x] \in User /\ Waiters(table[x]) = {}
                      /\ \A q, r \in Proc : q # r => kids'[q] \cap kids'[r] = {}
    BY <2>1 DEF Family
  <2>2. /\ \A q \in User, v, w \in Proc : v \in Waiters(q) /\ w \in Waiters(q) => v = w
        /\ \A q \in Proc : \A x \in kids[q] : table[x] \in User /\ Waiters(table[x]) = {}
        /\ \A q, r \in Proc : q # r => kids[q] \cap kids[r] = {}
    BY DEF Structures, Family
  <2> QED BY <1>2, <2>2
<1>7. pid \in kids[p] => foreign \/ (table[pid] \in User /\ table[pid] # NoProc /\ table[pid] # kproc)
  BY <1>1 DEF Structures, Family, User, ProcsAssumption
<1>8. StopsHonest'
  <2>1. CASE foreign'
    BY <2>1 DEF StopsHonest
  <2>2. CASE ~foreign'
    BY <1>7, <2>2 DEF StopsHonest
  <2> QED BY <2>1, <2>2
<1>9. VnodesCounted'
  BY <1>1, CountsKept
<1>10. OpenFilesSound'
  <2>1. FileTypes'
    BY <1>1 DEF OpenFilesSound, FileTypes
  <2> QED BY <1>1, <2>1, FilesKept DEF Structures
<1> QED BY <1>3, <1>4, <1>5, <1>6, <1>8, <1>9, <1>10 DEF Structures

\* waitpid up to its sleep.
LEMMA sys_waitpidStep ==
  ASSUME ProcsAssumption, Structures, VnodesCounted, OpenFilesSound, Running, NEW p \in User,
         NEW pid \in 0..MaxProc, sys_waitpid(p, pid)
  PROVE  Structures' /\ VnodesCounted' /\ OpenFilesSound' /\ StopsHonest'
<1>1. /\ thread[p].at = "user" /\ foreign' = (foreign \/ pid \notin kids[p])
      /\ kids' = [kids EXCEPT ![p] = @ \ {pid}]
      /\ UNCHANGED <<proc, table, last_i, menu, ended, forked, fails, files>>
  <2>1. /\ thread[p] = At("user") /\ foreign' = (foreign \/ pid \notin kids[p])
        /\ kids' = [kids EXCEPT ![p] = @ \ {pid}]
        /\ UNCHANGED <<proc, table, last_i, menu, ended, forked, fails, files>>
    BY Zenon DEF sys_waitpid
  <2> QED BY <2>1 DEF At
<1>2. /\ stopped' = search_panics(pid)
      /\ search_panics(pid) # "" => thread' = thread
      /\ search_panics(pid) = "" => thread' = [thread EXCEPT ![p] = [at |-> "wait", tgt |-> table[pid]]]
  BY Zenon DEF sys_waitpid, proc_search_pid
<1>3. CASE search_panics(pid) = ""
  <2>1. table[pid] \in User /\ proc[table[pid]].live /\ proc[table[pid]].pid = pid
    BY <1>3, SearchOutcome, Zenon
  <2>2. thread' = [thread EXCEPT ![p] = [at |-> "wait", tgt |-> table[pid]]]
    BY <1>2, <1>3, Zenon
  <2>3. Structures' /\ VnodesCounted' /\ OpenFilesSound'
    BY <1>1, <2>1, <2>2, WaitStep, Zenon
  <2>4. stopped' = stopped
    BY <1>2, <1>3, Zenon DEF Running
  <2> QED BY <2>3, <2>4, RunsOn
<1>4. CASE search_panics(pid) # ""
  <2>1. /\ \/ stopped' = "pid out of range" /\ pid = MaxProc
           \/ stopped' = "no such process" /\ table[pid] = NoProc
           \/ stopped' = "kernel process" /\ table[pid] = kproc
        /\ thread' = thread
    BY <1>2, <1>4, SearchOutcome, Zenon
  <2> QED BY <1>1, <2>1, WaitStops
<1> QED BY <1>3, <1>4, Zenon

\* What proc_destroy gives up: one reference to the working directory, and
\* one to the executable if there is one.
LEMMA ReleasedIs ==
  ASSUME ProcsAssumption, Structures, NEW q \in Proc, proc[q].live, NEW v \in Vnodes
  PROVE  Released(q)[v] = IF v = proc[q].cwd \/ v = proc[q].exe THEN 1 ELSE 0
<1> DEFINE X == {x \in {"cwd", "exe"} : proc[q][x] = v}
<1>1. proc[q].cwd \in Dir /\ proc[q].exe \notin Dir
  <2>1. proc[q].cwd \in Dir
    BY DEF Structures, Lives, Life
  <2>2. proc[q].exe \in Exes \cup {NoVnode}
    BY DEF Structures, Types, ProcRecords
  <2> QED BY <2>1, <2>2, VnodeKinds
<1>2. X = (IF proc[q].cwd = v THEN {"cwd"} ELSE {}) \cup (IF proc[q].exe = v THEN {"exe"} ELSE {})
  OBVIOUS
<1>3. Released(q)[v] = Cardinality(X)
  BY DEF Released
<1> HIDE DEF X
<1>4. CASE v = proc[q].cwd
  <2>1. X = {"cwd"}
    BY <1>1, <1>2, <1>4
  <2> QED BY <1>3, <1>4, <2>1, FS_Singleton
<1>5. CASE v # proc[q].cwd /\ v = proc[q].exe
  <2>1. X = {"exe"}
    BY <1>2, <1>5
  <2> QED BY <1>3, <1>5, <2>1, FS_Singleton
<1>6. CASE v # proc[q].cwd /\ v # proc[q].exe
  <2>1. X = {}
    BY <1>2, <1>6
  <2> QED BY <1>3, <1>6, <2>1, FS_EmptySet
<1> QED BY <1>4, <1>5, <1>6

\* The ways a wait may end, free of the empty string.
LEMMA DestroyOutcome ==
  ASSUME NEW q, NEW others
  PROVE  \/ destroy_panics(q, others) = "closed twice" /\ \E v \in Vnodes : Released(q)[v] > refs[v]
         \/ destroy_panics(q, others) = "thread left" /\ proc[q].numthreads # 0
         \/ destroy_panics(q, others) = "semaphore in use" /\ others # {}
         \/ /\ destroy_panics(q, others) = "" /\ others = {}
            /\ \A v \in Vnodes : ~(Released(q)[v] > refs[v])
BY Zenon DEF destroy_panics

\* The process a wait that may end is for.
LEMMA WaitEnds ==
  ASSUME ProcsAssumption, Structures, NEW w \in Proc, NEW q, q = IF w = kproc THEN menu ELSE thread[w].tgt,
         IF w = kproc THEN menu # NoProc ELSE thread[w].at = "wait", proc[q].sem > 0
  PROVE  /\ q \in User /\ q \in Proc /\ q # kproc /\ proc[q].live /\ w \in Waiters(q) /\ w # q
         /\ thread[q].at = "none" /\ proc[q].numthreads = 0
         /\ proc[q].pid \in Pids /\ table[proc[q].pid] = q /\ proc[q].cwd \in Dir
         /\ proc[q].exe \in Exes \cup {NoVnode}
<1>1. q \in User /\ proc[q].live /\ w \in Waiters(q)
  <2>1. CASE w = kproc
    BY <2>1 DEF Structures, Types, WaitsLive, Waiters
  <2>2. CASE w # kproc
    BY <2>2 DEF Structures, Types, ThreadRecords, WaitsLive, Waiters, User
  <2> QED BY <2>1, <2>2
<1>2. q \in Proc /\ q # kproc /\ proc[q] \in ProcRecords /\ Life(q) /\ thread[q] \in ThreadRecords
  BY <1>1, ProgramRuns DEF User
<1>3. proc[q].sem # 0 /\ proc[q].pid # 0 /\ proc[q].pid \in 0..MaxProc /\ proc[q].exe \in Exes \cup {NoVnode}
  BY <1>1, <1>2 DEF Life, ProcRecords
<1>4. thread[q].at = "none"
  BY <1>2, <1>3 DEF Life, InProgram, ThreadRecords
<1>5. w # q
  BY <1>2, <1>4
<1>6. proc[q].numthreads = 0 /\ proc[q].cwd \in Dir
  BY <1>1, <1>2, <1>4 DEF Life
<1>7. table[proc[q].pid] = q /\ proc[q].pid \in Pids
  BY <1>1, <1>2, <1>3 DEF Structures, PidsExact, Pids, ProcsAssumption
<1> QED BY <1>1, <1>2, <1>3, <1>4, <1>5, <1>6, <1>7

\* The destruction of a process that only w waits for.
LEMMA DestroyStep ==
  ASSUME ProcsAssumption, Structures, VnodesCounted, OpenFilesSound, NEW w \in Proc, NEW q \in User,
         q # kproc, proc[q].live, w \in Waiters(q), w # q, Waiters(q) \ {w} = {},
         thread[q].at = "none", proc[q].pid \in Pids, table[proc[q].pid] = q,
         proc[q].cwd \in Dir, proc[q].exe \in Exes \cup {NoVnode},
         \A v \in Vnodes : ~(Released(q)[v] > refs[v]), proc_destroy(q),
         menu' = IF w = kproc THEN NoProc ELSE menu,
         thread' = IF w = kproc THEN thread ELSE [thread EXCEPT ![w] = At("user")],
         UNCHANGED <<last_i, foreign, forked, entry, raced>>
  PROVE  Structures' /\ VnodesCounted' /\ OpenFilesSound'
<1> DEFINE pid == proc[q].pid
<1>0. /\ q \in Proc /\ q # NoProc /\ pid \in 0..MaxProc /\ pid # 0
      /\ proc \in [Proc -> ProcRecords] /\ thread \in [Proc -> ThreadRecords]
      /\ table \in [0..MaxProc -> Proc \cup {NoProc}] /\ kids \in [Proc -> SUBSET Pids]
      /\ ended \in [Proc -> Nat \cup {NotYet}]
      /\ fileTable \in [Proc -> [Fd -> Entries \cup {Null}]] /\ moved \in [Proc -> [Fd -> Nat]]
      /\ refs \in [Vnodes -> Nat]
  BY DEF User, ProcsAssumption, Structures, Types, Pids, OpenFilesSound, FileTypes
<1>1. /\ table' = [table EXCEPT ![pid] = NoProc] /\ proc' = [proc EXCEPT ![q] = Dead]
      /\ fileTable' = [fileTable EXCEPT ![q] = NoFiles]
      /\ moved' = [moved EXCEPT ![q] = [fd \in Fd |-> 0]]
      /\ refs' = [v \in Vnodes |-> refs[v] - Released(q)[v]]
      /\ kids' = [kids EXCEPT ![q] = {}] /\ ended' = [ended EXCEPT ![q] = NotYet]
  BY DEF proc_destroy, proc_end_waitpid
<1>2. /\ Dead \in ProcRecords /\ ~Dead.live /\ Dead.cwd = NoVnode /\ Dead.exe = NoVnode /\ Dead.sem = 0 /\ Dead.numthreads = 0
      /\ NoFiles \in [Fd -> Entries \cup {Null}]
      /\ At("user") \in ThreadRecords /\ At("user").at = "user"
  <2>1. Dead \in ProcRecords
    BY DEF Dead, ProcRecords, ProcsAssumption
  <2>2. ~Dead.live /\ Dead.cwd = NoVnode /\ Dead.exe = NoVnode /\ Dead.sem = 0 /\ Dead.numthreads = 0
    BY DEF Dead
  <2>3. NoFiles \in [Fd -> Entries \cup {Null}]
    BY DEF NoFiles
  <2> QED BY <2>1, <2>2, <2>3, ProgramRuns
<1> HIDE DEF pid
<1>3. /\ proc'[q] = Dead /\ \A x \in Proc : x # q => /\ proc'[x] = proc[x] /\ kids'[x] = kids[x] /\ ended'[x] = ended[x]
                                                  /\ fileTable'[x] = fileTable[x] /\ moved'[x] = moved[x]
      /\ kids'[q] = {} /\ fileTable'[q] = NoFiles
      /\ table'[pid] = NoProc /\ \A i \in 0..MaxProc : i # pid => table'[i] = table[i]
  BY <1>0, <1>1
<1>4. /\ thread' \in [Proc -> ThreadRecords]
      /\ \A x \in Proc : thread'[x] = thread[x] \/ (x = w /\ x \in User /\ thread[x].at = "wait" /\ thread'[x].at = "user")
      /\ w # kproc => thread'[w].at = "user"
  <2>1. CASE w = kproc
    BY <1>0, <2>1
  <2>2. CASE w # kproc
    <3>1. w \in User /\ thread[w].at = "wait"
      BY <2>2 DEF Waiters
    <3> QED BY <1>0, <1>2, <2>2, <3>1
  <2> QED BY <2>1, <2>2
<1>5. \A v \in Vnodes : refs'[v] = refs[v] - (IF v = proc[q].cwd \/ v = proc[q].exe THEN 1 ELSE 0) /\ refs'[v] \in Nat
  <2>1. ASSUME NEW v \in Vnodes
        PROVE  refs'[v] = refs[v] - (IF v = proc[q].cwd \/ v = proc[q].exe THEN 1 ELSE 0) /\ refs'[v] \in Nat
    <3>1. Released(q)[v] = IF v = proc[q].cwd \/ v = proc[q].exe THEN 1 ELSE 0
      BY <1>0, ReleasedIs
    <3>2. refs[v] \in Nat /\ ~(Released(q)[v] > refs[v])
      BY <1>0
    <3>3. refs'[v] = refs[v] - Released(q)[v]
      BY <1>1
    <3> QED BY <3>1, <3>2, <3>3
  <2> QED BY <2>1
<1>6. Types'
  <2>1. proc' \in [Proc -> ProcRecords]
    BY <1>0, <1>1, <1>2
  <2>2. table' \in [0..MaxProc -> Proc \cup {NoProc}]
    BY <1>0, <1>1
  <2>3. kids' \in [Proc -> SUBSET Pids] /\ ended' \in [Proc -> Nat \cup {NotYet}]
    BY <1>0, <1>1 DEF NotYet
  <2>4. menu' \in User \cup {NoProc}
    BY DEF Structures, Types
  <2> QED BY <1>4, <2>1, <2>2, <2>3, <2>4 DEF Structures, Types
<1>7. Lives'
  <2>1. ASSUME NEW x \in Proc
        PROVE  Life(x)'
    <3>1. Life(x)
      BY DEF Structures, Lives
    <3>2. CASE x = q
      <4>1. thread'[q].at = "none" /\ proc'[q] = Dead
        BY <1>0, <1>3, <1>4
      <4>2. ~proc'[q].live /\ proc'[q].sem = 0 /\ proc'[q].numthreads = 0
        BY <1>2, <4>1
      <4> QED BY <1>3, <3>2, <4>1, <4>2 DEF Life, InProgram
    <3>3. CASE x # q
      <4>1. /\ proc'[x] = proc[x] /\ kids'[x] = kids[x] /\ ended'[x] = ended[x] /\ fileTable'[x] = fileTable[x]
            /\ thread'[x] = thread[x] \/ (thread[x].at = "wait" /\ thread'[x].at = "user")
        BY <1>3, <1>4, <3>3
      <4> QED BY <3>1, <4>1 DEF Life, InProgram
    <3> QED BY <3>2, <3>3
  <2>2. Kernel'
    <3>1. kproc \in Proc /\ kproc # q /\ kproc \notin User
      BY DEF ProcsAssumption, User
    <3>2. proc'[kproc] = proc[kproc] /\ thread'[kproc] = thread[kproc]
      BY <1>3, <1>4, <3>1
    <3> QED BY <3>2 DEF Structures, Lives, Kernel
  <2>3. table'[0] = NoProc
    BY <1>0, <1>3 DEF Structures, Lives
  <2> QED BY <2>1, <2>2, <2>3 DEF Lives
<1>8. PidsExact'
  <2>1. ASSUME NEW x \in Proc, proc'[x].live
        PROVE  table'[proc'[x].pid] = x
    <3>1. x # q /\ proc'[x] = proc[x] /\ proc[x].pid \in 0..MaxProc
      BY <1>0, <1>2, <1>3, <2>1 DEF ProcRecords
    <3>2. table[proc[x].pid] = x
      BY <2>1, <3>1 DEF Structures, PidsExact
    <3>3. proc[x].pid # pid
      BY <3>1, <3>2 DEF pid
    <3> QED BY <1>3, <3>1, <3>2, <3>3
  <2>2. ASSUME NEW i \in 0..MaxProc, table'[i] # NoProc
        PROVE  proc'[table'[i]].live /\ proc'[table'[i]].pid = i
    <3>1. i # pid /\ table'[i] = table[i] /\ table[i] \in Proc
      BY <1>0, <1>3, <2>2
    <3>2. proc[table[i]].live /\ proc[table[i]].pid = i
      BY <2>2, <3>1 DEF Structures, PidsExact
    <3>3. table[i] # q
      BY <3>1, <3>2 DEF pid
    <3> QED BY <1>3, <3>1, <3>2, <3>3
  <2> QED BY <2>1, <2>2 DEF PidsExact
<1>9. /\ \A x \in User : Waiters(x)' \subseteq Waiters(x)
      /\ \A x \in User : thread'[x].at = "wait" => thread'[x] = thread[x] /\ thread[x].tgt # q
      /\ menu' # NoProc => menu' = menu /\ menu # q
  <2>1. ASSUME NEW x \in User, thread'[x].at = "wait"
        PROVE  thread'[x] = thread[x] /\ thread[x].tgt # q
    <3>1. x \in Proc /\ x # kproc
      BY DEF User
    <3>2. thread'[x] = thread[x]
      BY <1>4, <2>1, <3>1
    <3>3. x # w
      BY <1>4, <2>1, <3>1
    <3>4. x \notin Waiters(q)
      BY <3>3
    <3> QED BY <2>1, <3>2, <3>4 DEF Waiters
  <2>2. menu' # NoProc => menu' = menu /\ menu # q
    <3> SUFFICES ASSUME menu' # NoProc PROVE menu' = menu /\ menu # q
      OBVIOUS
    <3>1. w # kproc /\ menu' = menu
      OBVIOUS
    <3>2. kproc \notin Waiters(q)
      BY <3>1
    <3> QED BY <3>1, <3>2 DEF Waiters
  <2>3. \A x \in User : Waiters(x)' \subseteq Waiters(x)
    <3> SUFFICES ASSUME NEW x \in User, NEW y, y \in Waiters(x)'
                 PROVE  y \in Waiters(x)
      OBVIOUS
    <3>1. (y \in User /\ thread'[y].at = "wait" /\ thread'[y].tgt = x) \/ (y = kproc /\ menu' = x)
      BY DEF Waiters
    <3>2. CASE y \in User /\ thread'[y].at = "wait" /\ thread'[y].tgt = x
      BY <2>1, <3>2 DEF Waiters
    <3>3. CASE y = kproc /\ menu' = x /\ menu' # NoProc
      BY <2>2, <3>3 DEF Waiters
    <3>4. x # NoProc
      BY DEF User, ProcsAssumption
    <3> QED BY <3>1, <3>2, <3>3, <3>4
  <2> QED BY <2>1, <2>2, <2>3
<1>10. WaitsLive'
  <2>1. ASSUME NEW x \in User, thread'[x].at = "wait"
        PROVE  proc'[thread'[x].tgt].live
    <3>1. thread'[x] = thread[x] /\ thread[x].tgt # q /\ x \in Proc
      BY <1>9, <2>1 DEF User
    <3>2. thread[x].tgt \in Proc /\ proc[thread[x].tgt].live
      BY <2>1, <3>1 DEF Structures, WaitsLive, Types, ThreadRecords, User
    <3> QED BY <1>3, <3>1, <3>2
  <2>2. menu' # NoProc => proc'[menu'].live
    <3> SUFFICES ASSUME menu' # NoProc PROVE proc'[menu'].live
      OBVIOUS
    <3>1. menu' = menu /\ menu # q
      BY <1>9
    <3>2. proc[menu].live /\ menu \in Proc
      BY <3>1 DEF Structures, WaitsLive, Types, User
    <3> QED BY <1>3, <3>1, <3>2
  <2> QED BY <2>1, <2>2 DEF WaitsLive
<1>11. Family'
  <2> SUFFICES ASSUME ~foreign
               PROVE  /\ \A x \in User, v, y \in Proc : v \in Waiters(x)' /\ y \in Waiters(x)' => v = y
                      /\ \A x \in Proc : \A i \in kids'[x] : table'[i] \in User /\ Waiters(table[i])' = {}
                      /\ \A x, r \in Proc : x # r => kids'[x] \cap kids'[r] = {}
    BY DEF Family
  <2>1. /\ \A x \in User, v, y \in Proc : v \in Waiters(x) /\ y \in Waiters(x) => v = y
        /\ \A x \in Proc : \A i \in kids[x] : table[i] \in User /\ Waiters(table[i]) = {}
        /\ \A x, r \in Proc : x # r => kids[x] \cap kids[r] = {}
    BY DEF Structures, Family
  <2>2. \A x \in Proc : kids'[x] \subseteq kids[x]
    BY <1>3
  <2>3. ASSUME NEW x \in Proc, NEW i \in kids'[x], NEW y, y = table'[i]
        PROVE  y \in User /\ \A v : v \notin Waiters(y)'
    <3>1. i \in kids[x] /\ i \in 0..MaxProc
      BY <1>0, <2>2 DEF Pids, ProcsAssumption
    <3>2. table[i] \in User /\ Waiters(table[i]) = {}
      BY <2>1, <3>1
    <3>3. i # pid
      BY <3>2 DEF pid
    <3>4. y = table[i]
      BY <1>3, <2>3, <3>1, <3>3
    <3> QED BY <1>9, <3>2, <3>4
  <2>4. \A x \in Proc : \A i \in kids'[x] : table'[i] \in User /\ Waiters(table[i])' = {}
    BY <2>3
  <2>5. \A x \in User, v, y \in Proc : v \in Waiters(x)' /\ y \in Waiters(x)' => v = y
    BY <1>9, <2>1
  <2>6. \A x, r \in Proc : x # r => kids'[x] \cap kids'[r] = {}
    BY <2>1, <2>2
  <2> QED BY <2>4, <2>5, <2>6
<1>12. VnodesCounted'
  <2>1. ASSUME NEW d \in Dir
        PROVE  refs'[d] = Cardinality({x \in Proc : proc'[x].cwd = d})
    <3> DEFINE A == {x \in Proc : proc[x].cwd = d}
    <3> DEFINE B == {x \in Proc : proc'[x].cwd = d}
    <3>1. A \in SUBSET Proc /\ B \in SUBSET Proc /\ A \ {q} = B \ {q} /\ q \notin B /\ (q \in A <=> d = proc[q].cwd)
      BY <1>0, <1>2, <1>3, VnodeKinds
    <3>2. refs[d] = Cardinality(A) /\ d \in Vnodes
      BY VnodeKinds DEF VnodesCounted
    <3>3. d # proc[q].exe
      BY VnodeKinds
    <3> HIDE DEF A, B
    <3>4. Cardinality(B) = IF d = proc[q].cwd THEN Cardinality(A) - 1 ELSE Cardinality(A)
      BY <3>1, CountMoves DEF ProcsAssumption
    <3>5. refs'[d] = Cardinality(B)
      BY <1>0, <1>5, <3>2, <3>3, <3>4
    <3> QED BY <3>5 DEF B
  <2>2. ASSUME ~forked, NEW v \in Vnodes \ (Dir \cup File)
        PROVE  refs'[v] = Cardinality({x \in Proc : proc'[x].exe = v})
    <3> DEFINE A == {x \in Proc : proc[x].exe = v}
    <3> DEFINE B == {x \in Proc : proc'[x].exe = v}
    <3>1. A \in SUBSET Proc /\ B \in SUBSET Proc /\ A \ {q} = B \ {q} /\ q \notin B /\ (q \in A <=> v = proc[q].exe)
      BY <1>0, <1>2, <1>3, VnodeKinds
    <3>2. refs[v] = Cardinality(A)
      BY <2>2 DEF VnodesCounted
    <3>3. v # proc[q].cwd
      OBVIOUS
    <3> HIDE DEF A, B
    <3>4. Cardinality(B) = IF v = proc[q].exe THEN Cardinality(A) - 1 ELSE Cardinality(A)
      BY <3>1, CountMoves DEF ProcsAssumption
    <3>5. refs'[v] = Cardinality(B)
      BY <1>0, <1>5, <3>2, <3>3, <3>4
    <3> QED BY <3>5 DEF B
  <2> QED BY <2>1, <2>2 DEF VnodesCounted
<1>13. OpenFilesSound'
  <2>1. refs' \in [Vnodes -> Nat]
    BY <1>1, <1>5
  <2>2. fileTable' \in [Proc -> [Fd -> Entries \cup {Null}]]
    BY <1>0, <1>1, <1>2
  <2>3. moved' \in [Proc -> [Fd -> Nat]]
    <3>1. [fd \in Fd |-> 0] \in [Fd -> Nat]
      OBVIOUS
    <3> QED BY <1>0, <1>1, <3>1
  <2>4. FileTypes'
    BY <2>1, <2>2, <2>3 DEF OpenFilesSound, FileTypes
  <2>5. \A v \in File : refs'[v] = refs[v]
    <3> SUFFICES ASSUME NEW v \in File PROVE refs'[v] = refs[v]
      OBVIOUS
    <3>1. v \in Vnodes /\ v # proc[q].cwd /\ v # proc[q].exe
      BY VnodeKinds
    <3> QED BY <1>0, <1>5, <3>1
  <2>6. \A x \in Proc : thread'[x] = thread[x] \/ thread'[x].at \notin {"open", "io"}
    BY <1>4
  <2>7. thread'[q].at # "io"
    BY <1>0, <1>4
  <2> QED BY <1>3, <2>4, <2>5, <2>6, <2>7, FilesKept DEF Structures
<1> QED BY <1>6, <1>7, <1>8, <1>10, <1>11, <1>12, <1>13 DEF Structures

\* The end of a wait.
LEMMA proc_waitStep ==
  ASSUME ProcsAssumption, Structures, VnodesCounted, OpenFilesSound, Running, NEW w \in Proc, proc_wait(w)
  PROVE  Structures' /\ VnodesCounted' /\ OpenFilesSound' /\ StopsHonest'
<1>0. PICK q : q = IF w = kproc THEN menu ELSE thread[w].tgt
  OBVIOUS
<1> DEFINE others == Waiters(q) \ {w}
<1>1. /\ IF w = kproc THEN menu # NoProc ELSE thread[w].at = "wait"
      /\ proc[q].sem > 0
      /\ IF destroy_panics(q, others) # "" THEN Stop(destroy_panics(q, others))
         ELSE /\ proc_destroy(q)
              /\ menu' = IF w = kproc THEN NoProc ELSE menu
              /\ thread' = IF w = kproc THEN thread ELSE [thread EXCEPT ![w] = At("user")]
              /\ UNCHANGED <<last_i, foreign, forked, fails, stopped, entry, raced>>
  BY <1>0, Zenon DEF proc_wait
<1>2. /\ IF w = kproc THEN menu # NoProc ELSE thread[w].at = "wait"
      /\ proc[q].sem > 0
  BY <1>1, Zenon
<1>3. /\ q \in User /\ q \in Proc /\ q # kproc /\ proc[q].live /\ w \in Waiters(q) /\ w # q
      /\ thread[q].at = "none" /\ proc[q].numthreads = 0
      /\ proc[q].pid \in Pids /\ table[proc[q].pid] = q /\ proc[q].cwd \in Dir
      /\ proc[q].exe \in Exes \cup {NoVnode}
  BY <1>0, <1>2, WaitEnds
<1>4. CASE destroy_panics(q, others) = ""
  <2>1. /\ proc_destroy(q)
        /\ menu' = IF w = kproc THEN NoProc ELSE menu
        /\ thread' = IF w = kproc THEN thread ELSE [thread EXCEPT ![w] = At("user")]
        /\ UNCHANGED <<last_i, foreign, forked, entry, raced>> /\ stopped' = stopped
    BY <1>1, <1>4, Zenon
  <2>2. others = {} /\ \A v \in Vnodes : ~(Released(q)[v] > refs[v])
    BY <1>4, DestroyOutcome, Zenon
  <2>3. Structures' /\ VnodesCounted' /\ OpenFilesSound'
    BY <1>3, <2>1, <2>2, DestroyStep
  <2> QED BY <2>1, <2>3, RunsOn
<1>5. ASSUME \E v \in Vnodes : Released(q)[v] > refs[v]
      PROVE  forked
  <2> SUFFICES ASSUME ~forked PROVE FALSE
    OBVIOUS
  <2>1. PICK v \in Vnodes : Released(q)[v] > refs[v]
    BY <1>5
  <2>2. Released(q)[v] = IF v = proc[q].cwd \/ v = proc[q].exe THEN 1 ELSE 0
    BY <1>3, ReleasedIs
  <2>3. refs[v] \in Nat
    BY DEF OpenFilesSound, FileTypes
  <2>4. v = proc[q].cwd => refs[v] > 0
    BY <1>3, CwdReferenced
  <2>5. v = proc[q].exe => refs[v] > 0
    BY <1>3, ExeReferenced, VnodeKinds
  <2> QED BY <2>1, <2>2, <2>3, <2>4, <2>5
<1>6. ASSUME others # {}
      PROVE  foreign
  <2>1. PICK v \in Waiters(q) : v # w
    BY <1>6
  <2>2. v \in Proc /\ w \in Proc
    BY DEF Waiters, User, ProcsAssumption
  <2> QED BY <1>3, <2>1, <2>2 DEF Structures, Family
<1>7. CASE destroy_panics(q, others) # ""
  <2>1. PICK why : why = destroy_panics(q, others)
    OBVIOUS
  <2>2. Stop(why) /\ stopped' = why /\ UNCHANGED <<forked, foreign>>
    <3>1. Stop(why)
      BY <1>1, <1>7, <2>1, Zenon
    <3> QED BY <3>1 DEF Stop
  <2>3. \/ why = "closed twice" /\ forked
        \/ why = "semaphore in use" /\ foreign
    <3>1. \/ why = "closed twice" /\ \E v \in Vnodes : Released(q)[v] > refs[v]
          \/ why = "thread left" /\ proc[q].numthreads # 0
          \/ why = "semaphore in use" /\ others # {}
      BY <1>7, <2>1, DestroyOutcome, Zenon
    <3> HIDE DEF others
    <3> QED BY <1>3, <1>5, <1>6, <3>1
  <2>4. StopsHonest'
    BY <2>2, <2>3 DEF StopsHonest
  <2> QED BY <2>2, <2>4, StopKeeps
<1> QED BY <1>4, <1>7, Zenon

\* MoveTo is a step of one thread.
LEMMA MoveToIs ==
  ASSUME NEW p, NEW a, MoveTo(p, a)
  PROVE  /\ thread' = [thread EXCEPT ![p] = a] /\ stopped' = stopped
         /\ UNCHANGED <<proc, table, last_i, menu, kids, ended, foreign, forked>>
BY DEF MoveTo

\* sys_open, its search.
LEMMA OpenSearchStep ==
  ASSUME ProcsAssumption, Structures, VnodesCounted, OpenFilesSound, Running, NEW p \in User, NEW v \in File,
         OpenSearch(p, v)
  PROVE  Structures' /\ VnodesCounted' /\ OpenFilesSound' /\ StopsHonest'
<1> DEFINE a == [at |-> "open", vn |-> v, i |-> free_entry]
<1>1. /\ thread[p].at = "user" /\ MoveTo(p, a) /\ refs' = [refs EXCEPT ![v] = @ + 1] /\ UNCHANGED fileTable
  BY DEF OpenSearch, At
<1>2. a \in ThreadRecords /\ a.at = "open"
  BY EntryFound DEF ThreadRecords
<1> HIDE DEF a
<1>3. \A u \in Vnodes : u \notin File => refs'[u] = refs[u]
  BY <1>1 DEF OpenFilesSound, FileTypes
<1>4. /\ thread' = [thread EXCEPT ![p] = a] /\ stopped' = stopped
      /\ UNCHANGED <<proc, table, last_i, menu, kids, ended, foreign, forked>>
  BY <1>1, MoveToIs
<1>5. Structures' /\ VnodesCounted'
  BY <1>1, <1>2, <1>3, <1>4, FileStep
<1>6. OpenFilesSound'
  BY OpenSearchFiles DEF Structures
<1> QED BY <1>4, <1>5, <1>6, RunsOn

\* sys_open, the rest.
LEMMA OpenTakeStep ==
  ASSUME ProcsAssumption, Structures, VnodesCounted, OpenFilesSound, Running, NEW p \in User, OpenTake(p)
  PROVE  Structures' /\ VnodesCounted' /\ OpenFilesSound' /\ StopsHonest'
<1>0. thread[p].at = "open"
  BY DEF OpenTake
<1>1. PICK v \in File, i \in Entries \cup {Null} : v = thread[p].vn /\ i = thread[p].i
  BY <1>0 DEF Structures, Types, ThreadRecords, User
<1>2. CASE open_overcloses(p, thread[p].vn, thread[p].i)
  <2>1. Stop("closed twice") /\ refs[v] = 0
    BY <1>1, <1>2 DEF OpenTake, open_overcloses
  <2>2. raced
    <3> SUFFICES ASSUME ~raced PROVE FALSE
      OBVIOUS
    <3>1. <<p, -1>> \in Holders(v)
      <4>1. <<p, -1>> \in Proc \X (Fd \cup {-1}) /\ <<p, -1>>[1] = p /\ <<p, -1>>[2] = -1
        BY DEF User
      <4> QED BY <1>0, <1>1, <4>1 DEF Holders, Holds
    <3>2. refs[v] > 0
      BY <3>1, HeldIsReferenced DEF OpenFilesSound, FileTypes
    <3>3. refs[v] = 0
      BY <2>1
    <3> QED BY <3>2, <3>3
  <2>3. stopped' = "closed twice" /\ raced' = raced
    BY <2>1 DEF Stop, files
  <2>4. StopsHonest'
    BY <2>2, <2>3 DEF StopsHonest
  <2> QED BY <2>1, <2>4, StopKeeps
<1>3. CASE ~open_overcloses(p, thread[p].vn, thread[p].i)
  <2>1. sys_open(p, thread[p].vn, thread[p].i) /\ MoveTo(p, At("user"))
    BY <1>3 DEF OpenTake
  <2>2. OpenFilesSound'
    BY <1>0, <1>3, <2>1, OpenTakeFiles DEF Structures
  <2>3. /\ thread' = [thread EXCEPT ![p] = At("user")] /\ stopped' = stopped
        /\ UNCHANGED <<proc, table, last_i, menu, kids, ended, foreign, forked>>
    BY <2>1, MoveToIs
  <2>4. At("user") \in ThreadRecords /\ At("user").at = "user"
    BY ProgramRuns
  <2>5. \A q \in Proc : q # p => fileTable'[q] = fileTable[q]
    <3>1. fileTable' = fileTable \/ \E m : fileTable' = [fileTable EXCEPT ![p][m] = i]
      BY <1>1, <2>1, Zenon DEF sys_open
    <3> QED BY <3>1 DEF OpenFilesSound, FileTypes
  <2>6. \A u \in Vnodes : u \notin File => refs'[u] = refs[u]
    <3>1. refs' = refs \/ refs' = [refs EXCEPT ![v] = @ - 1]
      BY <1>1, <2>1 DEF sys_open
    <3> QED BY <3>1 DEF OpenFilesSound, FileTypes
  <2>7. Structures' /\ VnodesCounted'
    BY <1>0, <2>3, <2>4, <2>5, <2>6, FileStep
  <2> QED BY <2>2, <2>3, <2>7, RunsOn
<1> QED BY <1>2, <1>3

\* sys_close.
LEMMA CloseStep ==
  ASSUME ProcsAssumption, Structures, VnodesCounted, OpenFilesSound, Running, NEW p \in User, NEW fd \in Fd,
         Close(p, fd)
  PROVE  Structures' /\ VnodesCounted' /\ OpenFilesSound' /\ StopsHonest'
<1>0. thread[p] = At("user") /\ thread[p].at = "user" /\ p \in Proc
  <2>1. thread[p] = At("user")
    BY DEF Close
  <2> QED BY <2>1 DEF At, User
<1>1. CASE overclosed(p, fd)
  <2>1. Stop("closed twice")
    BY <1>1 DEF Close
  <2>2. raced
    <3> SUFFICES ASSUME ~raced PROVE FALSE
      OBVIOUS
    <3>1. PICK i : i = fileTable[p][fd]
      OBVIOUS
    <3>2. i # Null /\ refs[entry[i].vn] = 0
      BY <1>1, <3>1 DEF overclosed
    <3>3. refs[entry[i].vn] > 0
      BY <1>0, <3>1, <3>2, Described DEF OpenFilesSound
    <3> QED BY <3>2, <3>3
  <2>3. stopped' = "closed twice" /\ raced' = raced
    BY <2>1 DEF Stop, files
  <2>4. StopsHonest'
    BY <2>2, <2>3 DEF StopsHonest
  <2> QED BY <2>1, <2>4, StopKeeps
<1>2. CASE ~overclosed(p, fd)
  <2>1. sys_close(p, fd) /\ UNCHANGED own
    BY <1>2 DEF Close
  <2>2. UNCHANGED <<proc, table, last_i, thread, menu, kids, ended, foreign, forked, stopped>>
    BY <2>1 DEF own
  <2>3. OpenFilesSound'
    BY <1>0, <1>2, <2>1, <2>2, CloseFiles DEF Structures
  <2>4. thread' = [thread EXCEPT ![p] = At("user")]
    BY <1>0, <2>2, ProgramRuns
  <2>5. At("user") \in ThreadRecords /\ At("user").at = "user"
    BY ProgramRuns
  <2>6. \A q \in Proc : q # p => fileTable'[q] = fileTable[q]
    BY <2>1 DEF sys_close, OpenFilesSound, FileTypes
  <2>7. \A u \in Vnodes : u \notin File => refs'[u] = refs[u]
    <3>1. PICK i : i = fileTable[p][fd]
      OBVIOUS
    <3>2. i \in Entries
      BY <1>0, <2>1, <3>1 DEF sys_close, OpenFilesSound, FileTypes
    <3>3. entry[i].vn \in File \cup {NoFile}
      BY <3>2 DEF OpenFilesSound, FileTypes, EntryRecords
    <3>4. refs' = refs \/ (entry[i].vn # NoFile /\ refs' = [refs EXCEPT ![entry[i].vn] = @ - 1])
      BY <2>1, <3>1, Zenon DEF sys_close
    <3> QED BY <3>3, <3>4 DEF OpenFilesSound, FileTypes
  <2>8. Structures' /\ VnodesCounted'
    BY <1>0, <2>2, <2>4, <2>5, <2>6, <2>7, FileStep
  <2> QED BY <2>2, <2>3, <2>8, RunsOn
<1> QED BY <1>1, <1>2

\* file_read and file_write, up to the sleep.
LEMMA BeginIOStep ==
  ASSUME ProcsAssumption, Structures, VnodesCounted, OpenFilesSound, Running, NEW p \in User, NEW fd \in Fd,
         BeginIO(p, fd)
  PROVE  Structures' /\ VnodesCounted' /\ OpenFilesSound' /\ StopsHonest'
<1> DEFINE u == [of |-> fileTable[p][fd], fd |-> fd, offset |-> entry[fileTable[p][fd]].offset]
<1> DEFINE a == [at |-> "io", u |-> u]
<1>1. /\ thread[p].at = "user" /\ MoveTo(p, a) /\ UNCHANGED <<fileTable, refs>> /\ fileTable[p][fd] # Null /\ p \in Proc
  BY DEF BeginIO, At, files, User
<1>2. a \in ThreadRecords /\ a.at = "io"
  <2>1. fileTable[p][fd] \in Entries
    BY <1>1 DEF OpenFilesSound, FileTypes
  <2>2. entry[fileTable[p][fd]].offset \in Nat
    BY <2>1 DEF OpenFilesSound, FileTypes, EntryRecords
  <2> QED BY <2>1, <2>2 DEF ThreadRecords
<1> HIDE DEF a, u
<1>3. /\ thread' = [thread EXCEPT ![p] = a] /\ stopped' = stopped
      /\ UNCHANGED <<proc, table, last_i, menu, kids, ended, foreign, forked>>
  BY <1>1, MoveToIs
<1>4. Structures' /\ VnodesCounted'
  BY <1>1, <1>2, <1>3, FileStep
<1>5. OpenFilesSound'
  BY BeginIOFiles DEF Structures
<1> QED BY <1>3, <1>4, <1>5, RunsOn

\* file_read and file_write, from the sleep.
LEMMA EndIOStep ==
  ASSUME ProcsAssumption, Structures, VnodesCounted, OpenFilesSound, Running, NEW p \in User, EndIO(p)
  PROVE  Structures' /\ VnodesCounted' /\ OpenFilesSound' /\ StopsHonest'
<1>1. thread[p].at = "io" /\ MoveTo(p, At("user")) /\ UNCHANGED <<fileTable, refs>>
  BY DEF EndIO, file_io, files
<1>2. At("user") \in ThreadRecords /\ At("user").at = "user"
  BY ProgramRuns
<1>3. /\ thread' = [thread EXCEPT ![p] = At("user")] /\ stopped' = stopped
      /\ UNCHANGED <<proc, table, last_i, menu, kids, ended, foreign, forked>>
  BY <1>1, MoveToIs
<1>4. Structures' /\ VnodesCounted'
  BY <1>1, <1>2, <1>3, FileStep
<1>5. OpenFilesSound'
  BY EndIOFiles DEF Structures
<1> QED BY <1>3, <1>4, <1>5, RunsOn

\* The parts of the invariant, gathered.
LEMMA Parts == IInv <=> Structures /\ VnodesCounted /\ OpenFilesSound /\ StopsHonest
BY DEF IInv, Structures, OpenFilesSound

\* The kernel starts so.
LEMMA Starts ==
  ASSUME ProcsAssumption, Init PROVE IInv
<1>1. PICK d \in Dir :
       /\ proc = [p \in Proc |-> IF p = kproc THEN proc_create(1, d, 0, NoVnode) ELSE Dead]
       /\ refs = [v \in Vnodes |-> IF v = d THEN 1 ELSE 0]
  BY Zenon DEF Init
<1>2. /\ InitFiles /\ table = [i \in 0..MaxProc |-> IF i = 1 THEN kproc ELSE NoProc] /\ last_i = 1
      /\ thread = [p \in Proc |-> Gone] /\ menu = NoProc /\ kids = [p \in Proc |-> {}]
      /\ ended = [p \in Proc |-> NotYet] /\ foreign = FALSE /\ forked = FALSE /\ Running
  BY Zenon DEF Init, Running
<1>3. /\ fileTable = [p \in Proc |-> NoFiles] /\ entry = [i \in Entries |-> FreeEntry]
      /\ moved = [p \in Proc |-> [fd \in Fd |-> 0]] /\ raced = FALSE
  BY <1>2 DEF InitFiles
<1> DEFINE first == proc_create(1, d, 0, NoVnode)
<1>4. /\ first \in ProcRecords /\ first.live /\ first.pid = 1 /\ first.cwd = d /\ first.exe = NoVnode
      /\ first.sem = 0 /\ first.numthreads = 0
  BY DEF proc_create, ProcRecords, ProcsAssumption
<1>5. /\ Dead \in ProcRecords /\ ~Dead.live /\ Dead.cwd = NoVnode /\ Dead.exe = NoVnode /\ Dead.sem = 0 /\ Dead.numthreads = 0
      /\ Gone \in ThreadRecords /\ Gone.at = "none"
  <2>1. Dead \in ProcRecords
    BY DEF Dead, ProcRecords, ProcsAssumption
  <2>2. ~Dead.live /\ Dead.cwd = NoVnode /\ Dead.exe = NoVnode /\ Dead.sem = 0 /\ Dead.numthreads = 0
    BY DEF Dead
  <2>3. Gone \in ThreadRecords /\ Gone.at = "none"
    BY DEF Gone, ThreadRecords
  <2> QED BY <2>1, <2>2, <2>3
<1> HIDE DEF first
<1>6. /\ kproc \in Proc /\ proc[kproc] = first /\ \A p \in Proc : p # kproc => proc[p] = Dead
      /\ \A p \in Proc : thread[p] = Gone /\ kids[p] = {} /\ fileTable[p] = NoFiles
      /\ 1 \in Pids /\ 1 \in 0..MaxProc /\ kproc # NoProc
      /\ \A i \in 0..MaxProc : table[i] = IF i = 1 THEN kproc ELSE NoProc
  BY <1>1, <1>2, <1>3 DEF ProcsAssumption, Pids, first
<1>7. Types
  <2>1. proc \in [Proc -> ProcRecords]
    BY <1>1, <1>4, <1>5 DEF first
  <2>2. table \in [0..MaxProc -> Proc \cup {NoProc}]
    BY <1>2, <1>6
  <2>3. thread \in [Proc -> ThreadRecords] /\ kids \in [Proc -> SUBSET Pids]
    BY <1>2, <1>5
  <2>4. ended \in [Proc -> Nat \cup {NotYet}]
    BY <1>2
  <2>5. last_i \in Pids /\ menu \in User \cup {NoProc} /\ foreign \in BOOLEAN /\ forked \in BOOLEAN
    BY <1>2, <1>6
  <2> QED BY <2>1, <2>2, <2>3, <2>4, <2>5 DEF Types
<1>8. Lives
  <2>1. ASSUME NEW p \in Proc
        PROVE  Life(p)
    <3>1. CASE p = kproc
      BY <1>4, <1>5, <1>6, <3>1 DEF Life, InProgram
    <3>2. CASE p # kproc
      BY <1>5, <1>6, <3>2 DEF Life, InProgram
    <3> QED BY <3>1, <3>2
  <2>2. Kernel
    BY <1>4, <1>5, <1>6 DEF Kernel
  <2>3. table[0] = NoProc
    BY <1>6 DEF ProcsAssumption
  <2> QED BY <2>1, <2>2, <2>3 DEF Lives
<1>9. PidsExact
  <2>1. ASSUME NEW p \in Proc, proc[p].live
        PROVE  table[proc[p].pid] = p
    <3>1. p = kproc
      BY <1>5, <1>6, <2>1
    <3> QED BY <1>4, <1>6, <3>1
  <2>2. ASSUME NEW i \in 0..MaxProc, table[i] # NoProc
        PROVE  proc[table[i]].live /\ proc[table[i]].pid = i
    BY <1>4, <1>6, <2>2
  <2> QED BY <2>1, <2>2 DEF PidsExact
<1>10. WaitsLive
  BY <1>2, <1>5, <1>6 DEF WaitsLive, User
<1>11. \A q \in User : Waiters(q) = {}
  BY <1>2, <1>5, <1>6 DEF Waiters, User, ProcsAssumption
<1>12. Family
  BY <1>6, <1>11 DEF Family
<1>13. VnodesCounted
  <2>1. ASSUME NEW e \in Dir
        PROVE  refs[e] = Cardinality({p \in Proc : proc[p].cwd = e})
    <3>1. e \in Vnodes /\ e # NoVnode
      BY VnodeKinds
    <3>2. CASE e = d
      <4>1. {p \in Proc : proc[p].cwd = e} = {kproc}
        BY <1>4, <1>5, <1>6, <3>1, <3>2
      <4> QED BY <1>1, <3>1, <3>2, <4>1, FS_Singleton
    <3>3. CASE e # d
      <4>1. {p \in Proc : proc[p].cwd = e} = {}
        BY <1>4, <1>5, <1>6, <3>1, <3>3
      <4> QED BY <1>1, <3>1, <3>3, <4>1, FS_EmptySet
    <3> QED BY <3>2, <3>3
  <2>2. ASSUME NEW v \in Vnodes \ (Dir \cup File)
        PROVE  refs[v] = Cardinality({p \in Proc : proc[p].exe = v})
    <3>1. v # NoVnode
      BY VnodeKinds
    <3>2. {p \in Proc : proc[p].exe = v} = {}
      BY <1>4, <1>5, <1>6, <3>1
    <3> QED BY <1>1, <3>2, FS_EmptySet
  <2> QED BY <2>1, <2>2 DEF VnodesCounted
<1>14. FileTypes
  <2>1. FreeEntry \in EntryRecords
    BY DEF FreeEntry, EntryRecords, ProcsAssumption
  <2>2. NoFiles \in [Fd -> Entries \cup {Null}] /\ [fd \in Fd |-> 0] \in [Fd -> Nat]
    BY DEF NoFiles
  <2>3. refs \in [Vnodes -> Nat]
    BY <1>1
  <2> QED BY <1>3, <2>1, <2>2, <2>3 DEF FileTypes
<1>15. Reading
  BY <1>5, <1>6 DEF Reading, User
<1>16. Held
  <2> SUFFICES ASSUME NEW v \in File
               PROVE  Cardinality(Holders(v)) <= refs[v]
    BY DEF Held
  <2>1. Holders(v) = {}
    <3>1. ASSUME NEW x \in Proc \X (Fd \cup {-1})
          PROVE  ~Holds(x, v)
      <4>1. x[1] \in Proc /\ x[2] \in Fd \cup {-1}
        OBVIOUS
      <4>2. CASE x[2] = -1
        BY <1>5, <1>6, <4>1, <4>2 DEF Holds
      <4>3. CASE x[2] # -1
        BY <1>6, <4>1, <4>3 DEF Holds, NoFiles
      <4> QED BY <4>2, <4>3
    <3> QED BY <3>1 DEF Holders
  <2>2. refs[v] \in Nat /\ Cardinality({}) = 0
    BY <1>14, VnodeKinds, FS_EmptySet DEF FileTypes
  <2> QED BY <2>1, <2>2
<1>17. DescriptorsSound
  BY <1>6 DEF DescriptorsSound, NoFiles
<1>18. StopsHonest
  BY <1>2, RunningHonest
<1> QED BY <1>7, <1>8, <1>9, <1>10, <1>12, <1>13, <1>14, <1>15, <1>16, <1>17, <1>18 DEF IInv

\* Every step keeps the invariant.
LEMMA Steps ==
  ASSUME ProcsAssumption, IInv, Next PROVE IInv'
<1>1. Structures /\ VnodesCounted /\ OpenFilesSound /\ Running
  BY Parts, Zenon DEF Next, Running
<1>2. SUFFICES Structures' /\ VnodesCounted' /\ OpenFilesSound' /\ StopsHonest'
  BY DEF IInv, Structures, OpenFilesSound
<1>3. CASE common_prog
  BY <1>1, <1>3, common_progStep
<1>4. ASSUME NEW w \in Proc, proc_wait(w)
      PROVE  Structures' /\ VnodesCounted' /\ OpenFilesSound' /\ StopsHonest'
  BY <1>1, <1>4, proc_waitStep
<1>5. ASSUME NEW p \in User, Calls(p)
      PROVE  Structures' /\ VnodesCounted' /\ OpenFilesSound' /\ StopsHonest'
  <2>1. CASE sys_fork(p)
    BY <1>1, <2>1, sys_forkStep
  <2>2. CASE sys__exit(p)
    <3>1. stopped' = stopped
      BY <2>2 DEF sys__exit
    <3> QED BY <1>1, <2>2, <3>1, sys__exitStep, RunsOn
  <2>3. ASSUME NEW pid \in 0..MaxProc, sys_waitpid(p, pid)
        PROVE  Structures' /\ VnodesCounted' /\ OpenFilesSound' /\ StopsHonest'
    BY <1>1, <2>3, sys_waitpidStep
  <2>4. ASSUME NEW v \in File, OpenSearch(p, v)
        PROVE  Structures' /\ VnodesCounted' /\ OpenFilesSound' /\ StopsHonest'
    BY <1>1, <2>4, OpenSearchStep
  <2>5. ASSUME NEW fd \in Fd, Close(p, fd)
        PROVE  Structures' /\ VnodesCounted' /\ OpenFilesSound' /\ StopsHonest'
    BY <1>1, <2>5, CloseStep
  <2>6. ASSUME NEW fd \in Fd, BeginIO(p, fd)
        PROVE  Structures' /\ VnodesCounted' /\ OpenFilesSound' /\ StopsHonest'
    BY <1>1, <2>6, BeginIOStep
  <2> QED BY <1>5, <2>1, <2>2, <2>3, <2>4, <2>5, <2>6 DEF Calls
<1>6. ASSUME NEW p \in User, Progress(p)
      PROVE  Structures' /\ VnodesCounted' /\ OpenFilesSound' /\ StopsHonest'
  <2>1. CASE runprogram(p)
    <3>1. stopped' = stopped
      BY <2>1 DEF runprogram
    <3> QED BY <1>1, <2>1, <3>1, runprogramStep, RunsOn
  <2>2. CASE cmd_progthread(p)
    <3>1. stopped' = stopped
      BY <2>2 DEF cmd_progthread
    <3> QED BY <1>1, <2>2, <3>1, cmd_progthreadStep, RunsOn
  <2>3. CASE ThirdSegment(p)
    <3>1. Stop("third segment")
      BY <2>3 DEF ThirdSegment
    <3>2. stopped' = "third segment"
      BY <3>1 DEF Stop
    <3>3. StopsHonest'
      BY <3>2 DEF StopsHonest
    <3> QED BY <1>1, <3>1, <3>3, StopKeeps
  <2>4. CASE enter_forked_process(p)
    <3>1. stopped' = stopped
      BY <2>4 DEF enter_forked_process
    <3> QED BY <1>1, <2>4, <3>1, enter_forked_processStep, RunsOn
  <2>5. CASE proc_signal_end(p)
    <3>1. stopped' = stopped
      BY <2>5 DEF proc_signal_end
    <3> QED BY <1>1, <2>5, <3>1, proc_signal_endStep, RunsOn
  <2>6. CASE OpenTake(p)
    BY <1>1, <2>6, OpenTakeStep
  <2>7. CASE EndIO(p)
    BY <1>1, <2>7, EndIOStep
  <2> QED BY <1>6, <2>1, <2>2, <2>3, <2>4, <2>5, <2>6, <2>7 DEF Progress
<1>7. \/ common_prog
      \/ \E w \in Proc : proc_wait(w)
      \/ \E p \in User : Calls(p) \/ Progress(p)
  BY Zenon DEF Next
<1> QED BY <1>3, <1>4, <1>5, <1>6, <1>7

\* A stutter changes nothing.
LEMMA Stutters ==
  ASSUME IInv, UNCHANGED vars PROVE IInv'
<1>1. UNCHANGED <<proc, table, last_i, thread, menu, kids, ended, foreign, forked, fails, stopped,
                  fileTable, entry, refs, moved, raced>>
  BY DEF vars, own, files
<1>2. Structures /\ VnodesCounted /\ OpenFilesSound /\ StopsHonest
  BY Parts
<1>3. Stop(stopped)
  BY <1>1 DEF Stop, files
<1>4. Structures' /\ VnodesCounted' /\ OpenFilesSound'
  BY <1>2, <1>3, StopKeeps
<1>5. StopsHonest'
  BY <1>1, <1>2, Zenon DEF StopsHonest
<1> QED BY <1>4, <1>5 DEF IInv, Structures, OpenFilesSound

\* The inductive invariant holds in every reachable state.
THEOREM Inductive == Spec => []IInv
<1>1. Init => IInv
  BY ProcsAssumption, Starts
<1>2. IInv /\ [Next]_vars => IInv'
  BY ProcsAssumption, Steps, Stutters
<1> QED BY <1>1, <1>2, PTL DEF Spec

\* The invariant's types are those the runs check.
LEMMA TypesGive == ASSUME ProcsAssumption, IInv PROVE TypeOK
<1>1. Types /\ FileTypes /\ Lives
  BY DEF IInv
<1>2. ASSUME NEW p \in Proc
      PROVE  /\ proc[p].pid \in 0..MaxProc /\ proc[p].numthreads \in 0..1 /\ proc[p].sem \in 0..1
             /\ proc[p].status \in 0..255 /\ proc[p].cwd \in Dir \cup {NoVnode}
             /\ proc[p].live <=> proc[p].pid # 0
             /\ thread[p].at \in {"none", "start", "forked", "user", "wait", "signal", "open", "io"}
             /\ fileTable[p] \in [Fd -> Entries \cup {Null}]
  <2>1. proc[p] \in ProcRecords /\ thread[p] \in ThreadRecords /\ Life(p)
    BY <1>1 DEF Types, Lives
  <2>2. /\ proc[p].pid \in 0..MaxProc /\ proc[p].numthreads \in 0..1 /\ proc[p].sem \in 0..1
        /\ proc[p].status \in 0..255 /\ proc[p].cwd \in Dir \cup {NoVnode}
    BY <2>1 DEF ProcRecords
  <2>3. proc[p].live <=> proc[p].pid # 0
    BY <2>1 DEF Life, Dead
  <2>4. thread[p].at \in {"none", "start", "forked", "user", "wait", "signal", "open", "io"}
    BY <2>1 DEF ThreadRecords
  <2>5. fileTable[p] \in [Fd -> Entries \cup {Null}]
    BY <1>1 DEF FileTypes
  <2> QED BY <2>2, <2>3, <2>4, <2>5
<1>3. \A i \in Entries : entry[i].countRef \in 0..CountMod-1 /\ entry[i].vn \in File \cup {NoFile}
  BY <1>1 DEF FileTypes, EntryRecords
<1>4. table \in [0..MaxProc -> Proc \cup {NoProc}] /\ last_i \in Pids /\ menu \in User \cup {NoProc}
  BY <1>1 DEF Types
<1>5. \A v \in Vnodes : refs[v] \in Nat
  BY <1>1 DEF FileTypes
<1> QED BY <1>2, <1>3, <1>4, <1>5 DEF TypeOK

\* Processes, their pids and their open files agree, and the kernel stops for
\* the reasons it has (proc_create, proc_destroy, sys_fork, sys_open,
\* sys_close and proc_wait, whatever came before).
THEOREM ProcessesAgree == Spec => []ProcessesSound
<1>1. IInv => ProcessesSound
  BY ProcsAssumption, TypesGive DEF ProcessesSound, IInv
<1> QED BY <1>1, Inductive, PTL

\* The references to a directory, and before a fork those to an executable,
\* are those the processes hold (proc_create, runprogram, proc_destroy).
THEOREM VnodesAreCounted == Spec => []VnodesCounted
<1>1. IInv => VnodesCounted
  BY DEF IInv
<1> QED BY <1>1, Inductive, PTL

\* A wait that may return has the status of the process it waits for, and of
\* no other (sys__exit, proc_signal_end, proc_wait).
THEOREM StatusesArrive == Spec => []StatusDelivered
<1>1. ASSUME IInv PROVE StatusDelivered
  <2> SUFFICES ASSUME NEW q \in User, Waiters(q) # {}, proc[q].sem > 0
               PROVE  ended[q] # NotYet /\ proc[q].status = ended[q] % 256
    BY DEF StatusDelivered, return_status
  <2>1. proc[q] \in ProcRecords /\ Life(q)
    <3>1. q \in Proc
      BY DEF User
    <3> QED BY <1>1, <3>1 DEF IInv, Types, Lives
  <2>2. proc[q].sem = 1
    BY <2>1 DEF ProcRecords
  <2> QED BY <2>1, <2>2 DEF Life
<1> QED BY <1>1, Inductive, PTL
=============================================================================
