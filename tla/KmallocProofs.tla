---------------------------- MODULE KmallocProofs ----------------------------
(***************************************************************************)
(* For any number of threads, pages, block sizes and references: kmalloc   *)
(* and kfree keep the heap's accounts (HeapKept).                          *)
(*                                                                         *)
(* The argument.  Pages and blocks cannot be accounted for one at a time:  *)
(* that a new page meets no block of the heap needs that every page has    *)
(* one owner, and that a page goes back with no block on it needs that the *)
(* blocks handed out are those its free list lacks.  So HeapIInv joins     *)
(* the blocks (BlockInv: each block handed out is a used one of its page), *)
(* the references (RefInv: a thread keeps the one it marked to itself,     *)
(* also while it fetches a page without the lock), what each thread has    *)
(* brought (ThreadInv), and who owns which page (OwnerInv).  Every action  *)
(* moves some pages from one owner to another, or two lots of them         *)
(* (Moved, Moved2), and adds, takes or puts back one block or one page     *)
(* (Takes, Fresh, Puts).                                                   *)
(***************************************************************************)
EXTENDS Kmalloc, FiniteSetTheorems, FunctionTheorems, SequenceTheorems, WellFoundedInduction, TLAPS

\* Every nonempty set of numbers has a least element.
LEMMA Least == ASSUME NEW T \in SUBSET Nat, T # {} PROVE \E x \in T : \A y \in T : x <= y
<1> DEFINE R == OpToRel(<, Nat)
<1>1. IsWellFoundedOn(R, Nat) BY NatLessThanWellFounded
<1>2. \A x, y \in Nat : y < x => <<y, x>> \in R BY DEF OpToRel
<1> HIDE DEF R
<1>3. PICK x \in T : \A y \in T : ~(<<y, x>> \in R) BY <1>1, WFMin
<1>4. ASSUME NEW y \in T PROVE x <= y
  <2>1. x \in Nat /\ y \in Nat BY <1>3
  <2>2. ~(y < x) BY <1>2, <1>3, <2>1
  <2> QED BY <2>1, <2>2
<1> QED BY <1>3, <1>4

\* Min is that element.
LEMMA MinExact == ASSUME NEW T \in SUBSET Nat, T # {} PROVE Min(T) \in T /\ \A y \in T : Min(T) <= y
<1>1. \E x \in T : \A y \in T : x <= y BY Least
<1> QED BY <1>1 DEF Min

\* What SelectInSeq finds: a place that passes the test, or that there is none.
LEMMA BlocktypeExact ==
  ASSUME NEW sz \in Nat, sz <= LargestSubpage
  PROVE  blocktype(sz) \in Types /\ sz <= BlockSizes[blocktype(sz)]
<1> DEFINE I == {i \in 1..Len(BlockSizes) : sz <= BlockSizes[i]}
<1>1. Len(BlockSizes) \in I BY HeapAssumption DEF LargestSubpage
<1>2. I \in SUBSET Nat /\ I # {} BY <1>1
<1>3. Min(I) \in I BY <1>2, MinExact
<1>4. blocktype(sz) = Min(I) BY <1>2 DEF blocktype, SelectInSeq
<1> QED BY <1>3, <1>4, HeapAssumption DEF Types

\* Putting an element in front of a list, and taking the first one off.
LEMMA PrependExact ==
  ASSUME NEW S, NEW s \in Seq(S), NEW x \in S
  PROVE  LET u == <<x>> \o s IN
         /\ u \in Seq(S) /\ Len(u) = Len(s) + 1 /\ Head(u) = x
         /\ Range(u) = {x} \union Range(s)
         /\ IsInjective(s) /\ x \notin Range(s) => IsInjective(u)
<1> DEFINE u == <<x>> \o s
<1>1. <<x>> \in Seq(S) /\ Len(<<x>>) = 1 OBVIOUS
<1>2. u \in Seq(S) /\ Len(u) = Len(s) + 1 BY <1>1, ConcatProperties
<1>3. u[1] = x /\ \A i \in 1..Len(s) : u[i + 1] = s[i]
  <2>1. u[1] = x BY <1>1, ConcatProperties
  <2>2. ASSUME NEW i \in 1..Len(s) PROVE u[i + 1] = s[i]
    <3>1. i + 1 \in 1..(Len(<<x>>) + Len(s)) /\ ~(i + 1 <= Len(<<x>>)) /\ (i + 1) - Len(<<x>>) = i BY <1>1
    <3> QED BY <1>1, <3>1, ConcatProperties
  <2> QED BY <2>1, <2>2
<1> HIDE DEF u
<1>4. \A i \in 1..Len(u) : i = 1 \/ (i - 1 \in 1..Len(s) /\ u[i] = s[i - 1])
  <2> SUFFICES ASSUME NEW i \in 1..Len(u), i # 1 PROVE i - 1 \in 1..Len(s) /\ u[i] = s[i - 1] OBVIOUS
  <2>1. i - 1 \in 1..Len(s) /\ (i - 1) + 1 = i BY <1>2
  <2>2. u[(i - 1) + 1] = s[i - 1] BY <1>3, <2>1
  <2> QED BY <2>1, <2>2
<1>5. DOMAIN u = 1..Len(u) /\ DOMAIN s = 1..Len(s) /\ Len(s) \in Nat BY <1>2
<1>6. Range(u) = {x} \union Range(s)
  <2>1. \A y \in Range(u) : y = x \/ y \in Range(s) BY <1>3, <1>4, <1>5 DEF Range
  <2>2. \A i \in 1..Len(s) : i + 1 \in 1..Len(u) BY <1>2, <1>5
  <2>3. 1 \in 1..Len(u) BY <1>2, <1>5
  <2>4. x \in Range(u) /\ \A y \in Range(s) : y \in Range(u) BY <1>3, <1>5, <2>2, <2>3 DEF Range
  <2> QED BY <2>1, <2>4
<1>7. ASSUME IsInjective(s), x \notin Range(s) PROVE IsInjective(u)
  <2> SUFFICES ASSUME NEW i \in 1..Len(u), NEW j \in 1..Len(u), u[i] = u[j] PROVE i = j BY <1>5 DEF IsInjective
  <2>1. \A k \in 1..Len(s) : s[k] # x BY <1>5, <1>7 DEF Range
  <2>2. CASE i = 1 BY <1>3, <1>4, <2>1, <2>2
  <2>3. CASE j = 1 BY <1>3, <1>4, <2>1, <2>3
  <2>4. CASE i # 1 /\ j # 1
    <3>1. i - 1 \in 1..Len(s) /\ j - 1 \in 1..Len(s) /\ s[i - 1] = s[j - 1] BY <1>4, <2>4
    <3>2. i - 1 = j - 1 BY <1>5, <1>7, <3>1 DEF IsInjective
    <3> QED BY <3>2
  <2> QED BY <2>2, <2>3, <2>4
<1>8. Head(u) = x BY <1>2, <1>3
<1> QED BY <1>2, <1>6, <1>7, <1>8 DEF u

\* The tail of an ordered set has all but its head.
LEMMA TailExact ==
  ASSUME NEW S, NEW s \in Seq(S), s # <<>>, IsInjective(s)
  PROVE  /\ Head(s) \in S /\ Head(s) \in Range(s)
         /\ Tail(s) \in Seq(S) /\ Len(Tail(s)) = Len(s) - 1 /\ Len(s) > 0
         /\ Range(Tail(s)) = Range(s) \ {Head(s)}
         /\ IsInjective(Tail(s))
<1> DEFINE u == Tail(s)
<1>1. Len(s) \in Nat /\ Len(s) # 0 /\ DOMAIN s = 1..Len(s) BY EmptySeq
<1>2. u \in Seq(S) /\ Len(u) = Len(s) - 1 /\ DOMAIN u = 1..Len(u) /\ \A i \in 1..Len(u) : u[i] = s[i + 1]
  BY <1>1
<1>3. Head(s) = s[1] /\ 1 \in 1..Len(s) BY <1>1
<1> HIDE DEF u
<1>4. Range(u) = Range(s) \ {s[1]}
  <2>1. ASSUME NEW y \in Range(u) PROVE y \in Range(s) /\ y # s[1]
    <3>1. PICK i \in 1..Len(u) : y = s[i + 1] BY <1>2 DEF Range
    <3>2. i + 1 \in 1..Len(s) /\ i + 1 # 1 BY <1>1, <1>2, <3>1
    <3> QED BY <1>1, <1>3, <3>1, <3>2 DEF Range, IsInjective
  <2>2. ASSUME NEW y \in Range(s), y # s[1] PROVE y \in Range(u)
    <3>1. PICK i \in 1..Len(s) : y = s[i] BY <1>1 DEF Range
    <3>2. i - 1 \in 1..Len(u) /\ (i - 1) + 1 = i BY <1>1, <1>2, <2>2, <3>1
    <3>3. y = u[i - 1] BY <1>2, <3>1, <3>2
    <3> QED BY <1>2, <3>2, <3>3 DEF Range
  <2> QED BY <2>1, <2>2
<1>5. IsInjective(u)
  <2> SUFFICES ASSUME NEW i \in 1..Len(u), NEW j \in 1..Len(u), u[i] = u[j] PROVE i = j BY <1>2 DEF IsInjective
  <2>1. i + 1 \in 1..Len(s) /\ j + 1 \in 1..Len(s) /\ s[i + 1] = s[j + 1] BY <1>1, <1>2
  <2>2. i + 1 = j + 1 BY <1>1, <2>1 DEF IsInjective
  <2> QED BY <2>2
<1>6. Head(s) \in S /\ Head(s) \in Range(s) BY <1>1, <1>3 DEF Range
<1> HIDE DEF u
<1>7. Len(s) > 0 /\ Range(u) = Range(s) \ {Head(s)} BY <1>1, <1>3, <1>4
<1> QED BY <1>2, <1>5, <1>6, <1>7 DEF u

\* remove_lists takes off one element and keeps the others.
LEMMA RemoveExact ==
  ASSUME NEW S, NEW s \in Seq(S), IsInjective(s), NEW e
  PROVE  /\ RemoveFirst(s, e) \in Seq(S) /\ IsInjective(RemoveFirst(s, e))
         /\ Range(RemoveFirst(s, e)) = Range(s) \ {e}
<1>1. Len(s) \in Nat /\ DOMAIN s = 1..Len(s) OBVIOUS
<1>2. CASE ~\E i \in 1..Len(s) : s[i] = e
  <2>1. RemoveFirst(s, e) = s BY <1>2 DEF RemoveFirst
  <2>2. e \notin Range(s) BY <1>1, <1>2 DEF Range
  <2> QED BY <2>1, <2>2
<1>3. CASE \E i \in 1..Len(s) : s[i] = e
  <2> DEFINE I == {i \in 1..Len(s) : s[i] = e}
  <2>1. I \in SUBSET Nat /\ I # {} BY <1>3
  <2>2. Min(I) \in I BY <2>1, MinExact
  <2>3. RemoveFirst(s, e) = RemoveAt(s, Min(I)) BY <1>3, <2>1 DEF RemoveFirst, SelectInSeq
  <2> HIDE DEF I
  <2>4. PICK k \in 1..Len(s) : k = Min(I) /\ s[k] = e BY <2>2 DEF I
  <2> DEFINE a == SubSeq(s, 1, k - 1)
             b == SubSeq(s, k + 1, Len(s))
             u == a \o b
  <2>5. a \in Seq(S) /\ Len(a) = k - 1 /\ \A i \in 1..k-1 : a[i] = s[i]
    <3>1. 1 \in 1..Len(s)+1 /\ k - 1 \in (1-1)..Len(s) BY <1>1, <2>4
    <3> QED BY <1>1, <2>4, <3>1, SubSeqProperties
  <2>6. b \in Seq(S) /\ Len(b) = Len(s) - k /\ \A i \in 1..Len(s)-k : b[i] = s[k + i]
    <3>1. k + 1 \in 1..Len(s)+1 /\ Len(s) \in ((k+1)-1)..Len(s) BY <1>1, <2>4
    <3>2. b \in Seq(S) BY <3>1, SubSeqProperties
    <3>3. Len(b) = Len(s) - k BY <1>1, <2>4, <3>1, SubSeqProperties
    <3>4. ASSUME NEW i \in 1..Len(s)-k PROVE b[i] = s[k + i]
      <4>1. i \in 1..(Len(s)-(k+1)+1) /\ (k + 1) + i - 1 = k + i BY <1>1, <2>4, <3>4
      <4>2. b[i] = s[(k + 1) + i - 1] BY <3>1, <4>1, SubSeqProperties
      <4> QED BY <4>1, <4>2
    <3> QED BY <3>2, <3>3, <3>4
  <2>7. u \in Seq(S) /\ Len(u) = Len(s) - 1
        /\ \A i \in 1..Len(s)-1 : u[i] = IF i < k THEN s[i] ELSE s[i + 1]
    <3>0. u \in Seq(S) /\ Len(u) = Len(a) + Len(b) BY <2>5, <2>6, ConcatProperties
    <3>1. Len(u) = Len(s) - 1 BY <1>1, <2>4, <2>5, <2>6, <3>0
    <3>2. ASSUME NEW i \in 1..Len(s)-1 PROVE u[i] = IF i < k THEN s[i] ELSE s[i + 1]
      <4>1. i \in 1..Len(a)+Len(b) BY <3>0, <3>1
      <4>2. u[i] = IF i <= Len(a) THEN a[i] ELSE b[i - Len(a)] BY <2>5, <2>6, <4>1, ConcatProperties
      <4> HIDE DEF a, b, u
      <4>3. CASE i < k
        <5>1. i <= Len(a) /\ i \in 1..k-1 BY <2>4, <2>5, <4>3
        <5> QED BY <2>5, <4>2, <4>3, <5>1
      <4>4. CASE ~(i < k)
        <5>1. ~(i <= Len(a)) /\ i - Len(a) \in 1..Len(s)-k /\ k + (i - Len(a)) = i + 1 BY <1>1, <2>4, <2>5, <4>4
        <5>2. b[i - Len(a)] = s[k + (i - Len(a))] BY <2>6, <5>1
        <5> QED BY <4>2, <4>4, <5>1, <5>2
      <4> QED BY <4>3, <4>4
    <3> QED BY <3>0, <3>1, <3>2
  <2>8. RemoveFirst(s, e) = u BY <2>3, <2>4 DEF RemoveAt
  <2> HIDE DEF a, b, u
  <2>9. DOMAIN u = 1..Len(s)-1 BY <2>7
  <2> DEFINE f(i) == IF i < k THEN i ELSE i + 1
  <2>10. ASSUME NEW i \in 1..Len(s)-1 PROVE f(i) \in 1..Len(s) /\ f(i) # k /\ u[i] = s[f(i)]
    BY <1>1, <2>4, <2>7, <2>10
  <2>11. \A i, j \in 1..Len(s)-1 : f(i) = f(j) => i = j BY <1>1, <2>4
  <2>12. \A m \in 1..Len(s) : m # k => \E i \in 1..Len(s)-1 : f(i) = m
    <3> SUFFICES ASSUME NEW m \in 1..Len(s), m # k PROVE \E i \in 1..Len(s)-1 : f(i) = m OBVIOUS
    <3>1. CASE m < k
      <4>1. m \in 1..Len(s)-1 /\ f(m) = m BY <1>1, <2>4, <3>1
      <4> QED BY <4>1
    <3>2. CASE m > k
      <4>1. m - 1 \in 1..Len(s)-1 /\ f(m - 1) = m BY <1>1, <2>4, <3>2
      <4> QED BY <4>1
    <3> QED BY <1>1, <2>4, <3>1, <3>2
  <2> HIDE DEF f
  <2>13. IsInjective(u)
    <3> SUFFICES ASSUME NEW i \in 1..Len(s)-1, NEW j \in 1..Len(s)-1, u[i] = u[j] PROVE i = j
      BY <2>9 DEF IsInjective
    <3>1. f(i) = f(j) BY <1>1, <2>10 DEF IsInjective
    <3> QED BY <2>11, <3>1
  <2>14. Range(u) = Range(s) \ {e}
    <3>1. ASSUME NEW y \in Range(u) PROVE y \in Range(s) /\ y # e
      <4>1. PICK i \in 1..Len(s)-1 : y = u[i] BY <2>9 DEF Range
      <4>2. y = s[f(i)] /\ f(i) \in 1..Len(s) /\ f(i) # k BY <2>10, <4>1
      <4> QED BY <1>1, <2>4, <4>2 DEF Range, IsInjective
    <3>2. ASSUME NEW y \in Range(s), y # e PROVE y \in Range(u)
      <4>1. PICK m \in 1..Len(s) : y = s[m] BY <1>1 DEF Range
      <4>2. m # k BY <2>4, <3>2, <4>1
      <4>3. PICK i \in 1..Len(s)-1 : f(i) = m BY <2>12, <4>2
      <4> QED BY <2>9, <2>10, <4>1, <4>3 DEF Range
    <3> QED BY <3>1, <3>2
  <2> QED BY <2>7, <2>8, <2>13, <2>14
<1> QED BY <1>2, <1>3

\* Arithmetic: products grow, and quotient and remainder are unique.
LEMMA Mul == ASSUME NEW a \in Int, NEW b \in Int, NEW s \in Int, s >= 0, a <= b PROVE a * s <= b * s
OBVIOUS

LEMMA DivMod == ASSUME NEW a \in Nat, NEW s \in Nat \ {0}
  PROVE a \div s \in Nat /\ a % s \in 0..s-1 /\ a = (a \div s) * s + (a % s)
OBVIOUS

LEMMA Unique == ASSUME NEW s \in Nat \ {0}, NEW q \in Nat, NEW o \in 0..s-1
  PROVE  /\ q * s + o \in Nat
         /\ (q * s + o) \div s = q
         /\ (q * s + o) % s = o
<1> DEFINE a == q * s + o
           d == a \div s
           m == a % s
<1>1. q * s \in Nat OBVIOUS
<1>2. a \in Nat BY <1>1
<1>3. d \in Nat /\ m \in 0..s-1 /\ a = d * s + m BY <1>2, DivMod
<1> HIDE DEF a, d, m
<1>10. a = q * s + o BY DEF a
<1>4. ~(d >= q + 1)
  <2> SUFFICES ASSUME d >= q + 1 PROVE FALSE OBVIOUS
  <2>1. (q + 1) * s <= d * s BY <1>3, Mul
  <2>2. (q + 1) * s = q * s + s OBVIOUS
  <2> QED BY <1>1, <1>3, <1>10, <2>1, <2>2
<1>5. ~(q >= d + 1)
  <2> SUFFICES ASSUME q >= d + 1 PROVE FALSE OBVIOUS
  <2>1. (d + 1) * s <= q * s BY <1>3, Mul
  <2>2. (d + 1) * s = d * s + s BY <1>3
  <2>3. d * s \in Int BY <1>3
  <2> QED BY <1>1, <1>3, <1>10, <2>1, <2>2, <2>3
<1>6. d = q BY <1>3, <1>4, <1>5
<1>7. m = o BY <1>1, <1>3, <1>6, <1>10
<1> QED BY <1>2, <1>6, <1>7 DEF a, d, m

-----------------------------------------------------------------------------
(* The invariant, in parts.                                                *)

PCs == {"idle", "big", "page", "ref", "refpage", "install", "spare", "undo", "freepage"}
Ref == [page : Pages \cup {0}, type : Types, free : Seq(Nat)]
Live == [addr : Nat, size : Requests]
Thr == [pc : PCs, sz : Nat, page : Pages \cup {0}, ref : Refs \cup {NoRef}, spare : Pages \cup {0}]
Root == [page : Pages \cup {0}, inuse : SUBSET (0..RefsPerPage-1)]

HeapTypes ==
  /\ pool \in SUBSET Pages
  /\ kheaproots \in [Roots -> Root]
  /\ ref \in [Refs -> Ref]
  /\ sizebases \in [Types -> Seq(Refs)] /\ allbase \in Seq(Refs)
  /\ live \in SUBSET Live
  /\ thr \in [Threads -> Thr]
  /\ fails \in 0..MaxFail

\* The lists are ordered sets; Listed are the references on them.
Listed == Range(allbase)
Lists(refs, bases, all) ==
  /\ IsInjective(all)
  /\ \A s \in Types : IsInjective(bases[s]) /\ Range(bases[s]) = {r \in Range(all) : refs[r].type = s}

\* The offsets of the blocks on a page of type s.
Offsets(s) == {k * BlockSizes[s] : k \in 0..NumBlocks(s)-1}

\* A free list names some blocks of its page, each once.
PageOK(x) ==
  /\ x.page \in Pages
  /\ IsInjective(x.free) /\ Range(x.free) \subseteq Offsets(x.type)
  /\ Len(x.free) <= NumBlocks(x.type)

\* Block b is one of the blocks of page x, and not free.
SmallIn(b, x) ==
  /\ x.page = PageOf(b.addr)
  /\ b.addr % PageSize \in Offsets(x.type) \ Range(x.free)
  /\ b.size <= BlockSizes[x.type]

\* The heap pages are sound, each belongs to one reference, and every block a
\* caller holds is a used block of one of them or a run of other pages.
Blocks(refs, listed, held) ==
  /\ \A r \in listed : PageOK(refs[r])
  /\ \A r, q \in listed : refs[r].page = refs[q].page => r = q
  /\ \A b \in held : PageOf(b.addr) \in Pages
  /\ \A b \in held : ~IsBig(b) => \E r \in listed : SmallIn(b, refs[r])
  /\ \A b \in held : IsBig(b) => /\ b.addr % PageSize = 0
                                 /\ Run(PageOf(b.addr), PagesOf(b.size)) \subseteq Pages
                                 /\ \A r \in listed : refs[r].page # PageOf(b.addr)
  /\ \A a, b \in held : a.addr = b.addr => a = b

BlockInv ==
  /\ Lists(ref, sizebases, allbase)
  /\ Blocks(ref, Listed, live)
  /\ \A r \in Listed : Len(ref[r].free) < NumBlocks(ref[r].type)

\* A reference is marked while it is on the lists or a thread has it; a root
\* is used only when the roots before it that have no page are full.
Has(t) == thr[t].pc \in {"refpage", "install", "spare"}
Marked(r) == r[2] \in kheaproots[r[1]].inuse
RefInv ==
  /\ \A r \in Listed : Marked(r) /\ kheaproots[r[1]].page # 0
  /\ \A t \in Threads : Has(t) => thr[t].ref \in Refs \ Listed /\ Marked(thr[t].ref)
  /\ \A t, u \in Threads : Has(t) /\ Has(u) /\ thr[t].ref = thr[u].ref => t = u
  /\ \A p, q \in Roots : q < p /\ kheaproots[p].inuse # {} /\ kheaproots[q].page = 0
       => kheaproots[q].inuse = 0..RefsPerPage-1

\* What a thread has brought so far, at each place of kmalloc and kfree.
Place(x, roots) ==
  /\ x.pc \in {"idle", "big", "page"} => x.page = 0
  /\ x.pc \notin {"idle", "big", "page"} => x.page \in Pages
  /\ x.pc \notin {"install", "spare"} => x.spare = 0
  /\ x.pc = "spare" => x.spare # 0 /\ roots[x.ref[1]].page # 0
  /\ x.pc = "big" => x.sz \in Requests /\ x.sz >= LargestSubpage
  /\ x.pc \in {"page", "ref", "refpage", "install", "spare"} => x.sz \in Requests /\ x.sz < LargestSubpage
  /\ x.pc = "freepage" => Run(x.page, PagesOf(x.sz)) \subseteq Pages
ThreadInv == \A t \in Threads : Place(thr[t], kheaproots)

\* Each page has one owner: Owned lists the seven kinds there are.
InHeap(r, p) == r \in Listed /\ ref[r].page = p
InRoot(q, p) == q \in Roots /\ kheaproots[q].page = p
InBlock(b, p) == b \in live /\ IsBig(b) /\ p \in Run(PageOf(b.addr), PagesOf(b.size))
Brought(t, p) == t \in Threads /\ thr[t].pc # "freepage" /\ thr[t].page = p
Spare(t, p) == t \in Threads /\ thr[t].spare = p
Freed(t, p) == t \in Threads /\ thr[t].pc = "freepage" /\ p \in Run(thr[t].page, PagesOf(thr[t].sz))
Owned(k, x, p) ==
  \/ k = "pool" /\ x = 0 /\ p \in pool
  \/ k = "heap" /\ InHeap(x, p)
  \/ k = "root" /\ InRoot(x, p)
  \/ k = "block" /\ InBlock(x, p)
  \/ k = "page" /\ Brought(x, p)
  \/ k = "spare" /\ Spare(x, p)
  \/ k = "freed" /\ Freed(x, p)
OwnerInv == \A p \in Pages : \E k, x : Owned(k, x, p) /\ \A l, y : Owned(l, y, p) => l = k /\ y = x

HeapIInv == HeapTypes /\ BlockInv /\ RefInv /\ ThreadInv /\ OwnerInv /\ NeverRefused

-----------------------------------------------------------------------------
(* Addresses, pages and blocks.                                            *)

\* An address is its page and its offset.
LEMMA AddrExact ==
  ASSUME NEW p \in Nat, NEW o \in 0..PageSize-1
  PROVE  Addr(p, o) \in Nat /\ PageOf(Addr(p, o)) = p /\ Addr(p, o) % PageSize = o
BY Unique, HeapAssumption DEF Addr, PageOf

\* Every number is the address of one page and offset.
LEMMA PageAndOffset ==
  ASSUME NEW a \in Nat
  PROVE  PageOf(a) \in Nat /\ a % PageSize \in 0..PageSize-1 /\ a = Addr(PageOf(a), a % PageSize)
BY DivMod, HeapAssumption DEF Addr, PageOf

\* The blocks of a page fill it, one after the other.
LEMMA OffsetsExact ==
  ASSUME NEW s \in Types
  PROVE  /\ BlockSizes[s] \in 1..PageSize /\ NumBlocks(s) \in Nat \ {0}
         /\ NumBlocks(s) * BlockSizes[s] = PageSize
         /\ \A k \in 0..NumBlocks(s)-1 : k * BlockSizes[s] \in Offsets(s)
         /\ \A o \in Offsets(s) : o \in 0..PageSize-1 /\ o % BlockSizes[s] = 0 /\ o + BlockSizes[s] <= PageSize
         /\ \A o, m \in Offsets(s) : o < m => o + BlockSizes[s] <= m
<1>1. PICK z \in 1..PageSize : z = BlockSizes[s] BY HeapAssumption DEF Types
<1>2. PageSize \in Nat \ {0} /\ PageSize % z = 0 BY <1>1, HeapAssumption DEF Types
<1>3. PICK n \in Nat : n = NumBlocks(s) /\ n = PageSize \div z
  <2>1. NumBlocks(s) = PageSize \div z BY <1>1 DEF NumBlocks
  <2>2. z \in Nat \ {0} /\ PageSize \in Nat BY <1>1, <1>2
  <2>3. PageSize \div z \in Nat BY <2>2, DivMod
  <2> QED BY <2>1, <2>3
<1>4. n * z = PageSize
  <2>1. PageSize = (PageSize \div z) * z + (PageSize % z) BY <1>2, DivMod
  <2>2. (PageSize \div z) * z \in Int BY <1>3
  <2> QED BY <1>2, <1>3, <2>1, <2>2
<1>5. n # 0 BY <1>2, <1>4
<1>6. ASSUME NEW k \in 0..n-1 PROVE k * z \in 0..PageSize-1 /\ (k * z) % z = 0 /\ k * z + z <= PageSize
  <2>1. k * z \in Nat BY <1>6
  <2>2. (k + 1) * z <= n * z BY <1>3, <1>6, Mul
  <2>3. (k + 1) * z = k * z + z BY <1>6
  <2>4. (k * z) % z = 0
    <3>1. k \in Nat /\ 0 \in 0..z-1 /\ z \in Nat \ {0} BY <1>6
    <3>2. (k * z + 0) % z = 0 BY <3>1, Unique
    <3> QED BY <2>1, <3>2
  <2> QED BY <1>2, <1>4, <2>1, <2>2, <2>3, <2>4
<1>7. ASSUME NEW k \in 0..n-1, NEW m \in 0..n-1, k * z < m * z PROVE k * z + z <= m * z
  <2>1. k < m
    <3>1. ~(m <= k) \/ m * z <= k * z BY <1>7, Mul
    <3>2. k * z \in Int /\ m * z \in Int OBVIOUS
    <3> QED BY <1>3, <1>7, <3>1, <3>2
  <2>2. (k + 1) * z <= m * z BY <1>3, <1>7, <2>1, Mul
  <2>3. (k + 1) * z = k * z + z BY <1>7
  <2> QED BY <2>2, <2>3
<1>8. Offsets(s) = {k * z : k \in 0..n-1} BY <1>1, <1>3 DEF Offsets
<1> QED BY <1>1, <1>3, <1>4, <1>5, <1>6, <1>7, <1>8

\* There are as many as the page has.
LEMMA OffsetsCounted ==
  ASSUME NEW s \in Types
  PROVE  IsFiniteSet(Offsets(s)) /\ Cardinality(Offsets(s)) = NumBlocks(s)
<1>1. PICK z \in 1..PageSize : z = BlockSizes[s] BY OffsetsExact
<1>2. PICK n \in Nat \ {0} : n = NumBlocks(s) BY OffsetsExact
<1> DEFINE f == [k \in 0..n-1 |-> k * z]
<1>3. Offsets(s) = {k * z : k \in 0..n-1} BY <1>1, <1>2 DEF Offsets
<1>4. f \in Surjection(0..n-1, Offsets(s)) BY <1>3 DEF Surjection
<1>5. \A k, m \in 0..n-1 : k < m => k * z < m * z
  <2> SUFFICES ASSUME NEW k \in 0..n-1, NEW m \in 0..n-1, k < m PROVE k * z < m * z OBVIOUS
  <2>1. (k + 1) * z <= m * z BY <1>1, <1>2, Mul
  <2>2. (k + 1) * z = k * z + z /\ k * z \in Int /\ m * z \in Int OBVIOUS
  <2> QED BY <2>1, <2>2
<1>6. f \in Injection(0..n-1, Offsets(s))
  <2>1. ASSUME NEW k \in 0..n-1, NEW m \in 0..n-1, k * z = m * z PROVE k = m
    <3>1. k * z \in Int OBVIOUS
    <3>2. ~(k * z < m * z) /\ ~(m * z < k * z) BY <2>1, <3>1
    <3> QED BY <1>2, <1>5, <3>2
  <2> QED BY <1>3, <2>1 DEF Injection, IsInjective
<1>7. IsFiniteSet(0..n-1) /\ Cardinality(0..n-1) = n
  <2>1. 0 \in Int /\ n - 1 \in Int /\ ~(0 > n - 1) /\ (n - 1) - 0 + 1 = n BY <1>2
  <2> QED BY <2>1, FS_Interval
<1> HIDE DEF f
<1> QED BY <1>2, <1>4, <1>6, <1>7, FS_Surjection

\* A free list as long as the page has blocks names all of them.
LEMMA AllFree ==
  ASSUME NEW s \in Types, NEW f \in Seq(Nat), IsInjective(f), Range(f) \subseteq Offsets(s)
  PROVE  Len(f) <= NumBlocks(s) /\ (Len(f) = NumBlocks(s) => Range(f) = Offsets(s))
<1>1. PICK n \in Nat : n = Len(f) OBVIOUS
<1>2. f = [i \in 1..n |-> f[i]] /\ DOMAIN f = 1..n BY <1>1
<1>3. f \in Injection(1..n, Offsets(s))
  <2>1. \A i \in 1..n : f[i] \in Offsets(s) BY <1>2 DEF Range
  <2>2. f \in [1..n -> Offsets(s)] BY <1>2, <2>1
  <2> QED BY <2>2 DEF Injection
<1>4. IsFiniteSet(1..n) /\ Cardinality(1..n) = n
  <2>1. 1 \in Int /\ n \in Int /\ (IF 1 > n THEN 0 ELSE n - 1 + 1) = n BY <1>1
  <2> QED BY <2>1, FS_Interval
<1>5. Cardinality(1..n) <= Cardinality(Offsets(s)) /\ (Cardinality(1..n) = Cardinality(Offsets(s)) => f \in Surjection(1..n, Offsets(s)))
  BY <1>3, OffsetsCounted, FS_Injection
<1>6. n <= NumBlocks(s) /\ (n = NumBlocks(s) => f \in Surjection(1..n, Offsets(s))) BY <1>4, <1>5, OffsetsCounted
<1>7. f \in Surjection(1..n, Offsets(s)) => Offsets(s) \subseteq Range(f) BY <1>2 DEF Surjection, Range
<1> QED BY <1>1, <1>6, <1>7

-----------------------------------------------------------------------------
(* What the operations do to the lists and to the blocks.                  *)

RefMap(refs) == refs \in [Refs -> Ref]
Apart(refs, r, refs2) == \A q \in Refs : q # r => refs2[q] = refs[q]
SamePlaces(refs, refs2) == \A q \in Refs : refs2[q].page = refs[q].page /\ refs2[q].type = refs[q].type

\* refs2 and b after doalloc took the head of r's free list for sz bytes.
Takes(refs, r, sz, refs2, b) ==
  /\ refs2 = [refs EXCEPT ![r].free = Tail(@)]
  /\ b = [addr |-> Addr(refs[r].page, Head(refs[r].free)), size |-> sz]

\* The block at the head of a free list is nobody's, and goes to the caller.
LEMMA TakeBlock ==
  ASSUME NEW refs, RefMap(refs), NEW listed \in SUBSET Refs, NEW held \in SUBSET Live,
         Blocks(refs, listed, held), NEW r \in listed, refs[r].free # <<>>,
         NEW sz \in Requests, sz < LargestSubpage, sz <= BlockSizes[refs[r].type],
         NEW refs2, NEW b, Takes(refs, r, sz, refs2, b)
  PROVE  /\ RefMap(refs2) /\ b \in Live
         /\ Blocks(refs2, listed, held \cup {b})
         /\ Len(refs2[r].free) < NumBlocks(refs[r].type)
         /\ Apart(refs, r, refs2) /\ SamePlaces(refs, refs2)
<1> USE DEF Takes, RefMap, Apart, SamePlaces
<1> DEFINE x == refs[r]
           o == Head(x.free)
<1>1. x \in Ref /\ r \in Refs OBVIOUS
<1>2. /\ x.free \in Seq(Nat) /\ x.free # <<>> /\ Len(x.free) \in Nat /\ x.type \in Types
      /\ x.page \in Pages /\ IsInjective(x.free) /\ Range(x.free) \subseteq Offsets(x.type)
      /\ Len(x.free) <= NumBlocks(x.type)
  <2>1. x.free \in Seq(Nat) /\ x.type \in Types BY <1>1 DEF Ref
  <2>2. PageOK(x) BY DEF Blocks
  <2>3. x.page \in Pages /\ IsInjective(x.free) /\ Range(x.free) \subseteq Offsets(x.type) /\ Len(x.free) <= NumBlocks(x.type)
    BY <2>2 DEF PageOK
  <2> QED BY <2>1, <2>3
<1>3. PICK f : f = x.free OBVIOUS
<1>4. f \in Seq(Nat) /\ f # <<>> /\ IsInjective(f) /\ Len(f) \in Nat BY <1>2, <1>3
<1>5. /\ o \in Range(f) /\ Tail(f) \in Seq(Nat) /\ Len(Tail(f)) = Len(f) - 1
      /\ Range(Tail(f)) = Range(f) \ {o} /\ IsInjective(Tail(f))
  <2>1. o = Head(f) BY <1>3
  <2> QED BY <1>4, <2>1, TailExact
<1>6. /\ refs2 \in [Refs -> Ref] /\ refs2[r].free = Tail(f)
      /\ \A q \in Refs : /\ refs2[q].page = refs[q].page /\ refs2[q].type = refs[q].type
                         /\ q # r => refs2[q] = refs[q]
  <2> DEFINE z == [x EXCEPT !.free = Tail(f)]
  <2>1. refs2 = [refs EXCEPT ![r] = z] BY <1>3
  <2>2. z \in Ref /\ z.page = x.page /\ z.type = x.type /\ z.free = Tail(f) BY <1>1, <1>5 DEF Ref
  <2> HIDE DEF z
  <2> QED BY <1>1, <2>1, <2>2
<1> DEFINE y == refs2[r]
<1>7. o \in Offsets(x.type) /\ o \in 0..PageSize-1 BY <1>2, <1>3, <1>5, OffsetsExact
<1>8. x.page \in Nat BY <1>2 DEF Pages
<1>9. b.addr \in Nat /\ PageOf(b.addr) = x.page /\ b.addr % PageSize = o /\ b.size = sz BY <1>7, <1>8, AddrExact
<1>10. b \in Live BY <1>9 DEF Live
<1>11. ~IsBig(b)
  <2>1. sz \in Nat /\ LargestSubpage \in Nat BY HeapAssumption DEF LargestSubpage
  <2> QED BY <1>9, <2>1 DEF IsBig
<1>12. y.page = x.page /\ y.type = x.type /\ y.free = Tail(f) BY <1>1, <1>6
<1> HIDE DEF x, y, o
<1>13. PageOK(y) /\ Len(y.free) < NumBlocks(x.type)
  <2>1. NumBlocks(x.type) \in Nat /\ Len(y.free) = Len(f) - 1 BY <1>2, <1>5, <1>12, OffsetsExact
  <2>2. Len(y.free) < NumBlocks(x.type) BY <1>2, <1>3, <1>4, <2>1
  <2> QED BY <1>2, <1>3, <1>5, <1>12, <2>1, <2>2 DEF PageOK
<1>14. SmallIn(b, y)
  <2>1. b.addr % PageSize \in Offsets(y.type) \ Range(y.free) BY <1>5, <1>7, <1>9, <1>12
  <2> QED BY <1>9, <1>12, <2>1 DEF SmallIn, x
<1>15. ASSUME NEW a \in held, NEW q \in listed, SmallIn(a, refs[q]) PROVE SmallIn(a, refs2[q]) /\ a.addr # b.addr
  <2>1. CASE q = r
    <3>1. SmallIn(a, y) BY <1>3, <1>5, <1>12, <1>15, <2>1 DEF SmallIn, x
    <3>2. a.addr % PageSize # o BY <1>3, <1>5, <1>15, <2>1 DEF SmallIn, x
    <3> QED BY <1>9, <2>1, <3>1, <3>2 DEF y
  <2>2. CASE q # r
    <3>1. refs[q].page # x.page BY <2>2 DEF Blocks, x
    <3> QED BY <1>6, <1>9, <1>15, <2>2, <3>1 DEF SmallIn
  <2> QED BY <2>1, <2>2
<1>16. \A a \in held : a.addr # b.addr
  <2> SUFFICES ASSUME NEW a \in held PROVE a.addr # b.addr OBVIOUS
  <2>1. CASE IsBig(a) BY <1>9, <2>1 DEF Blocks, x
  <2>2. CASE ~IsBig(a) BY <1>15, <2>2 DEF Blocks
  <2> QED BY <2>1, <2>2
<1>17. Blocks(refs2, listed, held \cup {b})
  <2>1. \A q \in listed : PageOK(refs2[q]) BY <1>6, <1>13 DEF Blocks, y
  <2>2. \A q, u \in listed : refs2[q].page = refs2[u].page => q = u BY <1>6 DEF Blocks
  <2>3. \A a \in held \cup {b} : PageOf(a.addr) \in Pages BY <1>2, <1>9 DEF Blocks
  <2>4. \A a \in held \cup {b} : ~IsBig(a) => \E q \in listed : SmallIn(a, refs2[q])
    BY <1>14, <1>15 DEF Blocks, y
  <2>5. \A a \in held \cup {b} : IsBig(a) => /\ a.addr % PageSize = 0
                                 /\ Run(PageOf(a.addr), PagesOf(a.size)) \subseteq Pages
                                 /\ \A q \in listed : refs2[q].page # PageOf(a.addr)
    BY <1>6, <1>11 DEF Blocks
  <2>6. \A a, c \in held \cup {b} : a.addr = c.addr => a = c BY <1>16 DEF Blocks
  <2> QED BY <2>1, <2>2, <2>3, <2>4, <2>5, <2>6 DEF Blocks
<1> QED BY <1>6, <1>10, <1>13, <1>17 DEF x, y

\* A fresh page: all its blocks are free, the last one first.
FreshFree(s) == [i \in 1..NumBlocks(s) |-> (NumBlocks(s) - i) * BlockSizes[s]]

\* It names every block once.
LEMMA FreshExact ==
  ASSUME NEW s \in Types
  PROVE  /\ FreshFree(s) \in Seq(Nat) /\ FreshFree(s) # <<>> /\ Len(FreshFree(s)) = NumBlocks(s)
         /\ IsInjective(FreshFree(s)) /\ Range(FreshFree(s)) \subseteq Offsets(s)
<1>1. PICK z \in 1..PageSize : z = BlockSizes[s] BY OffsetsExact
<1>2. PICK n \in Nat \ {0} : n = NumBlocks(s) BY OffsetsExact
<1>3. FreshFree(s) = [i \in 1..n |-> (n - i) * z] BY <1>1, <1>2 DEF FreshFree
<1>4. \A i \in 1..n : n - i \in 0..n-1 /\ (n - i) * z \in Nat BY <1>1, <1>2
<1>5. FreshFree(s) \in Seq(Nat) /\ Len(FreshFree(s)) = n /\ DOMAIN FreshFree(s) = 1..n BY <1>3, <1>4
<1>6. Range(FreshFree(s)) \subseteq Offsets(s) BY <1>1, <1>2, <1>3, <1>4, <1>5 DEF Range, Offsets
<1>7. IsInjective(FreshFree(s))
  <2>1. ASSUME NEW i \in 1..n, NEW j \in 1..n, i < j PROVE (n - i) * z # (n - j) * z
    <3>1. (n - j) + 1 <= n - i /\ n - j \in Int /\ n - i \in Int /\ z \in Int /\ z > 0 BY <1>1, <1>2, <2>1
    <3>2. ((n - j) + 1) * z <= (n - i) * z BY <3>1, Mul
    <3>3. ((n - j) + 1) * z = (n - j) * z + z BY <3>1
    <3>4. (n - j) * z \in Int BY <3>1
    <3> QED BY <3>1, <3>2, <3>3, <3>4
  <2> SUFFICES ASSUME NEW i \in 1..n, NEW j \in 1..n, FreshFree(s)[i] = FreshFree(s)[j] PROVE i = j
    BY <1>5 DEF IsInjective
  <2>2. (n - i) * z = (n - j) * z BY <1>3
  <2>3. ~(i < j) /\ ~(j < i) BY <2>1, <2>2
  <2> QED BY <1>2, <2>3
<1> QED BY <1>2, <1>5, <1>6, <1>7

Fresh(refs, r, p, s, refs2) == refs2 = [refs EXCEPT ![r] = [page |-> p, type |-> s, free |-> FreshFree(s)]]

\* A page nobody else has joins the heap, all its blocks free.
LEMMA AddPage ==
  ASSUME NEW refs, RefMap(refs), NEW listed \in SUBSET Refs, NEW held \in SUBSET Live,
         Blocks(refs, listed, held), NEW r \in Refs \ listed, NEW p \in Pages, NEW s \in Types,
         \A q \in listed : refs[q].page # p, \A b \in held : PageOf(b.addr) # p,
         NEW refs2, Fresh(refs, r, p, s, refs2)
  PROVE  /\ RefMap(refs2) /\ Blocks(refs2, listed \cup {r}, held)
         /\ Apart(refs, r, refs2)
<1> USE DEF Fresh, RefMap, Apart
<1> DEFINE y == [page |-> p, type |-> s, free |-> FreshFree(s)]
<1>1. y \in Ref BY FreshExact DEF Ref
<1>2. refs2 \in [Refs -> Ref] /\ refs2[r] = y /\ \A q \in Refs : q # r => refs2[q] = refs[q] BY <1>1
<1>3. y.page = p /\ y.type = s /\ y.free = FreshFree(s) OBVIOUS
<1> HIDE DEF y
<1>4. NumBlocks(s) \in Nat BY OffsetsExact
<1>5. PageOK(y) BY <1>3, <1>4, FreshExact DEF PageOK
<1>6. \A q \in listed : refs2[q] = refs[q] BY <1>2
<1>7. Blocks(refs2, listed \cup {r}, held)
  <2>1. \A q \in listed \cup {r} : PageOK(refs2[q]) BY <1>2, <1>5, <1>6 DEF Blocks
  <2>2. \A q, u \in listed \cup {r} : refs2[q].page = refs2[u].page => q = u BY <1>2, <1>3, <1>6 DEF Blocks
  <2>3. \A a \in held : PageOf(a.addr) \in Pages /\ (~IsBig(a) => \E q \in listed \cup {r} : SmallIn(a, refs2[q]))
    BY <1>6 DEF Blocks
  <2>4. \A a \in held : IsBig(a) => /\ a.addr % PageSize = 0
                                 /\ Run(PageOf(a.addr), PagesOf(a.size)) \subseteq Pages
                                 /\ \A q \in listed \cup {r} : refs2[q].page # PageOf(a.addr)
    BY <1>2, <1>3, <1>6 DEF Blocks
  <2>5. \A a, c \in held : a.addr = c.addr => a = c BY DEF Blocks
  <2> QED BY <2>1, <2>2, <2>3, <2>4, <2>5 DEF Blocks
<1> QED BY <1>2, <1>7

\* refs2 after kfree put block b in front of r's free list.
Puts(refs, r, b, refs2) == refs2 = [refs EXCEPT ![r].free = <<b.addr % PageSize>> \o refs[r].free]

\* A freed block goes to the head of its page's list.  When the page is all
\* free then, no block on it is held.
LEMMA PutBlock ==
  ASSUME NEW refs, RefMap(refs), NEW listed \in SUBSET Refs, NEW held \in SUBSET Live,
         Blocks(refs, listed, held), NEW b \in held, NEW r \in listed, SmallIn(b, refs[r]),
         Len(refs[r].free) < NumBlocks(refs[r].type),
         NEW refs2, Puts(refs, r, b, refs2)
  PROVE  /\ RefMap(refs2) /\ Blocks(refs2, listed, held \ {b})
         /\ refs2[r].free = <<b.addr % PageSize>> \o refs[r].free
         /\ Len(refs2[r].free) \in Nat /\ Len(refs2[r].free) <= NumBlocks(refs[r].type)
         /\ Len(refs2[r].free) = NumBlocks(refs[r].type) => Blocks(refs2, listed \ {r}, held \ {b})
         /\ Apart(refs, r, refs2) /\ SamePlaces(refs, refs2)
<1> USE DEF RefMap, Apart, SamePlaces
<1>0. PICK free : free = <<b.addr % PageSize>> \o refs[r].free /\ refs2 = [refs EXCEPT ![r].free = free]
  BY DEF Puts
<1> DEFINE x == refs[r]
           o == b.addr % PageSize
<1>1. x \in Ref /\ r \in Refs OBVIOUS
<1>2. /\ x.free \in Seq(Nat) /\ Len(x.free) \in Nat /\ x.type \in Types
      /\ x.page \in Pages /\ IsInjective(x.free) /\ Range(x.free) \subseteq Offsets(x.type)
  <2>1. x.free \in Seq(Nat) /\ x.type \in Types BY <1>1 DEF Ref
  <2>2. PageOK(x) BY DEF Blocks
  <2>3. x.page \in Pages /\ IsInjective(x.free) /\ Range(x.free) \subseteq Offsets(x.type) BY <2>2 DEF PageOK
  <2> QED BY <2>1, <2>3
<1>3. o \in Offsets(x.type) \ Range(x.free) /\ x.page = PageOf(b.addr) BY DEF SmallIn
<1>4. o \in 0..PageSize-1 /\ NumBlocks(x.type) \in Nat BY <1>2, <1>3, OffsetsExact
<1>5. free \in Seq(Nat) /\ Len(free) = Len(x.free) + 1 /\ Range(free) = {o} \cup Range(x.free) /\ IsInjective(free)
  BY <1>0, <1>2, <1>3, <1>4, PrependExact
<1> DEFINE y == refs2[r]
<1>7. /\ refs2 \in [Refs -> Ref] /\ refs2[r].free = free
      /\ \A q \in Refs : /\ refs2[q].page = refs[q].page /\ refs2[q].type = refs[q].type
                         /\ q # r => refs2[q] = refs[q]
  <2> DEFINE z == [x EXCEPT !.free = free]
  <2>1. refs2 = [refs EXCEPT ![r] = z] BY <1>0
  <2>2. z \in Ref /\ z.page = x.page /\ z.type = x.type /\ z.free = free BY <1>1, <1>5 DEF Ref
  <2> HIDE DEF z
  <2> QED BY <1>1, <2>1, <2>2
<1>8. y.page = x.page /\ y.type = x.type /\ y.free = free BY <1>1, <1>7
<1>9. Len(x.free) < NumBlocks(x.type) OBVIOUS
<1> HIDE DEF x, y, o
<1>10. PageOK(y) /\ Len(free) <= NumBlocks(x.type)
  <2>1. Len(free) <= NumBlocks(x.type) BY <1>2, <1>4, <1>5, <1>9
  <2> QED BY <1>2, <1>3, <1>5, <1>8, <2>1 DEF PageOK
<1>12. ASSUME NEW a \in held \ {b}, NEW q \in listed, SmallIn(a, refs[q]) PROVE SmallIn(a, refs2[q])
  <2>1. CASE q = r
    <3>1. a.addr \in Nat /\ b.addr \in Nat BY DEF Live
    <3>2. PageOf(a.addr) = x.page /\ PageOf(b.addr) = x.page BY <1>3, <1>12, <2>1 DEF SmallIn, x
    <3>3. a.addr # b.addr BY <1>12 DEF Blocks
    <3>4. a.addr % PageSize # o BY <3>1, <3>2, <3>3, PageAndOffset DEF o
    <3>5. SmallIn(a, y) BY <1>5, <1>8, <1>12, <2>1, <3>4 DEF SmallIn, x
    <3> QED BY <2>1, <3>5 DEF y
  <2>2. CASE q # r BY <1>7, <1>12, <2>2
  <2> QED BY <2>1, <2>2
<1>13. Blocks(refs2, listed, held \ {b})
  <2>1. \A q \in listed : PageOK(refs2[q]) BY <1>7, <1>10 DEF Blocks, y
  <2>2. \A q, u \in listed : refs2[q].page = refs2[u].page => q = u BY <1>7 DEF Blocks
  <2>3. \A a \in held \ {b} : PageOf(a.addr) \in Pages BY DEF Blocks
  <2>4. \A a \in held \ {b} : ~IsBig(a) => \E q \in listed : SmallIn(a, refs2[q]) BY <1>12 DEF Blocks
  <2>5. \A a \in held \ {b} : IsBig(a) => /\ a.addr % PageSize = 0
                                 /\ Run(PageOf(a.addr), PagesOf(a.size)) \subseteq Pages
                                 /\ \A q \in listed : refs2[q].page # PageOf(a.addr)
    BY <1>7 DEF Blocks
  <2>6. \A a, c \in held \ {b} : a.addr = c.addr => a = c BY DEF Blocks
  <2> QED BY <2>1, <2>2, <2>3, <2>4, <2>5, <2>6 DEF Blocks
<1>14. ASSUME Len(free) = NumBlocks(x.type) PROVE Blocks(refs2, listed \ {r}, held \ {b})
  <2>1. Range(free) = Offsets(x.type) BY <1>2, <1>3, <1>5, <1>14, AllFree
  <2>2. \A a : ~SmallIn(a, refs2[r]) BY <1>8, <2>1 DEF SmallIn, y
  <2>3. \A a \in held \ {b} : ~IsBig(a) => \E q \in listed \ {r} : SmallIn(a, refs2[q]) BY <1>13, <2>2 DEF Blocks
  <2> QED BY <1>13, <2>3 DEF Blocks
<1> QED BY <1>0, <1>2, <1>5, <1>7, <1>10, <1>13, <1>14 DEF x

\* alloc_kpages gives a big block, of pages nobody has.
LEMMA AddRun ==
  ASSUME NEW refs, NEW listed, NEW held \in SUBSET Live, Blocks(refs, listed, held),
         NEW va \in Pages, NEW sz \in Requests, sz >= LargestSubpage, Run(va, PagesOf(sz)) \subseteq Pages,
         \A q \in listed : refs[q].page # va, \A a \in held : PageOf(a.addr) # va,
         NEW b, b = [addr |-> Addr(va, 0), size |-> sz]
  PROVE  b \in Live /\ PageOf(b.addr) = va /\ IsBig(b) /\ b.size = sz /\ Blocks(refs, listed, held \cup {b})
<1>1. 0 \in 0..PageSize-1 /\ va \in Nat BY HeapAssumption DEF Pages
<1>2. b.addr \in Nat /\ PageOf(b.addr) = va /\ b.addr % PageSize = 0 /\ b.size = sz BY <1>1, AddrExact
<1>3. b \in Live BY <1>2 DEF Live
<1>4. IsBig(b) BY <1>2 DEF IsBig
<1>5. \A a \in held : a.addr # b.addr BY <1>2
<1> HIDE DEF Run
<1>6. Blocks(refs, listed, held \cup {b}) BY <1>2, <1>4, <1>5 DEF Blocks
<1> QED BY <1>2, <1>3, <1>4, <1>6

\* The lists take a reference in front, and give one back.
Enters(bases, all, r, s, bases2, all2) == bases2 = [bases EXCEPT ![s] = <<r>> \o @] /\ all2 = <<r>> \o all
Leaves(bases, all, r, s, bases2, all2) ==
  bases2 = [bases EXCEPT ![s] = RemoveFirst(@, r)] /\ all2 = RemoveFirst(all, r)

\* A reference goes to the front of allbase and of the list of its type.
LEMMA EnterLists ==
  ASSUME NEW refs, NEW bases \in [Types -> Seq(Refs)], NEW all \in Seq(Refs), Lists(refs, bases, all),
         NEW r \in Refs, r \notin Range(all), NEW s \in Types, NEW refs2, refs2[r].type = s,
         \A q \in Range(all) : refs2[q].type = refs[q].type,
         NEW bases2, NEW all2, Enters(bases, all, r, s, bases2, all2)
  PROVE  /\ bases2 \in [Types -> Seq(Refs)] /\ all2 \in Seq(Refs)
         /\ Range(all2) = Range(all) \cup {r} /\ Lists(refs2, bases2, all2)
<1> USE DEF Enters
<1>1. all2 \in Seq(Refs) /\ Range(all2) = Range(all) \cup {r} /\ IsInjective(all2) BY PrependExact DEF Lists
<1>2. bases[s] \in Seq(Refs) /\ IsInjective(bases[s]) /\ r \notin Range(bases[s]) BY DEF Lists
<1>3. /\ <<r>> \o bases[s] \in Seq(Refs) /\ IsInjective(<<r>> \o bases[s])
      /\ Range(<<r>> \o bases[s]) = Range(bases[s]) \cup {r}
  BY <1>2, PrependExact
<1>4. bases2 \in [Types -> Seq(Refs)] /\ \A t \in Types : bases2[t] = IF t = s THEN <<r>> \o bases[s] ELSE bases[t] BY <1>3
<1>5. ASSUME NEW t \in Types
      PROVE  IsInjective(bases2[t]) /\ Range(bases2[t]) = {q \in Range(all2) : refs2[q].type = t}
  <2>0. IsInjective(bases[t]) /\ Range(bases[t]) = {q \in Range(all) : refs[q].type = t} BY DEF Lists
  <2>1. CASE t = s
    <3>1. Range(bases2[t]) = Range(bases[t]) \cup {r} /\ IsInjective(bases2[t]) BY <1>3, <1>4, <2>1
    <3> QED BY <1>1, <2>0, <2>1, <3>1
  <2>2. CASE t # s
    <3>1. bases2[t] = bases[t] BY <1>4, <2>2
    <3> QED BY <1>1, <2>0, <2>2, <3>1
  <2> QED BY <2>1, <2>2
<1> QED BY <1>1, <1>4, <1>5 DEF Lists

\* remove_lists takes a reference off both.
LEMMA LeaveLists ==
  ASSUME NEW refs, NEW bases \in [Types -> Seq(Refs)], NEW all \in Seq(Refs), Lists(refs, bases, all),
         NEW r \in Range(all), NEW s \in Types, refs[r].type = s, NEW refs2, \A q \in Range(all) : refs2[q].type = refs[q].type,
         NEW bases2, NEW all2, Leaves(bases, all, r, s, bases2, all2)
  PROVE  /\ bases2 \in [Types -> Seq(Refs)] /\ all2 \in Seq(Refs)
         /\ Range(all2) = Range(all) \ {r} /\ Lists(refs2, bases2, all2)
<1> USE DEF Leaves
<1>1. all2 \in Seq(Refs) /\ Range(all2) = Range(all) \ {r} /\ IsInjective(all2) BY RemoveExact DEF Lists
<1>2. bases[s] \in Seq(Refs) /\ IsInjective(bases[s]) BY DEF Lists
<1>3. /\ RemoveFirst(bases[s], r) \in Seq(Refs) /\ IsInjective(RemoveFirst(bases[s], r))
      /\ Range(RemoveFirst(bases[s], r)) = Range(bases[s]) \ {r}
  BY <1>2, RemoveExact
<1>4. bases2 \in [Types -> Seq(Refs)] /\ \A t \in Types : bases2[t] = IF t = s THEN RemoveFirst(bases[s], r) ELSE bases[t] BY <1>3
<1>5. ASSUME NEW t \in Types
      PROVE  IsInjective(bases2[t]) /\ Range(bases2[t]) = {q \in Range(all2) : refs2[q].type = t}
  <2>0. IsInjective(bases[t]) /\ Range(bases[t]) = {q \in Range(all) : refs[q].type = t} BY DEF Lists
  <2>1. CASE t = s
    <3>1. Range(bases2[t]) = Range(bases[t]) \ {r} /\ IsInjective(bases2[t]) BY <1>3, <1>4, <2>1
    <3> QED BY <1>1, <2>0, <2>1, <3>1
  <2>2. CASE t # s
    <3>1. bases2[t] = bases[t] BY <1>4, <2>2
    <3> QED BY <1>1, <2>0, <2>2, <3>1
  <2> QED BY <2>1, <2>2
<1> QED BY <1>1, <1>4, <1>5 DEF Lists

-----------------------------------------------------------------------------
(* What the actions share.                                                 *)

\* The pages of a request hold it.
LEMMA PagesOfExact ==
  ASSUME NEW sz \in Nat
  PROVE  /\ PagesOf(sz) \in Nat /\ sz <= PagesOf(sz) * PageSize
         /\ sz > 0 => PagesOf(sz) > 0
         /\ PagesOf(1) = 1
<1>1. PICK z \in Nat \ {0} : z = PageSize BY HeapAssumption
<1>2. PICK n \in Nat : n = PagesOf(sz) /\ sz + z - 1 = n * z + ((sz + z - 1) % z) /\ (sz + z - 1) % z \in 0..z-1
  <2>1. sz + z - 1 \in Nat BY <1>1
  <2>2. PagesOf(sz) = (sz + z - 1) \div z BY <1>1 DEF PagesOf
  <2> QED BY <1>1, <2>1, <2>2, DivMod
<1>3. n * z \in Int BY <1>1, <1>2
<1>4. sz <= n * z BY <1>1, <1>2, <1>3
<1>5. ASSUME sz > 0 PROVE n > 0
  <2>1. n = 0 => n * z = 0 BY <1>1
  <2> QED BY <1>2, <1>4, <1>5, <2>1
<1>6. PagesOf(1) = 1
  <2>1. 1 * z + 0 = z /\ 0 \in 0..z-1 BY <1>1
  <2>2. (1 * z + 0) \div z = 1 BY <1>1, <2>1, Unique
  <2>3. 1 + z - 1 = z BY <1>1
  <2> QED BY <1>1, <2>1, <2>2, <2>3 DEF PagesOf
<1> QED BY <1>1, <1>2, <1>4, <1>5, <1>6

\* The largest block fits a page.
LEMMA LargestExact == LargestSubpage \in 1..PageSize
<1>0. BlockSizes \in Seq(1..PageSize) /\ BlockSizes # <<>> BY HeapAssumption
<1>1. Len(BlockSizes) \in DOMAIN BlockSizes BY <1>0, EmptySeq
<1> QED BY <1>1, HeapAssumption DEF LargestSubpage

\* Sizes are numbers, and a big one is not 0.
LEMMA RequestsExact ==
  ASSUME NEW sz \in Requests
  PROVE  sz \in Nat /\ (sz < LargestSubpage => sz <= LargestSubpage) /\ (sz >= LargestSubpage => sz > 0)
<1>1. LargestSubpage \in Nat \ {0} BY LargestExact, HeapAssumption
<1>2. sz \in Nat BY HeapAssumption
<1> QED BY ONLY <1>1, <1>2

\* The lists name references.
LEMMA ListedRefs == ASSUME HeapTypes PROVE Listed \in SUBSET Refs
<1>1. allbase \in Seq(Refs) BY DEF HeapTypes
<1> QED BY <1>1 DEF Listed, Range

\* A big block has its first page.
LEMMA BigHasPage ==
  ASSUME HeapTypes, BlockInv, NEW b \in live, IsBig(b)
  PROVE  PageOf(b.addr) \in Pages /\ InBlock(b, PageOf(b.addr))
<1>0. LargestSubpage \in Nat \ {0} BY LargestExact, HeapAssumption
<1>1. b.size \in Nat /\ b.size > 0
  <2>1. b \in Live /\ Requests \subseteq Nat BY HeapAssumption DEF HeapTypes
  <2>2. b.size \in Nat BY <2>1 DEF Live
  <2> QED BY <1>0, <2>2 DEF IsBig
<1>2. PagesOf(b.size) > 0 /\ PagesOf(b.size) \in Nat BY <1>1, PagesOfExact
<1>3. PageOf(b.addr) \in Pages BY DEF BlockInv, Blocks
<1>4. PageOf(b.addr) \in Run(PageOf(b.addr), PagesOf(b.size)) BY <1>2, <1>3 DEF Run, Pages
<1> QED BY <1>3, <1>4 DEF InBlock

\* A page somebody else has is not a page of the heap, and no block starts on it.
LEMMA Foreign ==
  ASSUME HeapTypes, BlockInv, OwnerInv,
         NEW p \in Pages, NEW k, NEW x, Owned(k, x, p), k # "heap", k # "block"
  PROVE  (\A r \in Listed : ref[r].page # p) /\ (\A b \in live : PageOf(b.addr) # p)
<1>1. \A l, y : Owned(l, y, p) => l = k BY DEF OwnerInv
<1>2. \A r \in Listed : ref[r].page # p
  <2> SUFFICES ASSUME NEW r \in Listed, ref[r].page = p PROVE FALSE OBVIOUS
  <2>1. Owned("heap", r, p) BY DEF Owned, InHeap
  <2> QED BY <1>1, <2>1
<1>3. \A b \in live : PageOf(b.addr) # p
  <2> SUFFICES ASSUME NEW b \in live, PageOf(b.addr) = p PROVE FALSE OBVIOUS
  <2>1. CASE IsBig(b)
    <3>1. Owned("block", b, p) BY <2>1, BigHasPage DEF Owned
    <3> QED BY <1>1, <3>1
  <2>2. CASE ~IsBig(b) BY <1>2, <2>2 DEF BlockInv, Blocks, SmallIn
  <2> QED BY <2>1, <2>2
<1> QED BY <1>2, <1>3

\* The pages keep their owners, or those of M go from x1, which has them as k1,
\* to x2, which has them as k2.
LEMMA OwnersStay ==
  ASSUME OwnerInv, \A p \in Pages : \A k, x : Owned(k, x, p)' <=> Owned(k, x, p)
  PROVE  OwnerInv'
<1> SUFFICES ASSUME NEW p \in Pages
             PROVE  \E k, x : Owned(k, x, p)' /\ \A l, y : Owned(l, y, p)' => l = k /\ y = x
  BY DEF OwnerInv, Pages
<1>1. PICK k0, x0 : Owned(k0, x0, p) /\ \A l, y : Owned(l, y, p) => l = k0 /\ y = x0 BY DEF OwnerInv
<1> QED BY <1>1

Moved(M, k1, x1, k2, x2) ==
  /\ \A p \in Pages : p \in M => Owned(k1, x1, p)
  /\ \A p \in Pages : \A k, x :
       Owned(k, x, p)' <=> (Owned(k, x, p) /\ ~(p \in M /\ k = k1 /\ x = x1)) \/ (p \in M /\ k = k2 /\ x = x2)

\* ... with one lot of pages.
LEMMA OwnersMove ==
  ASSUME OwnerInv, NEW M, NEW k1, NEW x1, NEW k2, NEW x2, Moved(M, k1, x1, k2, x2)
  PROVE  OwnerInv'
<1> USE DEF Moved
<1> SUFFICES ASSUME NEW p \in Pages
             PROVE  \E k, x : Owned(k, x, p)' /\ \A l, y : Owned(l, y, p)' => l = k /\ y = x
  BY DEF OwnerInv, Pages
<1>1. PICK k0, x0 : Owned(k0, x0, p) /\ \A l, y : Owned(l, y, p) => l = k0 /\ y = x0 BY DEF OwnerInv
<1>2. CASE p \notin M BY <1>1, <1>2
<1>3. CASE p \in M
  <2>1. k1 = k0 /\ x1 = x0 BY <1>1, <1>3
  <2>2. \A l, y : Owned(l, y, p)' => l = k2 /\ y = x2 BY <1>1, <1>3, <2>1
  <2>3. Owned(k2, x2, p)' BY <1>3
  <2> QED BY <2>2, <2>3
<1> QED BY <1>2, <1>3

\* One thread moves on.
LEMMA GotoExact ==
  ASSUME HeapTypes, NEW t \in Threads, NEW x \in Thr, Goto(t, x)
  PROVE  thr' \in [Threads -> Thr] /\ thr'[t] = x /\ \A u \in Threads : u # t => thr'[u] = thr[u]
BY DEF HeapTypes, Goto

\* A thread outside the heap has nothing.
LEMMA OutOfHeapExact ==
  ASSUME NEW roots
  PROVE  OutOfHeap \in Thr /\ OutOfHeap.page = 0 /\ OutOfHeap.spare = 0 /\ OutOfHeap.pc = "idle" /\ Place(OutOfHeap, roots)
BY DEF OutOfHeap, Thr, PCs, Place

\* The places of the other threads do not depend on what a step does to a root,
\* which keeps the page it has.
LEMMA PlacesKept ==
  ASSUME HeapTypes, ThreadInv, NEW t \in Threads,
         \A u \in Threads : u # t => thr'[u] = thr[u],
         \A q \in Roots : kheaproots[q].page # 0 => kheaproots'[q].page # 0,
         Place(thr'[t], kheaproots'), RefInv
  PROVE  ThreadInv'
<1> SUFFICES ASSUME NEW u \in Threads, u # t PROVE Place(thr[u], kheaproots')
  BY DEF ThreadInv
<1>1. Place(thr[u], kheaproots) BY DEF ThreadInv
<1>2. thr[u].pc = "spare" => thr[u].ref[1] \in Roots BY DEF RefInv, Has, Refs
<1> QED BY <1>1, <1>2 DEF Place

\* The references are as they were, and the thread that moves takes none.
LEMMA RefsKept ==
  ASSUME RefInv, NEW t \in Threads, \A u \in Threads : u # t => thr'[u] = thr[u],
         Listed' = Listed, kheaproots' = kheaproots,
         thr'[t].pc \notin {"refpage", "install", "spare"} \/ (Has(t) /\ thr'[t].ref = thr[t].ref)
  PROVE  RefInv'
<1>1. \A u \in Threads : Has(u)' => Has(u) /\ thr'[u].ref = thr[u].ref BY DEF Has
<1>2. \A u \in Threads : Has(u)' => thr'[u].ref \in Refs \ Listed' /\ Marked(thr[u].ref)'
  <2> SUFFICES ASSUME NEW u \in Threads, Has(u)' PROVE thr'[u].ref \in Refs \ Listed' /\ Marked(thr[u].ref)'
    OBVIOUS
  <2>1. Has(u) /\ thr'[u].ref = thr[u].ref BY <1>1
  <2>2. thr[u].ref \in Refs \ Listed /\ Marked(thr[u].ref) BY <2>1 DEF RefInv
  <2>3. Marked(thr[u].ref)' BY <2>1, <2>2 DEF Marked
  <2> QED BY <2>1, <2>2, <2>3
<1>3. \A u, v \in Threads : Has(u)' /\ Has(v)' /\ thr'[u].ref = thr'[v].ref => u = v BY <1>1 DEF RefInv
<1>4. \A r \in Listed' : Marked(r)' /\ kheaproots'[r[1]].page # 0 BY DEF RefInv, Marked
<1>5. \A p, q \in Roots : q < p /\ kheaproots'[p].inuse # {} /\ kheaproots'[q].page = 0
       => kheaproots'[q].inuse = 0..RefsPerPage-1
  BY DEF RefInv
<1> QED BY <1>2, <1>3, <1>4, <1>5 DEF RefInv

\* A big block is a big block after a small one has come or gone.
LEMMA BlocksKept ==
  ASSUME NEW b, ~IsBig(b), live' = live \cup {b} \/ live' = live \ {b}, NEW x, NEW p
  PROVE  InBlock(x, p)' <=> InBlock(x, p)
BY DEF InBlock

\* A thread that leaves has nothing any more.
LEMMA LeaveExact ==
  ASSUME HeapTypes, NEW t \in Threads, Return(t), NEW p \in Pages, NEW x
  PROVE  /\ Brought(x, p)' <=> Brought(x, p) /\ x # t
         /\ Spare(x, p)' <=> Spare(x, p) /\ x # t
         /\ Freed(x, p)' <=> Freed(x, p) /\ x # t
<1>1. thr'[t] = OutOfHeap /\ \A u \in Threads : u # t => thr'[u] = thr[u]
  BY GotoExact, OutOfHeapExact DEF Return
<1>2. OutOfHeap.page = 0 /\ OutOfHeap.spare = 0 /\ OutOfHeap.pc # "freepage" BY DEF OutOfHeap
<1>3. p # 0 BY DEF Pages
<1> QED BY <1>1, <1>2, <1>3 DEF Brought, Spare, Freed

\* NewPage: the thread's page joins the heap and gives its first block.
LEMMA NewPageStep ==
  ASSUME HeapTypes, BlockInv, ThreadInv, OwnerInv, NEW t \in Threads, NEW r \in Refs \ Listed,
         thr[t].pc \in {"ref", "install", "spare"}, NewPage(t, r)
  PROVE  /\ ref' \in [Refs -> Ref] /\ sizebases' \in [Types -> Seq(Refs)] /\ allbase' \in Seq(Refs)
         /\ live' \in SUBSET Live /\ thr' \in [Threads -> Thr]
         /\ BlockInv' /\ Listed' = Listed \cup {r}
         /\ Return(t) /\ thr'[t] = OutOfHeap /\ \A u \in Threads : u # t => thr'[u] = thr[u]
         /\ thr[t].page \in Pages
         /\ \A x, p : /\ InHeap(x, p)' <=> InHeap(x, p) \/ (x = r /\ p = thr[t].page)
                      /\ InBlock(x, p)' <=> InBlock(x, p)
<1> DEFINE type == blocktype(thr[t].sz)
           sz == thr[t].sz
           p == thr[t].page
<1>1. Place(thr[t], kheaproots) BY DEF ThreadInv
<1>2. p \in Pages /\ thr[t].pc # "freepage" BY <1>1 DEF Place
<1>3. sz \in Requests /\ sz < LargestSubpage BY <1>1 DEF Place
<1>4. sz \in Nat /\ sz <= LargestSubpage BY ONLY <1>3, RequestsExact, HeapAssumption
<1>5. type \in Types /\ sz <= BlockSizes[type] BY <1>4, BlocktypeExact
<1>6. (\A q \in Listed : ref[q].page # p) /\ (\A b \in live : PageOf(b.addr) # p)
  <2>1. Owned("page", t, p) BY <1>2 DEF Owned, Brought
  <2> QED BY <1>2, <2>1, Foreign
<1>7. PICK refs : refs = [ref EXCEPT ![r] = [page |-> p, type |-> type, free |-> FreshFree(type)]] OBVIOUS
<1>8. PICK b : b = [addr |-> Addr(refs[r].page, Head(refs[r].free)), size |-> sz] OBVIOUS
<1>9. doalloc(t, sz, refs, r) BY <1>7 DEF NewPage, FreshFree
<1>10. /\ ref' = [refs EXCEPT ![r].free = Tail(@)] /\ live' = live \cup {b} /\ Return(t)
  BY <1>8, <1>9 DEF doalloc
<1>11. sizebases' = [sizebases EXCEPT ![type] = <<r>> \o @] /\ allbase' = <<r>> \o allbase BY DEF NewPage
<1> HIDE DEF type, sz, p
<1>0. Listed \in SUBSET Refs BY ListedRefs
<1>12. ref \in [Refs -> Ref] /\ Listed \in SUBSET Refs /\ live \in SUBSET Live /\ Blocks(ref, Listed, live)
       /\ Lists(ref, sizebases, allbase) /\ sizebases \in [Types -> Seq(Refs)] /\ allbase \in Seq(Refs)
       /\ \A q \in Listed : Len(ref[q].free) < NumBlocks(ref[q].type)
  BY <1>0 DEF HeapTypes, BlockInv
<1>13. /\ RefMap(refs) /\ Blocks(refs, Listed \cup {r}, live)
       /\ refs[r].page = p /\ refs[r].type = type /\ refs[r].free # <<>>
       /\ Apart(ref, r, refs)
  <2>1. Fresh(ref, r, p, type, refs) BY <1>7 DEF Fresh
  <2>2. r \in Refs \ Listed OBVIOUS
  <2>3. RefMap(ref) /\ Listed \in SUBSET Refs /\ live \in SUBSET Live /\ Blocks(ref, Listed, live) BY <1>12 DEF RefMap
  <2>4. p \in Pages /\ type \in Types BY <1>2, <1>5
  <2>5. RefMap(refs) /\ Blocks(refs, Listed \cup {r}, live) /\ Apart(ref, r, refs)
    BY ONLY <1>6, <2>1, <2>2, <2>3, <2>4, AddPage
  <2>6. refs[r].page = p /\ refs[r].type = type /\ refs[r].free = FreshFree(type) BY <1>7, <1>12
  <2> QED BY <1>5, <2>5, <2>6, FreshExact
<1>14. /\ RefMap(ref') /\ b \in Live
       /\ Blocks(ref', Listed \cup {r}, live')
       /\ Len(ref'[r].free) < NumBlocks(type)
       /\ Apart(refs, r, ref') /\ SamePlaces(refs, ref')
  <2>1. Listed \cup {r} \in SUBSET Refs /\ r \in Listed \cup {r} BY <1>12
  <2>2. sz <= BlockSizes[refs[r].type] BY <1>5, <1>13
  <2>3. Takes(refs, r, sz, ref', b) /\ live' = live \cup {b} BY <1>8, <1>10 DEF Takes
  <2>4. live \in SUBSET Live BY <1>12
  <2>5. RefMap(refs) /\ Blocks(refs, Listed \cup {r}, live) /\ refs[r].free # <<>> /\ refs[r].type = type
    BY <1>13
  <2> QED BY ONLY <1>3, <2>1, <2>2, <2>3, <2>4, <2>5, TakeBlock
<1>23. /\ \A q \in Refs : q # r => refs[q] = ref[q]
       /\ \A q \in Refs : /\ ref'[q].page = refs[q].page /\ ref'[q].type = refs[q].type
                          /\ q # r => ref'[q] = refs[q]
  BY <1>13, <1>14 DEF Apart, SamePlaces
<1>15. /\ sizebases' \in [Types -> Seq(Refs)] /\ allbase' \in Seq(Refs)
       /\ Listed' = Listed \cup {r} /\ Lists(ref', sizebases', allbase')
  <2>1. r \notin Range(allbase) /\ \A q \in Range(allbase) : q \in Refs /\ q # r BY <1>12 DEF Listed
  <2>2. ref'[r].type = type BY <1>13, <1>23
  <2>3. \A q \in Range(allbase) : ref'[q].type = ref[q].type BY <1>23, <2>1
  <2>4. Enters(sizebases, allbase, r, type, sizebases', allbase') BY <1>11 DEF Enters
  <2> QED BY <1>5, <1>12, <2>1, <2>2, <2>3, <2>4, EnterLists DEF Listed
<1>16. \A q \in Listed' : Len(ref'[q].free) < NumBlocks(ref'[q].type)
  BY <1>12, <1>13, <1>14, <1>15, <1>23
<1>17. BlockInv' BY <1>14, <1>15, <1>16 DEF BlockInv
<1>18. ~IsBig(b)
  <2>1. sz \in Nat /\ LargestSubpage \in Nat /\ b.size = sz BY <1>4, <1>8, LargestExact
  <2> QED BY <1>3, <2>1 DEF IsBig
<1>19. \A x, m : InBlock(x, m)' <=> InBlock(x, m) BY <1>10, <1>18, BlocksKept
<1>20. \A x, m : InHeap(x, m)' <=> InHeap(x, m) \/ (x = r /\ m = p)
  <2>1. \A x \in Listed : ref'[x].page = ref[x].page BY <1>12, <1>23
  <2>2. ref'[r].page = p BY <1>13, <1>23
  <2> QED BY <1>15, <2>1, <2>2 DEF InHeap
<1>21. thr' \in [Threads -> Thr] /\ thr'[t] = OutOfHeap /\ \A u \in Threads : u # t => thr'[u] = thr[u]
  BY <1>10, GotoExact, OutOfHeapExact DEF Return
<1>22. live' \in SUBSET Live BY <1>10, <1>12, <1>14
<1> QED BY <1>2, <1>10, <1>14, <1>15, <1>17, <1>19, <1>20, <1>21, <1>22 DEF p, RefMap

-----------------------------------------------------------------------------
(* The actions.                                                            *)

\* A thread goes to another place and takes along what it has.
LEMMA MovesOn ==
  ASSUME HeapTypes, NEW t \in Threads, NEW y \in Thr, Goto(t, y),
         thr[t].pc # "freepage", y.pc # "freepage", y.page = thr[t].page, y.spare = thr[t].spare,
         UNCHANGED <<pool, kheaproots>>,
         \A x, p : (InHeap(x, p)' <=> InHeap(x, p)) /\ (InBlock(x, p)' <=> InBlock(x, p)),
         OwnerInv
  PROVE  OwnerInv'
<1>1. thr'[t] = y /\ \A u \in Threads : u # t => thr'[u] = thr[u] BY GotoExact
<1>2. \A x, p : InRoot(x, p)' <=> InRoot(x, p) BY DEF InRoot
<1>3. \A x, p : Brought(x, p)' <=> Brought(x, p) BY <1>1 DEF Brought
<1>4. \A x, p : Spare(x, p)' <=> Spare(x, p) BY <1>1 DEF Spare
<1>5. \A x, p : Freed(x, p)' <=> Freed(x, p) BY <1>1 DEF Freed
<1>6. \A p \in Pages : \A k, x : Owned(k, x, p)' <=> Owned(k, x, p)
  BY <1>2, <1>3, <1>4, <1>5 DEF Owned
<1> QED BY <1>6, OwnersStay

\* doalloc on a page that has a free block.
LEMMA TakeStep ==
  ASSUME HeapTypes, BlockInv, NEW t \in Threads, NEW r \in Listed, ref[r].free # <<>>,
         NEW sz \in Requests, sz < LargestSubpage, sz <= BlockSizes[ref[r].type],
         doalloc(t, sz, ref, r), UNCHANGED <<sizebases, allbase>>
  PROVE  /\ ref' \in [Refs -> Ref] /\ live' \in SUBSET Live /\ BlockInv' /\ Listed' = Listed /\ Return(t)
         /\ \A x, p : (InHeap(x, p)' <=> InHeap(x, p)) /\ (InBlock(x, p)' <=> InBlock(x, p))
<1>1. PICK b : b = [addr |-> Addr(ref[r].page, Head(ref[r].free)), size |-> sz] OBVIOUS
<1>2. /\ ref' = [ref EXCEPT ![r].free = Tail(@)] /\ live' = live \cup {b} /\ Return(t) BY <1>1 DEF doalloc
<1>3. Takes(ref, r, sz, ref', b) BY <1>1, <1>2 DEF Takes
<1>4. Listed \in SUBSET Refs BY ListedRefs
<1>5. RefMap(ref) /\ Blocks(ref, Listed, live) /\ live \in SUBSET Live BY DEF HeapTypes, BlockInv, RefMap
<1>6. /\ RefMap(ref') /\ b \in Live /\ Blocks(ref', Listed, live')
      /\ Len(ref'[r].free) < NumBlocks(ref[r].type) /\ Apart(ref, r, ref') /\ SamePlaces(ref, ref')
  <2>1. live' = live \cup {b} BY <1>2
  <2>2. /\ RefMap(ref') /\ b \in Live /\ Blocks(ref', Listed, live \cup {b})
        /\ Len(ref'[r].free) < NumBlocks(ref[r].type) /\ Apart(ref, r, ref') /\ SamePlaces(ref, ref')
    BY ONLY <1>3, <1>4, <1>5, ref[r].free # <<>>, sz \in Requests, sz < LargestSubpage,
            sz <= BlockSizes[ref[r].type], r \in Listed, TakeBlock
  <2> QED BY <2>1, <2>2
<1>7. /\ \A q \in Refs : q # r => ref'[q] = ref[q]
      /\ \A q \in Refs : ref'[q].page = ref[q].page /\ ref'[q].type = ref[q].type
  BY <1>6 DEF Apart, SamePlaces
<1>8. Listed' = Listed BY DEF Listed
<1>9. Lists(ref', sizebases', allbase')
  <2>1. Lists(ref, sizebases, allbase) BY DEF BlockInv
  <2>2. \A q \in Range(allbase) : ref'[q].type = ref[q].type BY <1>4, <1>7 DEF Listed
  <2> QED BY <2>1, <2>2 DEF Lists
<1>10. \A q \in Listed' : Len(ref'[q].free) < NumBlocks(ref'[q].type)
  <2> SUFFICES ASSUME NEW q \in Listed PROVE Len(ref'[q].free) < NumBlocks(ref'[q].type) BY <1>8
  <2>1. Len(ref[q].free) < NumBlocks(ref[q].type) BY DEF BlockInv
  <2> QED BY <1>4, <1>6, <1>7, <2>1
<1>11. BlockInv' BY <1>6, <1>8, <1>9, <1>10 DEF BlockInv
<1>12. ~IsBig(b)
  <2>1. b.size = sz /\ sz \in Nat /\ LargestSubpage \in Nat BY <1>1, RequestsExact, LargestExact
  <2> QED BY <2>1 DEF IsBig
<1>13. \A x, p : InBlock(x, p)' <=> InBlock(x, p) BY <1>2, <1>12, BlocksKept
<1>14. \A x, p : InHeap(x, p)' <=> InHeap(x, p) BY <1>4, <1>7, <1>8 DEF InHeap
<1> QED BY <1>2, <1>5, <1>6, <1>8, <1>11, <1>13, <1>14 DEF RefMap

\* kmalloc keeps the invariant.
LEMMA KmallocStep ==
  ASSUME HeapIInv, NEW t \in Threads, NEW sz \in Requests, kmalloc(t, sz)
  PROVE  HeapIInv'
<1>0. HeapTypes /\ BlockInv /\ RefInv /\ ThreadInv /\ OwnerInv BY DEF HeapIInv
<1>1. /\ thr[t].pc = "idle" /\ stopped = "no" /\ sz \in Nat
      /\ UNCHANGED <<pool, kheaproots, sizebases, allbase, fails, stopped>>
  BY RequestsExact DEF kmalloc, At
<1>2. NeverRefused' BY <1>1 DEF NeverRefused
<1>3. Place(thr[t], kheaproots) BY <1>0 DEF ThreadInv
<1>4. thr[t].page = 0 /\ thr[t].spare = 0 BY <1>1, <1>3 DEF Place
<1> DEFINE type == blocktype(sz)
           i == SelectInSeq(sizebases[type], LAMBDA r : ref[r].free # <<>>)
           Big == [OutOfHeap EXCEPT !.pc = "big", !.sz = sz]
           Page == [OutOfHeap EXCEPT !.pc = "page", !.sz = sz]
<1>5. \/ sz >= LargestSubpage /\ Goto(t, Big) /\ UNCHANGED <<ref, live>>
      \/ sz < LargestSubpage /\ i # 0 /\ doalloc(t, sz, ref, sizebases[type][i])
      \/ sz < LargestSubpage /\ i = 0 /\ Goto(t, Page) /\ UNCHANGED <<ref, live>>
  BY DEF kmalloc
<1>6. /\ Big \in Thr /\ Big.pc = "big" /\ Big.page = 0 /\ Big.spare = 0 /\ Big.sz = sz
      /\ Page \in Thr /\ Page.pc = "page" /\ Page.page = 0 /\ Page.spare = 0 /\ Page.sz = sz
  BY <1>1 DEF OutOfHeap, Thr, PCs
<1> HIDE DEF Big, Page
<1>7. ASSUME NEW y \in Thr, Goto(t, y), y \in {Big, Page}, y = Big => sz >= LargestSubpage,
             y = Page => sz < LargestSubpage, UNCHANGED <<ref, live>>
      PROVE  HeapIInv'
  <2>1. y.pc \in {"big", "page"} /\ y.page = 0 /\ y.spare = 0 /\ y.sz = sz
        /\ (y.pc = "big" => y = Big) /\ (y.pc = "page" => y = Page)
    BY <1>6, <1>7
  <2>2. thr' \in [Threads -> Thr] /\ thr'[t] = y /\ \A u \in Threads : u # t => thr'[u] = thr[u]
    BY <1>0, <1>7, GotoExact
  <2>3. HeapTypes' BY <1>0, <1>1, <1>7, <2>2 DEF HeapTypes
  <2>4. BlockInv' BY <1>0, <1>1, <1>7 DEF BlockInv, Listed
  <2>5. RefInv'
    <3>1. Listed' = Listed /\ thr'[t].pc \notin {"refpage", "install", "spare"} BY <1>1, <2>1, <2>2 DEF Listed
    <3> QED BY <1>0, <1>1, <2>2, <3>1, RefsKept
  <2>6. Place(y, kheaproots')
    <3>1. y.pc = "big" => y.sz \in Requests /\ y.sz >= LargestSubpage BY <1>7, <2>1
    <3>2. y.pc = "page" => y.sz \in Requests /\ y.sz < LargestSubpage BY <1>7, <2>1
    <3> QED BY <2>1, <3>1, <3>2 DEF Place
  <2>7. ThreadInv' BY <1>0, <1>1, <2>2, <2>6, PlacesKept
  <2>8. \A x, p : (InHeap(x, p)' <=> InHeap(x, p)) /\ (InBlock(x, p)' <=> InBlock(x, p))
    BY <1>1, <1>7 DEF InHeap, InBlock, Listed
  <2>9. OwnerInv'
    <3>1. thr[t].pc # "freepage" /\ y.pc # "freepage" /\ y.page = thr[t].page /\ y.spare = thr[t].spare
      BY <1>1, <1>4, <2>1
    <3> QED BY <1>0, <1>1, <1>7, <2>8, <3>1, MovesOn
  <2> QED BY <1>2, <2>3, <2>4, <2>5, <2>7, <2>9 DEF HeapIInv
<1>8. CASE sz < LargestSubpage /\ i # 0 /\ doalloc(t, sz, ref, sizebases[type][i])
  <2>1. type \in Types /\ sz <= BlockSizes[type] BY <1>1, <1>8, BlocktypeExact, RequestsExact
  <2>2. PICK s \in Seq(Refs) : s = sizebases[type] BY <1>0, <2>1 DEF HeapTypes
  <2> DEFINE I == {j \in 1..Len(s) : ref[s[j]].free # <<>>}
  <2>3. i = IF I # {} THEN Min(I) ELSE 0 BY <2>2 DEF SelectInSeq
  <2>4. i \in I
    <3>1. I \in SUBSET Nat /\ I # {} BY <1>8, <2>3
    <3> QED BY <2>3, <3>1, MinExact
  <2> HIDE DEF i, type
  <2>5. PICK r : r = s[i] OBVIOUS
  <2>6. r \in Range(s) /\ ref[r].free # <<>> BY <2>2, <2>4, <2>5 DEF Range
  <2>7. r \in Listed /\ ref[r].type = type
    <3>1. Range(s) = {q \in Listed : ref[q].type = type} BY <1>0, <2>1, <2>2 DEF BlockInv, Lists, Listed
    <3> QED BY <2>6, <3>1
  <2>8. doalloc(t, sz, ref, r) BY <1>8, <2>2, <2>5
  <2>9. /\ ref' \in [Refs -> Ref] /\ live' \in SUBSET Live /\ BlockInv' /\ Listed' = Listed /\ Return(t)
        /\ \A x, p : (InHeap(x, p)' <=> InHeap(x, p)) /\ (InBlock(x, p)' <=> InBlock(x, p))
    BY <1>0, <1>1, <1>8, <2>1, <2>6, <2>7, <2>8, TakeStep
  <2>10. Goto(t, OutOfHeap) /\ OutOfHeap \in Thr /\ OutOfHeap.pc = "idle" /\ OutOfHeap.page = 0 /\ OutOfHeap.spare = 0
         /\ Place(OutOfHeap, kheaproots')
    BY <2>9, OutOfHeapExact DEF Return
  <2>11. thr' \in [Threads -> Thr] /\ thr'[t] = OutOfHeap /\ \A u \in Threads : u # t => thr'[u] = thr[u]
    BY <1>0, <2>10, GotoExact
  <2>12. HeapTypes' BY <1>0, <1>1, <2>9, <2>11 DEF HeapTypes
  <2>13. RefInv'
    <3>1. thr'[t].pc \notin {"refpage", "install", "spare"} BY <2>10, <2>11
    <3> QED BY <1>0, <1>1, <2>9, <2>11, <3>1, RefsKept
  <2>14. ThreadInv' BY <1>0, <1>1, <2>10, <2>11, PlacesKept
  <2>15. OwnerInv' BY <1>0, <1>1, <1>4, <2>9, <2>10, MovesOn
  <2> QED BY <1>2, <2>9, <2>12, <2>13, <2>14, <2>15 DEF HeapIInv
<1> HIDE DEF i
<1>9. Big # Page BY <1>6
<1> QED BY <1>5, <1>6, <1>7, <1>8, <1>9

\* A run of one page.
LEMMA RunExact == ASSUME NEW p \in Nat PROVE Run(p, 1) = {p}
BY DEF Run

\* alloc_kpages takes its run from the pool, or nothing.
LEMMA AllocExact ==
  ASSUME HeapTypes, NEW n, NEW va \in Pages \cup {0}, alloc_kpages(n, va)
  PROVE  /\ pool' \in SUBSET Pages /\ fails' \in 0..MaxFail
         /\ va = 0 => pool' = pool
         /\ va # 0 => va \in Pages /\ Run(va, n) \subseteq pool /\ pool' = pool \ Run(va, n)
<1>1. pool \in SUBSET Pages /\ fails \in 0..MaxFail BY DEF HeapTypes
<1>2. 0 \notin Pages BY DEF Pages
<1>3. CASE va \in Pages /\ Run(va, n) \subseteq pool /\ pool' = pool \ Run(va, n) /\ UNCHANGED fails
  BY <1>1, <1>2, <1>3
<1>4. CASE va = 0 /\ pool' = pool /\ LET run == \E p \in Pages : Run(p, n) \subseteq pool
                      IN (run => fails < MaxFail) /\ fails' = IF run THEN fails + 1 ELSE fails
  BY <1>1, <1>4, HeapAssumption
<1> QED BY <1>3, <1>4 DEF alloc_kpages

\* The lists and the blocks stay as they are.
LEMMA BlocksStay ==
  ASSUME BlockInv, UNCHANGED <<lists, kheaproots, live>>
  PROVE  /\ BlockInv' /\ Listed' = Listed
         /\ \A x, p : (InHeap(x, p)' <=> InHeap(x, p)) /\ (InBlock(x, p)' <=> InBlock(x, p))
         /\ \A x, p : InRoot(x, p)' <=> InRoot(x, p)
<1>1. UNCHANGED <<ref, sizebases, allbase, kheaproots, live>> BY DEF lists
<1>2. Listed' = Listed BY <1>1 DEF Listed
<1>3. BlockInv' BY <1>1, <1>2 DEF BlockInv
<1> QED BY <1>1, <1>2, <1>3 DEF InHeap, InBlock, InRoot

\* KmallocBig: the run goes from the pool to the block.
LEMMA KmallocBigStep ==
  ASSUME HeapIInv, NEW t \in Threads, KmallocBig(t)
  PROVE  HeapIInv'
<1>0. HeapTypes /\ BlockInv /\ RefInv /\ ThreadInv /\ OwnerInv BY DEF HeapIInv
<1>1. thr[t].pc = "big" /\ stopped = "no" /\ Return(t) /\ UNCHANGED <<lists, kheaproots, stopped>>
  BY DEF KmallocBig, At
<1>2. NeverRefused' BY <1>1 DEF NeverRefused
<1>3. Place(thr[t], kheaproots) BY <1>0 DEF ThreadInv
<1>4. thr[t].page = 0 /\ thr[t].spare = 0 /\ thr[t].sz \in Requests /\ thr[t].sz >= LargestSubpage
  BY <1>1, <1>3 DEF Place
<1>5. PICK sz \in Requests, n \in {PagesOf(thr[t].sz)} : sz = thr[t].sz /\ n = PagesOf(sz) /\ sz >= LargestSubpage BY <1>4
<1>6. PICK va \in Pages \cup {0} :
        /\ alloc_kpages(n, va)
        /\ live' = IF va = 0 THEN live ELSE live \cup {[addr |-> Addr(va, 0), size |-> sz]}
  BY <1>5 DEF KmallocBig
<1>7. Goto(t, OutOfHeap) /\ OutOfHeap \in Thr /\ OutOfHeap.pc = "idle" /\ OutOfHeap.page = 0 /\ OutOfHeap.spare = 0
      /\ Place(OutOfHeap, kheaproots')
  BY <1>1, OutOfHeapExact DEF Return
<1>8. thr' \in [Threads -> Thr] /\ thr'[t] = OutOfHeap /\ \A u \in Threads : u # t => thr'[u] = thr[u]
  BY <1>0, <1>7, GotoExact
<1>9. /\ pool' \in SUBSET Pages /\ fails' \in 0..MaxFail
      /\ va = 0 => pool' = pool
      /\ va # 0 => va \in Pages /\ Run(va, n) \subseteq pool /\ pool' = pool \ Run(va, n)
  BY <1>0, <1>6, AllocExact
<1>10. UNCHANGED <<ref, sizebases, allbase, kheaproots>> /\ Listed' = Listed BY <1>1 DEF lists, Listed
<1>11. RefInv'
  <2>1. thr'[t].pc \notin {"refpage", "install", "spare"} BY <1>7, <1>8
  <2> QED BY <1>0, <1>8, <1>10, <2>1, RefsKept
<1>12. ThreadInv' BY <1>0, <1>7, <1>8, <1>10, PlacesKept
<1>13. \A x, p : (InHeap(x, p)' <=> InHeap(x, p)) /\ (InRoot(x, p)' <=> InRoot(x, p))
  BY <1>10 DEF InHeap, InRoot
<1>14. CASE va = 0
  <2>1. UNCHANGED <<live, pool>> BY <1>6, <1>9, <1>14
  <2>2. BlockInv' BY <1>0, <1>10, <2>1 DEF BlockInv
  <2>3. HeapTypes' BY <1>0, <1>8, <1>9, <1>10, <2>1 DEF HeapTypes
  <2>4. \A x, p : InBlock(x, p)' <=> InBlock(x, p) BY <2>1 DEF InBlock
  <2>5. OwnerInv'
    <3>1. thr[t].pc # "freepage" /\ OutOfHeap.pc # "freepage" /\ OutOfHeap.page = thr[t].page
          /\ OutOfHeap.spare = thr[t].spare
      BY <1>1, <1>4, <1>7
    <3> QED BY <1>0, <1>7, <1>10, <1>13, <2>1, <2>4, <3>1, MovesOn
  <2> QED BY <1>2, <1>11, <1>12, <2>2, <2>3, <2>5 DEF HeapIInv
<1>15. CASE va # 0
  <2>1. va \in Pages /\ Run(va, n) \subseteq pool /\ pool' = pool \ Run(va, n) BY <1>9, <1>15
  <2>2. PICK b : b = [addr |-> Addr(va, 0), size |-> sz] OBVIOUS
  <2>3. live' = live \cup {b} BY <1>6, <1>15, <2>2
  <2>4. n \in Nat /\ n > 0 /\ va \in Run(va, n)
    <3>1. sz \in Nat /\ sz > 0 BY <1>5, RequestsExact
    <3>2. n \in Nat /\ n > 0 BY <1>5, <3>1, PagesOfExact
    <3> QED BY <2>1, <3>2 DEF Run, Pages
  <2>5. (\A q \in Listed : ref[q].page # va) /\ (\A a \in live : PageOf(a.addr) # va)
    <3>1. Owned("pool", 0, va) BY <2>1, <2>4 DEF Owned
    <3> QED BY <1>0, <2>1, <3>1, Foreign
  <2>6. b \in Live /\ PageOf(b.addr) = va /\ IsBig(b) /\ b.size = sz /\ Blocks(ref, Listed, live \cup {b})
    <3>1. live \in SUBSET Live /\ Blocks(ref, Listed, live) BY <1>0 DEF HeapTypes, BlockInv
    <3>2. Run(va, PagesOf(sz)) \subseteq Pages BY <1>0, <1>5, <2>1 DEF HeapTypes
    <3> QED BY ONLY <1>5, <2>1, <2>2, <2>5, <3>1, <3>2, AddRun
  <2>7. BlockInv' BY <1>0, <1>10, <2>3, <2>6 DEF BlockInv
  <2>8. HeapTypes' BY <1>0, <1>8, <1>9, <1>10, <2>3, <2>6 DEF HeapTypes
  <2>9. \A x, p : InBlock(x, p)' <=> InBlock(x, p) \/ (x = b /\ p \in Run(va, n))
    BY <1>5, <2>3, <2>6 DEF InBlock
  <2>10. \A p \in Pages : p \in Run(va, n) => Owned("pool", 0, p) BY <2>1 DEF Owned
  <2>11. \A p \in Pages : \A x : /\ Brought(x, p)' <=> Brought(x, p)
                                 /\ Spare(x, p)' <=> Spare(x, p)
                                 /\ Freed(x, p)' <=> Freed(x, p)
    <3>1. \A p \in Pages : p # 0 BY DEF Pages
    <3> QED BY <1>1, <1>4, <1>7, <1>8, <3>1 DEF Brought, Spare, Freed
  <2>12. \A p \in Pages : p \in pool' <=> p \in pool /\ p \notin Run(va, n) BY <2>1
  <2>13. Moved(Run(va, n), "pool", 0, "block", b)
    <3>1. \A p \in Pages : \A k, x :
             Owned(k, x, p)' <=> \/ Owned(k, x, p) /\ ~(p \in Run(va, n) /\ k = "pool" /\ x = 0)
                                 \/ p \in Run(va, n) /\ k = "block" /\ x = b
      BY <1>13, <2>9, <2>11, <2>12 DEF Owned
    <3> QED BY <2>10, <3>1 DEF Moved
  <2>14. OwnerInv' BY <1>0, <2>13, OwnersMove
  <2> QED BY <1>2, <1>11, <1>12, <2>7, <2>8, <2>14 DEF HeapIInv
<1> QED BY <1>14, <1>15

\* A step of one thread that leaves the lists, the roots and the blocks alone.
LEMMA ListsStay ==
  ASSUME HeapIInv, NEW t \in Threads, NEW y \in Thr, Goto(t, y), UNCHANGED <<lists, kheaproots, live>>,
         pool' \in SUBSET Pages, fails' \in 0..MaxFail, stopped' = "no", Place(y, kheaproots),
         y.pc \notin {"refpage", "install", "spare"} \/ (Has(t) /\ y.ref = thr[t].ref),
         OwnerInv'
  PROVE  HeapIInv'
<1>0. HeapTypes /\ BlockInv /\ RefInv /\ ThreadInv BY DEF HeapIInv
<1>1. UNCHANGED <<ref, sizebases, allbase, kheaproots, live>> BY DEF lists
<1>2. thr' \in [Threads -> Thr] /\ thr'[t] = y /\ \A u \in Threads : u # t => thr'[u] = thr[u]
  BY <1>0, GotoExact
<1>3. BlockInv' /\ Listed' = Listed BY <1>0, BlocksStay
<1>4. HeapTypes' BY <1>0, <1>1, <1>2 DEF HeapTypes
<1>5. RefInv'
  <2>1. thr'[t].pc \notin {"refpage", "install", "spare"} \/ (Has(t) /\ thr'[t].ref = thr[t].ref) BY <1>2
  <2> QED BY <1>0, <1>1, <1>2, <1>3, <2>1, RefsKept
<1>6. ThreadInv' BY <1>0, <1>1, <1>2, PlacesKept
<1>7. NeverRefused' BY DEF NeverRefused
<1> QED BY <1>3, <1>4, <1>5, <1>6, <1>7 DEF HeapIInv

\* Thread t alone changes what it has of the pages of M.
LEMMA ThreadMoves ==
  ASSUME HeapTypes, BlockInv, NEW t \in Threads, NEW y \in Thr, Goto(t, y), UNCHANGED <<lists, kheaproots, live>>
  PROVE  /\ \A x, p : /\ InHeap(x, p)' <=> InHeap(x, p)
                      /\ InBlock(x, p)' <=> InBlock(x, p)
                      /\ InRoot(x, p)' <=> InRoot(x, p)
                      /\ x # t => /\ Brought(x, p)' <=> Brought(x, p)
                                  /\ Spare(x, p)' <=> Spare(x, p)
                                  /\ Freed(x, p)' <=> Freed(x, p)
         /\ \A p : /\ Brought(t, p)' <=> y.pc # "freepage" /\ y.page = p
                   /\ Spare(t, p)' <=> y.spare = p
                   /\ Freed(t, p)' <=> y.pc = "freepage" /\ p \in Run(y.page, PagesOf(y.sz))
<1>1. thr'[t] = y /\ \A u \in Threads : u # t => thr'[u] = thr[u] BY GotoExact
<1>2. \A x, p : /\ InHeap(x, p)' <=> InHeap(x, p)
                /\ InBlock(x, p)' <=> InBlock(x, p)
                /\ InRoot(x, p)' <=> InRoot(x, p)
  BY BlocksStay
<1> QED BY <1>1, <1>2 DEF Brought, Spare, Freed

\* SubpageGetPage: the page goes from the pool to the thread.
LEMMA SubpageGetPageStep ==
  ASSUME HeapIInv, NEW t \in Threads, SubpageGetPage(t)
  PROVE  HeapIInv'
<1>0. HeapTypes /\ BlockInv /\ RefInv /\ ThreadInv /\ OwnerInv BY DEF HeapIInv
<1>1. thr[t].pc = "page" /\ stopped' = "no" /\ UNCHANGED <<lists, kheaproots, live>> /\ UNCHANGED kheaproots
  BY DEF SubpageGetPage, At
<1>2. Place(thr[t], kheaproots) BY <1>0 DEF ThreadInv
<1>3. thr[t].page = 0 /\ thr[t].spare = 0 /\ thr[t].sz \in Requests /\ thr[t].sz < LargestSubpage
  BY <1>1, <1>2 DEF Place
<1>4. PICK va \in Pages \cup {0} :
        /\ alloc_kpages(1, va)
        /\ IF va = 0 THEN Return(t) ELSE Goto(t, [thr[t] EXCEPT !.pc = "ref", !.page = va])
  BY DEF SubpageGetPage
<1>5. /\ pool' \in SUBSET Pages /\ fails' \in 0..MaxFail
      /\ va = 0 => pool' = pool
      /\ va # 0 => va \in Pages /\ Run(va, 1) \subseteq pool /\ pool' = pool \ Run(va, 1)
  BY <1>0, <1>4, AllocExact
<1>6. CASE va = 0
  <2>1. Goto(t, OutOfHeap) /\ OutOfHeap \in Thr /\ OutOfHeap.pc = "idle" /\ OutOfHeap.page = 0 /\ OutOfHeap.spare = 0
        /\ Place(OutOfHeap, kheaproots)
    BY <1>4, <1>6, OutOfHeapExact DEF Return
  <2>2. OwnerInv'
    <3>1. thr[t].pc # "freepage" /\ OutOfHeap.pc # "freepage" /\ OutOfHeap.page = thr[t].page
          /\ OutOfHeap.spare = thr[t].spare /\ pool' = pool
      BY <1>1, <1>3, <1>5, <1>6, <2>1
    <3>2. \A x, p : (InHeap(x, p)' <=> InHeap(x, p)) /\ (InBlock(x, p)' <=> InBlock(x, p)) BY <1>0, <1>1, BlocksStay
    <3> QED BY <1>0, <1>1, <2>1, <3>1, <3>2, MovesOn
  <2>3. OutOfHeap.pc \notin {"refpage", "install", "spare"} BY <2>1
  <2> QED BY <1>1, <1>5, <2>1, <2>2, <2>3, ListsStay
<1>7. CASE va # 0
  <2>1. va \in Pages /\ va \in Nat /\ Run(va, 1) \subseteq pool /\ pool' = pool \ Run(va, 1) BY <1>5, <1>7 DEF Pages
  <2>2. Run(va, 1) = {va} BY <2>1, RunExact
  <2>3. PICK y : y = [thr[t] EXCEPT !.pc = "ref", !.page = va] OBVIOUS
  <2>4. /\ y \in Thr /\ y.pc = "ref" /\ y.page = va /\ y.spare = thr[t].spare /\ y.sz = thr[t].sz
    <3>1. thr[t] \in Thr BY <1>0 DEF HeapTypes
    <3> QED BY <2>1, <2>3, <3>1 DEF Thr, PCs
  <2>5. Goto(t, y) BY <1>4, <1>7, <2>3
  <2>6. Place(y, kheaproots) BY <1>3, <2>1, <2>4 DEF Place
  <2>7. Moved({va}, "pool", 0, "page", t)
    <3>1. \A p \in Pages : p \in {va} => Owned("pool", 0, p) BY <2>1, <2>2 DEF Owned
    <3>2. \A p \in Pages : p # 0 /\ (p \in pool' <=> p \in pool /\ p # va) BY <2>1, <2>2 DEF Pages
    <3>3. \A x, p : /\ InHeap(x, p)' <=> InHeap(x, p)
                    /\ InBlock(x, p)' <=> InBlock(x, p)
                    /\ InRoot(x, p)' <=> InRoot(x, p)
                    /\ x # t => /\ Brought(x, p)' <=> Brought(x, p)
                                /\ Spare(x, p)' <=> Spare(x, p)
                                /\ Freed(x, p)' <=> Freed(x, p)
      BY <1>0, <1>1, <2>4, <2>5, ThreadMoves
    <3>4. \A p \in Pages : /\ Brought(t, p)' <=> p = va
                           /\ ~Spare(t, p)' /\ ~Freed(t, p)'
      BY <1>0, <1>1, <1>3, <2>4, <2>5, <3>2, ThreadMoves
    <3>5. \A p \in Pages : ~Brought(t, p) /\ ~Spare(t, p) /\ ~Freed(t, p) BY <1>1, <1>3, <3>2 DEF Brought, Spare, Freed
    <3>6. \A p \in Pages : \A k, x :
             Owned(k, x, p)' <=> \/ Owned(k, x, p) /\ ~(p \in {va} /\ k = "pool" /\ x = 0)
                                 \/ p \in {va} /\ k = "page" /\ x = t
      BY <3>2, <3>3, <3>4, <3>5 DEF Owned
    <3> QED BY <3>1, <3>6 DEF Moved
  <2>8. OwnerInv' BY <1>0, <2>7, OwnersMove
  <2>9. y.pc \notin {"refpage", "install", "spare"} BY <2>4
  <2> QED BY <1>1, <1>5, <2>4, <2>5, <2>6, <2>8, <2>9, ListsStay
<1> QED BY <1>6, <1>7

\* GetRefPage: so does the page for the references.
LEMMA GetRefPageStep ==
  ASSUME HeapIInv, NEW t \in Threads, GetRefPage(t)
  PROVE  HeapIInv'
<1>0. HeapTypes /\ BlockInv /\ RefInv /\ ThreadInv /\ OwnerInv BY DEF HeapIInv
<1>1. thr[t].pc = "refpage" /\ stopped' = "no" /\ UNCHANGED <<lists, kheaproots, live>> /\ UNCHANGED kheaproots
  BY DEF GetRefPage, At
<1>2. Place(thr[t], kheaproots) BY <1>0 DEF ThreadInv
<1>3. thr[t].page \in Pages /\ thr[t].spare = 0 /\ thr[t].sz \in Requests /\ thr[t].sz < LargestSubpage
  BY <1>1, <1>2 DEF Place
<1>4. PICK va \in Pages \cup {0} : alloc_kpages(1, va) /\ Goto(t, [thr[t] EXCEPT !.pc = "install", !.spare = va])
  BY DEF GetRefPage
<1>5. /\ pool' \in SUBSET Pages /\ fails' \in 0..MaxFail
      /\ va = 0 => pool' = pool
      /\ va # 0 => va \in Pages /\ Run(va, 1) \subseteq pool /\ pool' = pool \ Run(va, 1)
  BY <1>0, <1>4, AllocExact
<1>6. PICK y : y = [thr[t] EXCEPT !.pc = "install", !.spare = va] OBVIOUS
<1>7. /\ y \in Thr /\ y.pc = "install" /\ y.page = thr[t].page /\ y.spare = va /\ y.sz = thr[t].sz /\ y.ref = thr[t].ref
  <2>1. thr[t] \in Thr BY <1>0 DEF HeapTypes
  <2> QED BY <1>6, <2>1 DEF Thr, PCs
<1>8. Goto(t, y) BY <1>4, <1>6
<1>9. Place(y, kheaproots) BY <1>3, <1>7 DEF Place
<1>10. Has(t) /\ y.ref = thr[t].ref BY <1>1, <1>7 DEF Has
<1>11. CASE va = 0
  <2>1. OwnerInv'
    <3>1. thr[t].pc # "freepage" /\ y.pc # "freepage" /\ y.page = thr[t].page /\ y.spare = thr[t].spare /\ pool' = pool
      BY <1>1, <1>3, <1>5, <1>7, <1>11
    <3>2. \A x, p : (InHeap(x, p)' <=> InHeap(x, p)) /\ (InBlock(x, p)' <=> InBlock(x, p)) BY <1>0, <1>1, BlocksStay
    <3> QED BY <1>0, <1>1, <1>7, <1>8, <3>1, <3>2, MovesOn
  <2> QED BY <1>1, <1>5, <1>7, <1>8, <1>9, <1>10, <2>1, ListsStay
<1>12. CASE va # 0
  <2>1. va \in Pages /\ va \in Nat /\ Run(va, 1) \subseteq pool /\ pool' = pool \ Run(va, 1) BY <1>5, <1>12 DEF Pages
  <2>2. Run(va, 1) = {va} BY <2>1, RunExact
  <2>3. Moved({va}, "pool", 0, "spare", t)
    <3>1. \A p \in Pages : p \in {va} => Owned("pool", 0, p) BY <2>1, <2>2 DEF Owned
    <3>2. \A p \in Pages : p # 0 /\ (p \in pool' <=> p \in pool /\ p # va) BY <2>1, <2>2 DEF Pages
    <3>3. \A x, p : /\ InHeap(x, p)' <=> InHeap(x, p)
                    /\ InBlock(x, p)' <=> InBlock(x, p)
                    /\ InRoot(x, p)' <=> InRoot(x, p)
                    /\ x # t => /\ Brought(x, p)' <=> Brought(x, p)
                                /\ Spare(x, p)' <=> Spare(x, p)
                                /\ Freed(x, p)' <=> Freed(x, p)
      BY <1>0, <1>1, <1>7, <1>8, ThreadMoves
    <3>4. \A p \in Pages : /\ Brought(t, p)' <=> thr[t].page = p
                           /\ Spare(t, p)' <=> p = va
                           /\ ~Freed(t, p)'
      BY <1>0, <1>1, <1>7, <1>8, ThreadMoves
    <3>5. \A p \in Pages : (Brought(t, p) <=> thr[t].page = p) /\ ~Spare(t, p) /\ ~Freed(t, p)
      BY <1>1, <1>3, <3>2 DEF Brought, Spare, Freed
    <3>6. \A p \in Pages : \A k, x :
             Owned(k, x, p)' <=> \/ Owned(k, x, p) /\ ~(p \in {va} /\ k = "pool" /\ x = 0)
                                 \/ p \in {va} /\ k = "spare" /\ x = t
      BY <3>2, <3>3, <3>4, <3>5 DEF Owned
    <3> QED BY <3>1, <3>6 DEF Moved
  <2>4. OwnerInv' BY <1>0, <2>3, OwnersMove
  <2> QED BY <1>1, <1>5, <1>7, <1>8, <1>9, <1>10, <2>4, ListsStay
<1> QED BY <1>11, <1>12

\* SubpageUndo: the page goes back.
LEMMA SubpageUndoStep ==
  ASSUME HeapIInv, NEW t \in Threads, SubpageUndo(t)
  PROVE  HeapIInv'
<1>0. HeapTypes /\ BlockInv /\ RefInv /\ ThreadInv /\ OwnerInv BY DEF HeapIInv
<1>1. /\ thr[t].pc = "undo" /\ stopped' = "no" /\ UNCHANGED <<lists, kheaproots, live>>
      /\ pool' = pool \cup {thr[t].page} /\ fails' = fails /\ Goto(t, OutOfHeap)
  BY DEF SubpageUndo, At, Return
<1>2. Place(thr[t], kheaproots) BY <1>0 DEF ThreadInv
<1>3. thr[t].page \in Pages /\ thr[t].spare = 0 BY <1>1, <1>2 DEF Place
<1>4. OutOfHeap \in Thr /\ OutOfHeap.pc = "idle" /\ OutOfHeap.page = 0 /\ OutOfHeap.spare = 0 /\ Place(OutOfHeap, kheaproots)
  BY OutOfHeapExact
<1>5. pool' \in SUBSET Pages /\ fails' \in 0..MaxFail BY <1>0, <1>1, <1>3 DEF HeapTypes
<1>6. Moved({thr[t].page}, "page", t, "pool", 0)
  <2>1. \A p \in Pages : p # 0 BY DEF Pages
  <2>2. \A p \in Pages : p \in {thr[t].page} => Owned("page", t, p) BY <1>1 DEF Owned, Brought
  <2>3. \A x, p : /\ InHeap(x, p)' <=> InHeap(x, p)
                  /\ InBlock(x, p)' <=> InBlock(x, p)
                  /\ InRoot(x, p)' <=> InRoot(x, p)
                  /\ x # t => /\ Brought(x, p)' <=> Brought(x, p)
                              /\ Spare(x, p)' <=> Spare(x, p)
                              /\ Freed(x, p)' <=> Freed(x, p)
    BY <1>0, <1>1, <1>4, ThreadMoves
  <2>4. \A p \in Pages : ~Brought(t, p)' /\ ~Spare(t, p)' /\ ~Freed(t, p)'
    BY <1>0, <1>1, <1>4, <2>1, ThreadMoves
  <2>5. \A p \in Pages : (Brought(t, p) <=> thr[t].page = p) /\ ~Spare(t, p) /\ ~Freed(t, p)
    BY <1>1, <1>3, <2>1 DEF Brought, Spare, Freed
  <2>6. \A p \in Pages : \A k, x :
           Owned(k, x, p)' <=> \/ Owned(k, x, p) /\ ~(p \in {thr[t].page} /\ k = "page" /\ x = t)
                               \/ p \in {thr[t].page} /\ k = "pool" /\ x = 0
    BY <1>1, <2>3, <2>4, <2>5 DEF Owned
  <2> QED BY <2>2, <2>6 DEF Moved
<1>7. OwnerInv' BY <1>0, <1>6, OwnersMove
<1>8. OutOfHeap.pc \notin {"refpage", "install", "spare"} BY <1>4
<1> QED BY <1>1, <1>4, <1>5, <1>7, <1>8, ListsStay

\* free_kpages: the run goes back.
LEMMA FreeKpagesStep ==
  ASSUME HeapIInv, NEW t \in Threads, free_kpages(t)
  PROVE  HeapIInv'
<1>0. HeapTypes /\ BlockInv /\ RefInv /\ ThreadInv /\ OwnerInv BY DEF HeapIInv
<1>1. PICK M : M = Run(thr[t].page, PagesOf(thr[t].sz)) OBVIOUS
<1>2. /\ thr[t].pc = "freepage" /\ stopped' = "no" /\ UNCHANGED <<lists, kheaproots, live>>
      /\ pool' = pool \cup M /\ fails' = fails /\ Goto(t, OutOfHeap)
  BY <1>1 DEF free_kpages, At, Return
<1>3. Place(thr[t], kheaproots) BY <1>0 DEF ThreadInv
<1>4. M \subseteq Pages /\ thr[t].spare = 0 BY <1>1, <1>2, <1>3 DEF Place
<1>5. OutOfHeap \in Thr /\ OutOfHeap.pc = "idle" /\ OutOfHeap.page = 0 /\ OutOfHeap.spare = 0 /\ Place(OutOfHeap, kheaproots)
  BY OutOfHeapExact
<1>6. pool' \in SUBSET Pages /\ fails' \in 0..MaxFail BY <1>0, <1>2, <1>4 DEF HeapTypes
<1>7. Moved(M, "freed", t, "pool", 0)
  <2>1. \A p \in Pages : p # 0 BY DEF Pages
  <2>2. \A p \in Pages : p \in M => Owned("freed", t, p) BY <1>1, <1>2 DEF Owned, Freed
  <2>3. \A x, p : /\ InHeap(x, p)' <=> InHeap(x, p)
                  /\ InBlock(x, p)' <=> InBlock(x, p)
                  /\ InRoot(x, p)' <=> InRoot(x, p)
                  /\ x # t => /\ Brought(x, p)' <=> Brought(x, p)
                              /\ Spare(x, p)' <=> Spare(x, p)
                              /\ Freed(x, p)' <=> Freed(x, p)
    BY <1>0, <1>2, <1>5, ThreadMoves
  <2>4. \A p \in Pages : ~Brought(t, p)' /\ ~Spare(t, p)' /\ ~Freed(t, p)'
    BY <1>0, <1>2, <1>5, <2>1, ThreadMoves
  <2>5. \A p \in Pages : ~Brought(t, p) /\ ~Spare(t, p) /\ (Freed(t, p) <=> p \in M)
    BY <1>1, <1>2, <1>4, <2>1 DEF Brought, Spare, Freed
  <2>6. \A p \in Pages : \A k, x :
           Owned(k, x, p)' <=> \/ Owned(k, x, p) /\ ~(p \in M /\ k = "freed" /\ x = t)
                               \/ p \in M /\ k = "pool" /\ x = 0
    BY <1>2, <2>3, <2>4, <2>5 DEF Owned
  <2> QED BY <2>2, <2>6 DEF Moved
<1>8. OwnerInv' BY <1>0, <1>7, OwnersMove
<1>9. OutOfHeap.pc \notin {"refpage", "install", "spare"} BY <1>5
<1> QED BY <1>2, <1>5, <1>6, <1>8, <1>9, ListsStay

-----------------------------------------------------------------------------
(* The actions that give a page a reference.                               *)

\* A reference is a root and a place on it.
LEMMA RefParts ==
  ASSUME NEW r \in Refs
  PROVE  r[1] \in Roots /\ r[1] \in Nat /\ r[2] \in 0..RefsPerPage-1 /\ r = <<r[1], r[2]>>
BY DEF Refs, Roots

\* The reference allocpageref takes is the first of those that are free.
LEMMA FirstRef ==
  ASSUME NEW T \in SUBSET Refs, T # {}
  PROVE  \E r \in T : \A q \in T : r[1] < q[1] \/ (r[1] = q[1] /\ r[2] <= q[2])
<1>1. PICK A : A = {r[1] : r \in T} OBVIOUS
<1>2. A \in SUBSET Nat /\ A # {} BY <1>1, RefParts
<1>3. PICK a \in A : \A y \in A : a <= y BY <1>2, Least
<1>4. PICK B : B = {r[2] : r \in {q \in T : q[1] = a}} OBVIOUS
<1>5. B \in SUBSET Nat /\ B # {}
  <2>1. B \in SUBSET Nat BY <1>4, RefParts
  <2>2. \E r \in T : r[1] = a BY <1>1, <1>3
  <2> QED BY <1>4, <2>1, <2>2
<1>6. PICK b \in B : \A y \in B : b <= y BY <1>5, Least
<1>7. PICK r \in T : r[1] = a /\ r[2] = b BY <1>4, <1>6
<1>8. ASSUME NEW q \in T PROVE r[1] < q[1] \/ (r[1] = q[1] /\ r[2] <= q[2])
  <2>1. a <= q[1] /\ a \in Nat /\ q[1] \in Nat BY <1>1, <1>2, <1>3
  <2>2. q[1] = a => b <= q[2] BY <1>4, <1>6
  <2> QED BY <1>7, <2>1, <2>2
<1> QED BY <1>7, <1>8

\* A root marks one of its references.
LEMMA MarkExact ==
  ASSUME HeapTypes, NEW r \in Refs, kheaproots' = [kheaproots EXCEPT ![r[1]].inuse = @ \cup {r[2]}]
  PROVE  /\ kheaproots' \in [Roots -> Root] /\ Marked(r)'
         /\ \A q \in Roots : /\ kheaproots'[q].page = kheaproots[q].page
                             /\ kheaproots[q].inuse \subseteq kheaproots'[q].inuse
                             /\ q # r[1] => kheaproots'[q] = kheaproots[q]
<1>1. r[1] \in Roots /\ r[2] \in 0..RefsPerPage-1 BY RefParts
<1>2. kheaproots \in [Roots -> Root] /\ kheaproots[r[1]] \in Root BY <1>1 DEF HeapTypes
<1> DEFINE z == [kheaproots[r[1]] EXCEPT !.inuse = @ \cup {r[2]}]
<1>3. kheaproots' = [kheaproots EXCEPT ![r[1]] = z] OBVIOUS
<1>4. z \in Root /\ z.page = kheaproots[r[1]].page /\ z.inuse = kheaproots[r[1]].inuse \cup {r[2]}
  BY <1>1, <1>2 DEF Root
<1> HIDE DEF z
<1>5. kheaproots' \in [Roots -> Root] /\ kheaproots'[r[1]] = z /\ \A q \in Roots : q # r[1] => kheaproots'[q] = kheaproots[q]
  BY <1>1, <1>2, <1>3, <1>4
<1>6. Marked(r)' BY <1>4, <1>5 DEF Marked
<1> QED BY <1>4, <1>5, <1>6

\* Roots fill in order, but for those whose page is missing.
Ordered(roots) == \A p, q \in Roots : q < p /\ roots[p].inuse # {} /\ roots[q].page = 0
                    => roots[q].inuse = 0..RefsPerPage-1

\* RefInv says it.
LEMMA OrderedExact == RefInv => Ordered(kheaproots)
BY DEF RefInv, Ordered

\* The marked reference is the first free one: the roots before it are full.
LEMMA MarkOrdered ==
  ASSUME HeapTypes, RefInv, NEW r \in Refs, kheaproots' = [kheaproots EXCEPT ![r[1]].inuse = @ \cup {r[2]}],
         \A q \in Refs : ~Marked(q) => r[1] <= q[1]
  PROVE  Ordered(kheaproots')
<1>1. /\ kheaproots' \in [Roots -> Root]
      /\ \A q \in Roots : /\ kheaproots'[q].page = kheaproots[q].page
                          /\ kheaproots[q].inuse \subseteq kheaproots'[q].inuse
                          /\ q # r[1] => kheaproots'[q] = kheaproots[q]
  BY MarkExact
<1> SUFFICES ASSUME NEW p \in Roots, NEW q \in Roots, q < p, kheaproots'[p].inuse # {}, kheaproots'[q].page = 0
             PROVE  kheaproots'[q].inuse = 0..RefsPerPage-1
  BY DEF Ordered
<1>2. kheaproots[q].inuse = 0..RefsPerPage-1
  <2>1. CASE p # r[1] BY <1>1, <2>1, OrderedExact DEF Ordered
  <2>2. CASE p = r[1]
    <3>1. \A j \in 0..RefsPerPage-1 : j \in kheaproots[q].inuse
      <4> SUFFICES ASSUME NEW j \in 0..RefsPerPage-1, j \notin kheaproots[q].inuse PROVE FALSE OBVIOUS
      <4>1. PICK x : x = <<q, j>> OBVIOUS
      <4>2. x \in Refs /\ x[1] = q /\ ~Marked(x) BY <4>1 DEF Refs, Marked
      <4>3. r[1] <= q BY <4>2
      <4>4. q \in Int /\ p \in Int BY DEF Roots
      <4> QED BY <2>2, <4>3, <4>4
    <3>2. kheaproots[q].inuse \subseteq 0..RefsPerPage-1 BY DEF HeapTypes, Root
    <3> QED BY <3>1, <3>2
  <2> QED BY <2>1, <2>2
<1>3. kheaproots'[q].inuse \subseteq 0..RefsPerPage-1 BY <1>1 DEF Root
<1> QED BY <1>1, <1>2, <1>3

\* What is left to show when the page has its reference.
LEMMA NewPageEnds ==
  ASSUME HeapIInv, NEW t \in Threads, NEW r \in Refs \ Listed, thr[t].pc \in {"ref", "install", "spare"}, NewPage(t, r),
         kheaproots' \in [Roots -> Root], pool' \in SUBSET Pages, fails' = fails, stopped' = "no",
         Marked(r)', kheaproots'[r[1]].page # 0, Ordered(kheaproots'),
         \A q \in Roots : /\ kheaproots[q].page # 0 => kheaproots'[q].page # 0
                          /\ kheaproots[q].inuse \subseteq kheaproots'[q].inuse,
         \A u \in Threads : u # t /\ Has(u) => thr[u].ref # r,
         OwnerInv'
  PROVE  HeapIInv'
<1>0. HeapTypes /\ BlockInv /\ RefInv /\ ThreadInv /\ OwnerInv BY DEF HeapIInv
<1>1. /\ ref' \in [Refs -> Ref] /\ sizebases' \in [Types -> Seq(Refs)] /\ allbase' \in Seq(Refs)
      /\ live' \in SUBSET Live /\ thr' \in [Threads -> Thr] /\ BlockInv' /\ Listed' = Listed \cup {r}
      /\ thr'[t] = OutOfHeap /\ \A u \in Threads : u # t => thr'[u] = thr[u]
  BY <1>0, NewPageStep
<1>2. HeapTypes' BY <1>0, <1>1 DEF HeapTypes
<1>3. NeverRefused' BY DEF NeverRefused
<1>4. OutOfHeap.pc = "idle" /\ Place(OutOfHeap, kheaproots') BY OutOfHeapExact
<1>5. ThreadInv'
  <2>1. Place(thr'[t], kheaproots') BY <1>1, <1>4
  <2> QED BY <1>0, <1>1, <2>1, PlacesKept
<1>6. \A q \in Refs : Marked(q) => Marked(q)' BY RefParts DEF Marked
<1>7. \A q \in Listed' : Marked(q)' /\ kheaproots'[q[1]].page # 0
  <2> SUFFICES ASSUME NEW q \in Listed PROVE Marked(q)' /\ kheaproots'[q[1]].page # 0 BY <1>1
  <2>1. q \in Refs /\ q[1] \in Roots BY <1>0, ListedRefs, RefParts
  <2>2. Marked(q) /\ kheaproots[q[1]].page # 0 BY <1>0 DEF RefInv
  <2> QED BY <1>6, <2>1, <2>2
<1>8. \A u \in Threads : Has(u)' => u # t /\ Has(u) /\ thr'[u].ref = thr[u].ref BY <1>1, <1>4 DEF Has
<1>9. \A u \in Threads : Has(u)' => thr'[u].ref \in Refs \ Listed' /\ Marked(thr[u].ref)'
  <2> SUFFICES ASSUME NEW u \in Threads, Has(u)' PROVE thr'[u].ref \in Refs \ Listed' /\ Marked(thr[u].ref)'
    OBVIOUS
  <2>1. u # t /\ Has(u) /\ thr'[u].ref = thr[u].ref BY <1>8
  <2>2. PICK q : q = thr[u].ref OBVIOUS
  <2>3. q \in Refs \ Listed /\ Marked(q) /\ q # r BY <1>0, <2>1, <2>2 DEF RefInv
  <2>4. Marked(q)' BY <1>6, <2>3
  <2>5. Marked(thr[u].ref)' BY <2>1, <2>2, <2>4 DEF Marked
  <2> QED BY <1>1, <2>1, <2>2, <2>3, <2>5
<1>10. \A u, v \in Threads : Has(u)' /\ Has(v)' /\ thr'[u].ref = thr'[v].ref => u = v BY <1>0, <1>8 DEF RefInv
<1>11. RefInv' BY <1>7, <1>9, <1>10 DEF RefInv, Ordered
<1> QED BY <1>1, <1>2, <1>3, <1>5, <1>11 DEF HeapIInv

\* The page of a new reference goes from the thread to the heap; M2 are pages
\* that move in the same step.
Moved2(M, k1, x1, k2, x2, M2, l1, y1, l2, y2) ==
  /\ \A p \in Pages : p \in M => Owned(k1, x1, p)
  /\ \A p \in Pages : p \in M2 => Owned(l1, y1, p)
  /\ \A p \in Pages : \A k, x :
       Owned(k, x, p)' <=> \/ Owned(k, x, p) /\ ~(p \in M /\ k = k1 /\ x = x1) /\ ~(p \in M2 /\ k = l1 /\ x = y1)
                           \/ p \in M /\ k = k2 /\ x = x2
                           \/ p \in M2 /\ k = l2 /\ x = y2

\* The pages keep their owners when two lots of them move.
LEMMA OwnersMove2 ==
  ASSUME OwnerInv, NEW M, NEW k1, NEW x1, NEW k2, NEW x2, NEW M2, NEW l1, NEW y1, NEW l2, NEW y2, k1 # l1,
         Moved2(M, k1, x1, k2, x2, M2, l1, y1, l2, y2)
  PROVE  OwnerInv'
<1> USE DEF Moved2
<1> SUFFICES ASSUME NEW p \in Pages
             PROVE  \E k, x : Owned(k, x, p)' /\ \A l, y : Owned(l, y, p)' => l = k /\ y = x
  BY DEF OwnerInv, Pages
<1>1. PICK k0, x0 : Owned(k0, x0, p) /\ \A l, y : Owned(l, y, p) => l = k0 /\ y = x0 BY DEF OwnerInv
<1>2. CASE p \notin M /\ p \notin M2 BY <1>1, <1>2
<1>3. CASE p \in M
  <2>1. k1 = k0 /\ x1 = x0 BY <1>1, <1>3
  <2>2. p \notin M2 BY <1>1, <2>1
  <2>3. \A l, y : Owned(l, y, p)' => l = k2 /\ y = x2 BY <1>1, <1>3, <2>1, <2>2
  <2>4. Owned(k2, x2, p)' BY <1>3
  <2> QED BY <2>3, <2>4
<1>4. CASE p \in M2
  <2>1. l1 = k0 /\ y1 = x0 BY <1>1, <1>4
  <2>2. p \notin M BY <1>1, <2>1
  <2>3. \A l, y : Owned(l, y, p)' => l = l2 /\ y = y2 BY <1>1, <1>4, <2>1, <2>2
  <2>4. Owned(l2, y2, p)' BY <1>4
  <2> QED BY <2>3, <2>4
<1> QED BY <1>2, <1>3, <1>4

\* Who has which page after NewPage: a spare page has gone where it belongs.
LEMMA NewPageOwners ==
  ASSUME HeapTypes, BlockInv, ThreadInv, OwnerInv, NEW t \in Threads, NEW r \in Refs \ Listed,
         thr[t].pc \in {"ref", "install", "spare"}, NewPage(t, r)
  PROVE  /\ \A p \in Pages :
              /\ \A x : /\ InHeap(x, p)' <=> InHeap(x, p) \/ (x = r /\ p = thr[t].page)
                        /\ InBlock(x, p)' <=> InBlock(x, p)
                        /\ x # t => /\ Brought(x, p)' <=> Brought(x, p)
                                    /\ Spare(x, p)' <=> Spare(x, p)
                        /\ Freed(x, p)' <=> Freed(x, p)
              /\ ~Brought(t, p)' /\ ~Spare(t, p)'
              /\ Brought(t, p) <=> p = thr[t].page
              /\ Spare(t, p) <=> p = thr[t].spare
<1>1. Return(t) /\ \A x, p : /\ InHeap(x, p)' <=> InHeap(x, p) \/ (x = r /\ p = thr[t].page)
                             /\ InBlock(x, p)' <=> InBlock(x, p)
  BY NewPageStep
<1>2. \A p \in Pages : \A x : /\ Brought(x, p)' <=> Brought(x, p) /\ x # t
                              /\ Spare(x, p)' <=> Spare(x, p) /\ x # t
                              /\ Freed(x, p)' <=> Freed(x, p) /\ x # t
  BY <1>1, LeaveExact
<1>3. \A p : ~Freed(t, p) BY DEF Freed
<1>4. \A p : (Brought(t, p) <=> p = thr[t].page) /\ (Spare(t, p) <=> p = thr[t].spare) BY DEF Brought, Spare
<1> QED BY <1>1, <1>2, <1>3, <1>4

\* allocpageref: a reference is marked, and used if its root has its page.
LEMMA AllocpagerefStep ==
  ASSUME HeapIInv, NEW t \in Threads, allocpageref(t)
  PROVE  HeapIInv'
<1>0. HeapTypes /\ BlockInv /\ RefInv /\ ThreadInv /\ OwnerInv BY DEF HeapIInv
<1>1. thr[t].pc = "ref" /\ stopped' = "no" /\ UNCHANGED <<pool, fails>> BY DEF allocpageref, At
<1>2. Place(thr[t], kheaproots) BY <1>0 DEF ThreadInv
<1>3. thr[t].page \in Pages /\ thr[t].spare = 0 /\ thr[t].sz \in Requests /\ thr[t].sz < LargestSubpage
  BY <1>1, <1>2 DEF Place
<1>4. thr[t] \in Thr /\ pool' \in SUBSET Pages /\ fails' \in 0..MaxFail BY <1>0, <1>1 DEF HeapTypes
<1> DEFINE open == {r \in Refs : r[2] \notin kheaproots[r[1]].inuse}
           first == CHOOSE r \in open : \A q \in open :
                    r[1] < q[1] \/ (r[1] = q[1] /\ r[2] <= q[2])
           Undo == [thr[t] EXCEPT !.pc = "undo"]
           RefPage == [thr[t] EXCEPT !.pc = "refpage", !.ref = first]
<1>5. \/ open = {} /\ Goto(t, Undo) /\ UNCHANGED <<lists, kheaproots, live>>
      \/ /\ open # {}
         /\ kheaproots' = [kheaproots EXCEPT ![first[1]].inuse = @ \cup {first[2]}]
         /\ IF kheaproots[first[1]].page = 0
            THEN Goto(t, RefPage) /\ UNCHANGED <<lists, live>>
            ELSE NewPage(t, first)
  BY DEF allocpageref
<1>6. CASE open = {} /\ Goto(t, Undo) /\ UNCHANGED <<lists, kheaproots, live>>
  <2>1. PICK y : y = Undo OBVIOUS
  <2>2. y \in Thr /\ y.pc = "undo" /\ y.page = thr[t].page /\ y.spare = 0 BY <1>3, <1>4, <2>1 DEF Thr, PCs
  <2>3. Goto(t, y) /\ UNCHANGED <<lists, kheaproots, live>> BY <1>6, <2>1
  <2>4. Place(y, kheaproots) BY <1>3, <2>2 DEF Place
  <2>5. \A x, p : (InHeap(x, p)' <=> InHeap(x, p)) /\ (InBlock(x, p)' <=> InBlock(x, p)) BY <1>0, <2>3, BlocksStay
  <2>6. OwnerInv'
    <3>1. thr[t].pc # "freepage" /\ y.pc # "freepage" /\ y.page = thr[t].page /\ y.spare = thr[t].spare
          /\ UNCHANGED <<pool, kheaproots>>
      BY <1>1, <1>3, <2>2, <2>3
    <3> QED BY <1>0, <2>2, <2>3, <2>5, <3>1, MovesOn
  <2>7. y.pc \notin {"refpage", "install", "spare"} BY <2>2
  <2> QED BY <1>1, <1>4, <2>2, <2>3, <2>4, <2>6, <2>7, ListsStay
<1>7. ASSUME open # {}
      PROVE  first \in open /\ first \in Refs \ Listed /\ ~Marked(first) /\ (\A q \in Refs : ~Marked(q) => first[1] <= q[1])
  <2>1. open \in SUBSET Refs OBVIOUS
  <2>2. \E r \in open : \A q \in open : r[1] < q[1] \/ (r[1] = q[1] /\ r[2] <= q[2]) BY <1>7, <2>1, FirstRef
  <2>3. first \in open /\ \A q \in open : first[1] < q[1] \/ (first[1] = q[1] /\ first[2] <= q[2]) BY <2>2
  <2>4. \A q \in Refs : ~Marked(q) => q \in open BY DEF Marked
  <2>5. first \in Refs /\ ~Marked(first) BY <2>3 DEF Marked
  <2>6. first \notin Listed BY <1>0, <2>5 DEF RefInv
  <2> HIDE DEF first, open
  <2>7. \A q \in Refs : ~Marked(q) => first[1] <= q[1]
    <3> SUFFICES ASSUME NEW q \in Refs, ~Marked(q) PROVE first[1] <= q[1] OBVIOUS
    <3>1. first[1] < q[1] \/ first[1] = q[1] BY <2>3, <2>4
    <3>2. first[1] \in Nat /\ q[1] \in Nat BY <2>5, RefParts
    <3> QED BY <3>1, <3>2
  <2> QED BY <2>3, <2>5, <2>6, <2>7
<1>8. ASSUME NEW r \in Refs \ Listed, ~Marked(r), \A q \in Refs : ~Marked(q) => r[1] <= q[1],
             kheaproots' = [kheaproots EXCEPT ![r[1]].inuse = @ \cup {r[2]}],
             kheaproots[r[1]].page # 0, NewPage(t, r)
      PROVE  HeapIInv'
  <2>1. /\ kheaproots' \in [Roots -> Root] /\ Marked(r)'
        /\ \A q \in Roots : /\ kheaproots'[q].page = kheaproots[q].page
                            /\ kheaproots[q].inuse \subseteq kheaproots'[q].inuse
    BY <1>0, <1>8, MarkExact
  <2>2. Ordered(kheaproots') BY <1>0, <1>8, MarkOrdered
  <2>3. r[1] \in Roots BY <1>8, RefParts
  <2>4. \A u \in Threads : u # t /\ Has(u) => thr[u].ref # r BY <1>0, <1>8 DEF RefInv
  <2>5. Moved({thr[t].page}, "page", t, "heap", r)
    <3>1. \A p \in Pages :
              /\ \A x : /\ InHeap(x, p)' <=> InHeap(x, p) \/ (x = r /\ p = thr[t].page)
                        /\ InBlock(x, p)' <=> InBlock(x, p)
                        /\ x # t => /\ Brought(x, p)' <=> Brought(x, p)
                                    /\ Spare(x, p)' <=> Spare(x, p)
                        /\ Freed(x, p)' <=> Freed(x, p)
              /\ ~Brought(t, p)' /\ ~Spare(t, p)'
              /\ Brought(t, p) <=> p = thr[t].page
              /\ Spare(t, p) <=> p = thr[t].spare
      BY <1>0, <1>1, <1>8, NewPageOwners
    <3>2. \A x, p : InRoot(x, p)' <=> InRoot(x, p) BY <2>1 DEF InRoot
    <3>3. \A p \in Pages : ~Spare(t, p) BY <1>3, <3>1 DEF Pages
    <3>4. \A p \in Pages : p \in {thr[t].page} => Owned("page", t, p) BY <3>1 DEF Owned
    <3>5. \A p \in Pages : \A k, x :
             Owned(k, x, p)' <=> \/ Owned(k, x, p) /\ ~(p \in {thr[t].page} /\ k = "page" /\ x = t)
                                 \/ p \in {thr[t].page} /\ k = "heap" /\ x = r
      BY <1>1, <3>1, <3>2, <3>3 DEF Owned
    <3> QED BY <3>4, <3>5 DEF Moved
  <2>6. OwnerInv' BY <1>0, <2>5, OwnersMove
  <2>7. kheaproots'[r[1]].page # 0 BY <1>8, <2>1, <2>3
  <2>8. /\ \A q \in Roots : /\ kheaproots[q].page # 0 => kheaproots'[q].page # 0
                            /\ kheaproots[q].inuse \subseteq kheaproots'[q].inuse
    BY <2>1
  <2> QED BY <1>1, <1>4, <1>8, <2>1, <2>2, <2>4, <2>6, <2>7, <2>8, NewPageEnds
<1>9. ASSUME NEW r \in Refs \ Listed, ~Marked(r), \A q \in Refs : ~Marked(q) => r[1] <= q[1],
             kheaproots' = [kheaproots EXCEPT ![r[1]].inuse = @ \cup {r[2]}],
             Goto(t, [thr[t] EXCEPT !.pc = "refpage", !.ref = r]), UNCHANGED <<lists, live>>
      PROVE  HeapIInv'
  <2>1. /\ kheaproots' \in [Roots -> Root] /\ Marked(r)'
        /\ \A q \in Roots : /\ kheaproots'[q].page = kheaproots[q].page
                            /\ kheaproots[q].inuse \subseteq kheaproots'[q].inuse
    BY <1>0, <1>9, MarkExact
  <2>2. Ordered(kheaproots') BY <1>0, <1>9, MarkOrdered
  <2>3. PICK y : y = [thr[t] EXCEPT !.pc = "refpage", !.ref = r] OBVIOUS
  <2>4. /\ y \in Thr /\ y.pc = "refpage" /\ y.page = thr[t].page /\ y.spare = 0 /\ y.ref = r /\ y.sz = thr[t].sz
    BY <1>3, <1>4, <2>3 DEF Thr, PCs
  <2>5. Goto(t, y) BY <1>9, <2>3
  <2>6. thr' \in [Threads -> Thr] /\ thr'[t] = y /\ \A u \in Threads : u # t => thr'[u] = thr[u]
    BY <1>0, <2>4, <2>5, GotoExact
  <2>7. UNCHANGED <<ref, sizebases, allbase, live>> /\ Listed' = Listed BY <1>9 DEF lists, Listed
  <2>8. HeapTypes' BY <1>0, <1>4, <2>1, <2>6, <2>7 DEF HeapTypes
  <2>9. BlockInv' BY <1>0, <2>7 DEF BlockInv
  <2>10. \A q \in Refs : Marked(q) => Marked(q)' BY <2>1, RefParts DEF Marked
  <2>11. \A q \in Listed' : Marked(q)' /\ kheaproots'[q[1]].page # 0
    <3> SUFFICES ASSUME NEW q \in Listed PROVE Marked(q)' /\ kheaproots'[q[1]].page # 0 BY <2>7
    <3>1. q \in Refs /\ q[1] \in Roots BY <1>0, ListedRefs, RefParts
    <3>2. Marked(q) /\ kheaproots[q[1]].page # 0 BY <1>0 DEF RefInv
    <3> QED BY <2>1, <2>10, <3>1, <3>2
  <2>12. \A u \in Threads : u # t => (Has(u)' <=> Has(u)) /\ thr'[u] = thr[u] BY <2>6 DEF Has
  <2>13. \A u \in Threads : u # t /\ Has(u) => thr[u].ref # r /\ thr[u].ref \in Refs \ Listed /\ Marked(thr[u].ref)
    BY <1>0, <1>9 DEF RefInv
  <2>14. \A u \in Threads : Has(u)' => thr'[u].ref \in Refs \ Listed' /\ Marked(thr[u].ref)'
    <3> SUFFICES ASSUME NEW u \in Threads, Has(u)' PROVE thr'[u].ref \in Refs \ Listed' /\ Marked(thr[u].ref)'
      OBVIOUS
    <3>1. PICK q : q = thr'[u].ref OBVIOUS
    <3>2. q \in Refs \ Listed /\ Marked(q)'
      <4>1. CASE u = t BY <1>9, <2>1, <2>4, <2>6, <3>1, <4>1
      <4>2. CASE u # t BY <2>10, <2>12, <2>13, <3>1, <4>2
      <4> QED BY <4>1, <4>2
    <3>3. Marked(thr[u].ref)' BY <3>1, <3>2 DEF Marked
    <3> QED BY <2>7, <3>1, <3>2, <3>3
  <2>15. \A u, v \in Threads : Has(u)' /\ Has(v)' /\ thr'[u].ref = thr'[v].ref => u = v
    BY <1>0, <2>4, <2>6, <2>12, <2>13 DEF RefInv
  <2>16. RefInv' BY <2>2, <2>11, <2>14, <2>15 DEF RefInv, Ordered
  <2>17. ThreadInv'
    <3>1. Place(thr'[t], kheaproots') BY <1>3, <2>4, <2>6 DEF Place
    <3> QED BY <1>0, <2>1, <2>6, <3>1, PlacesKept
  <2>18. OwnerInv'
    <3>1. \A x, p : (InRoot(x, p)' <=> InRoot(x, p)) /\ (InHeap(x, p)' <=> InHeap(x, p)) /\ (InBlock(x, p)' <=> InBlock(x, p))
      BY <2>1, <2>7 DEF InRoot, InHeap, InBlock
    <3>2. \A x, p : (Brought(x, p)' <=> Brought(x, p)) /\ (Spare(x, p)' <=> Spare(x, p)) /\ (Freed(x, p)' <=> Freed(x, p))
      BY <1>1, <1>3, <2>4, <2>6 DEF Brought, Spare, Freed
    <3>3. \A p \in Pages : \A k, x : Owned(k, x, p)' <=> Owned(k, x, p) BY <1>1, <3>1, <3>2 DEF Owned
    <3> QED BY <1>0, <3>3, OwnersStay
  <2>19. NeverRefused' BY <1>1 DEF NeverRefused
  <2> QED BY <2>8, <2>9, <2>16, <2>17, <2>18, <2>19 DEF HeapIInv
<1>10. PICK r : r = first OBVIOUS
<1>11. CASE open # {} /\ kheaproots' = [kheaproots EXCEPT ![r[1]].inuse = @ \cup {r[2]}]
            /\ kheaproots[r[1]].page = 0 /\ Goto(t, [thr[t] EXCEPT !.pc = "refpage", !.ref = r]) /\ UNCHANGED <<lists, live>>
  BY <1>7, <1>9, <1>10, <1>11
<1>12. CASE open # {} /\ kheaproots' = [kheaproots EXCEPT ![r[1]].inuse = @ \cup {r[2]}]
            /\ kheaproots[r[1]].page # 0 /\ NewPage(t, r)
  BY <1>7, <1>8, <1>10, <1>12
<1> QED BY <1>5, <1>6, <1>10, <1>11, <1>12

\* A thread with a marked reference gives its page to the heap.
LEMMA HasExact ==
  ASSUME HeapTypes, RefInv, NEW t \in Threads, Has(t)
  PROVE  /\ thr[t].ref \in Refs \ Listed /\ thr[t].ref[1] \in Roots /\ Marked(thr[t].ref)
         /\ \A u \in Threads : u # t /\ Has(u) => thr[u].ref # thr[t].ref
<1>1. thr[t].ref \in Refs \ Listed /\ Marked(thr[t].ref) BY DEF RefInv
<1>2. \A u \in Threads : u # t /\ Has(u) => thr[u].ref # thr[t].ref BY DEF RefInv
<1> QED BY <1>1, <1>2, RefParts

\* ... while the roots stay as they are.
LEMMA NewPageOnRoot ==
  ASSUME HeapIInv, NEW t \in Threads, thr[t].pc \in {"install", "spare"}, NewPage(t, thr[t].ref),
         kheaproots' = kheaproots, kheaproots[thr[t].ref[1]].page # 0,
         NEW M2, thr[t].spare \in Pages => M2 = {thr[t].spare}, thr[t].spare \notin Pages => M2 = {},
         pool' = pool \cup M2, fails' = fails, stopped' = "no"
  PROVE  HeapIInv'
<1>0. HeapTypes /\ BlockInv /\ RefInv /\ ThreadInv /\ OwnerInv BY DEF HeapIInv
<1>1. PICK r : r = thr[t].ref OBVIOUS
<1>2. Has(t) BY DEF Has
<1>3. /\ r \in Refs \ Listed /\ r[1] \in Roots /\ Marked(r)
      /\ \A u \in Threads : u # t /\ Has(u) => thr[u].ref # r
  BY <1>0, <1>1, <1>2, HasExact
<1>4. NewPage(t, r) /\ thr[t].pc \in {"ref", "install", "spare"} /\ kheaproots[r[1]].page # 0 BY <1>1
<1>5. pool' \in SUBSET Pages /\ kheaproots' \in [Roots -> Root] BY <1>0 DEF HeapTypes
<1>6. Marked(r)' BY <1>3 DEF Marked
<1>7. Ordered(kheaproots') BY <1>0, OrderedExact
<1>8. Moved2({thr[t].page}, "page", t, "heap", r, M2, "spare", t, "pool", 0)
  <2>1. \A p \in Pages :
            /\ \A x : /\ InHeap(x, p)' <=> InHeap(x, p) \/ (x = r /\ p = thr[t].page)
                      /\ InBlock(x, p)' <=> InBlock(x, p)
                      /\ x # t => /\ Brought(x, p)' <=> Brought(x, p)
                                  /\ Spare(x, p)' <=> Spare(x, p)
                      /\ Freed(x, p)' <=> Freed(x, p)
            /\ ~Brought(t, p)' /\ ~Spare(t, p)'
            /\ Brought(t, p) <=> p = thr[t].page
            /\ Spare(t, p) <=> p = thr[t].spare
    BY <1>0, <1>3, <1>4, NewPageOwners
  <2>2. \A x, p : InRoot(x, p)' <=> InRoot(x, p) BY DEF InRoot
  <2>3. \A p \in Pages : p \in M2 <=> p = thr[t].spare OBVIOUS
  <2>4. \A p \in Pages : p \in {thr[t].page} => Owned("page", t, p) BY <2>1 DEF Owned
  <2>5. \A p \in Pages : p \in M2 => Owned("spare", t, p) BY <2>1, <2>3 DEF Owned
  <2>6. \A p \in Pages : p \in pool' <=> p \in pool \/ p \in M2 OBVIOUS
  <2>7. \A p \in Pages : \A k, x :
           Owned(k, x, p)' <=> \/ Owned(k, x, p) /\ ~(p \in {thr[t].page} /\ k = "page" /\ x = t)
                                                 /\ ~(p \in M2 /\ k = "spare" /\ x = t)
                               \/ p \in {thr[t].page} /\ k = "heap" /\ x = r
                               \/ p \in M2 /\ k = "pool" /\ x = 0
    BY <2>1, <2>2, <2>3, <2>6 DEF Owned
  <2> QED BY <2>4, <2>5, <2>7 DEF Moved2
<1>9. OwnerInv' BY <1>0, <1>8, OwnersMove2
<1>10. kheaproots'[r[1]].page # 0 BY <1>4
<1>11. \A q \in Roots : /\ kheaproots[q].page # 0 => kheaproots'[q].page # 0
                        /\ kheaproots[q].inuse \subseteq kheaproots'[q].inuse
  OBVIOUS
<1> QED BY <1>3, <1>4, <1>5, <1>6, <1>7, <1>9, <1>10, <1>11, NewPageEnds

\* DropSpare: the spare page goes back and the other joins the heap.
LEMMA DropSpareStep ==
  ASSUME HeapIInv, NEW t \in Threads, DropSpare(t)
  PROVE  HeapIInv'
<1>0. HeapTypes /\ ThreadInv BY DEF HeapIInv
<1>1. /\ thr[t].pc = "spare" /\ stopped' = "no" /\ kheaproots' = kheaproots /\ fails' = fails
      /\ pool' = pool \cup {thr[t].spare} /\ NewPage(t, thr[t].ref)
  BY DEF DropSpare, At
<1>2. Place(thr[t], kheaproots) BY <1>0 DEF ThreadInv
<1>3. thr[t].spare # 0 /\ kheaproots[thr[t].ref[1]].page # 0 BY <1>1, <1>2 DEF Place
<1>4. thr[t].spare \in Pages BY <1>0, <1>3 DEF HeapTypes, Thr
<1>5. PICK M2 : M2 = {thr[t].spare} OBVIOUS
<1>6. /\ thr[t].pc \in {"install", "spare"} /\ (thr[t].spare \in Pages => M2 = {thr[t].spare})
      /\ (thr[t].spare \notin Pages => M2 = {}) /\ pool' = pool \cup M2
  BY <1>1, <1>4, <1>5
<1> QED BY <1>1, <1>3, <1>6, NewPageOnRoot

\* A root gets its page.
LEMMA RootPageExact ==
  ASSUME HeapTypes, NEW q0 \in Roots, NEW va \in Pages, kheaproots' = [kheaproots EXCEPT ![q0].page = va]
  PROVE  /\ kheaproots' \in [Roots -> Root] /\ kheaproots'[q0].page = va
         /\ \A q \in Roots : kheaproots'[q].inuse = kheaproots[q].inuse /\ (q # q0 => kheaproots'[q] = kheaproots[q])
<1>1. kheaproots \in [Roots -> Root] /\ kheaproots[q0] \in Root BY DEF HeapTypes
<1> DEFINE z == [kheaproots[q0] EXCEPT !.page = va]
<1>2. kheaproots' = [kheaproots EXCEPT ![q0] = z] OBVIOUS
<1>3. z \in Root /\ z.page = va /\ z.inuse = kheaproots[q0].inuse BY <1>1 DEF Root
<1> HIDE DEF z
<1> QED BY <1>1, <1>2, <1>3

\* The thread's spare page becomes the root's.
LEMMA InstallStep ==
  ASSUME HeapIInv, NEW t \in Threads, thr[t].pc = "install", thr[t].spare # 0, NewPage(t, thr[t].ref),
         kheaproots[thr[t].ref[1]].page = 0,
         kheaproots' = [kheaproots EXCEPT ![thr[t].ref[1]].page = thr[t].spare],
         UNCHANGED <<pool, fails>>, stopped' = "no"
  PROVE  HeapIInv'
<1>0. HeapTypes /\ BlockInv /\ RefInv /\ ThreadInv /\ OwnerInv BY DEF HeapIInv
<1>1. PICK r : r = thr[t].ref OBVIOUS
<1>2. Has(t) BY DEF Has
<1>3. /\ r \in Refs \ Listed /\ r[1] \in Roots /\ Marked(r)
      /\ \A u \in Threads : u # t /\ Has(u) => thr[u].ref # r
  BY <1>0, <1>1, <1>2, HasExact
<1>4. NewPage(t, r) /\ thr[t].pc \in {"ref", "install", "spare"} /\ kheaproots[r[1]].page = 0 BY <1>1
<1>5. PICK va \in Pages : va = thr[t].spare BY <1>0 DEF HeapTypes, Thr
<1>6. PICK q0 \in Roots : q0 = r[1] BY <1>3
<1>7. /\ kheaproots' \in [Roots -> Root] /\ kheaproots'[q0].page = va
      /\ \A q \in Roots : kheaproots'[q].inuse = kheaproots[q].inuse /\ (q # q0 => kheaproots'[q] = kheaproots[q])
  <2>1. kheaproots' = [kheaproots EXCEPT ![q0].page = va] BY <1>1, <1>5, <1>6
  <2> QED BY <1>0, <2>1, RootPageExact
<1>8. va # 0 /\ kheaproots[q0].page = 0 BY <1>4, <1>5, <1>6
<1>9. pool' \in SUBSET Pages BY <1>0 DEF HeapTypes
<1>10. Marked(r)' BY <1>3, <1>7 DEF Marked
<1>11. Ordered(kheaproots')
  <2>1. \A q \in Roots : kheaproots'[q].page = 0 => kheaproots[q].page = 0 BY <1>7, <1>8
  <2>2. Ordered(kheaproots) BY <1>0, OrderedExact
  <2> QED BY <1>7, <2>1, <2>2 DEF Ordered
<1>12. Moved2({thr[t].page}, "page", t, "heap", r, {va}, "spare", t, "root", q0)
  <2>1. \A p \in Pages :
            /\ \A x : /\ InHeap(x, p)' <=> InHeap(x, p) \/ (x = r /\ p = thr[t].page)
                      /\ InBlock(x, p)' <=> InBlock(x, p)
                      /\ x # t => /\ Brought(x, p)' <=> Brought(x, p)
                                  /\ Spare(x, p)' <=> Spare(x, p)
                      /\ Freed(x, p)' <=> Freed(x, p)
            /\ ~Brought(t, p)' /\ ~Spare(t, p)'
            /\ Brought(t, p) <=> p = thr[t].page
            /\ Spare(t, p) <=> p = thr[t].spare
    BY <1>0, <1>3, <1>4, NewPageOwners
  <2>2. \A p \in Pages : p # 0 BY DEF Pages
  <2>3. \A p \in Pages : \A x : InRoot(x, p)' <=> InRoot(x, p) \/ (x = q0 /\ p = va)
    BY <1>7, <1>8, <2>2 DEF InRoot
  <2>4. \A p \in Pages : p \in {thr[t].page} => Owned("page", t, p) BY <2>1 DEF Owned
  <2>5. \A p \in Pages : p \in {va} => Owned("spare", t, p) BY <1>5, <2>1 DEF Owned
  <2>6. \A p \in Pages : \A k, x :
           Owned(k, x, p)' <=> \/ Owned(k, x, p) /\ ~(p \in {thr[t].page} /\ k = "page" /\ x = t)
                                                 /\ ~(p \in {va} /\ k = "spare" /\ x = t)
                               \/ p \in {thr[t].page} /\ k = "heap" /\ x = r
                               \/ p \in {va} /\ k = "root" /\ x = q0
    BY <1>5, <2>1, <2>3 DEF Owned
  <2> QED BY <2>4, <2>5, <2>6 DEF Moved2
<1>13. OwnerInv' BY <1>0, <1>12, OwnersMove2
<1>14. kheaproots'[r[1]].page # 0 BY <1>6, <1>7, <1>8
<1>15. \A q \in Roots : /\ kheaproots[q].page # 0 => kheaproots'[q].page # 0
                        /\ kheaproots[q].inuse \subseteq kheaproots'[q].inuse
  BY <1>7, <1>8
<1> QED BY <1>3, <1>4, <1>7, <1>9, <1>10, <1>11, <1>13, <1>14, <1>15, NewPageEnds

\* allocpagerefpage: each of its four outcomes keeps the invariant.
LEMMA AllocpagerefpageStep ==
  ASSUME HeapIInv, NEW t \in Threads, allocpagerefpage(t)
  PROVE  HeapIInv'
<1>0. HeapTypes /\ BlockInv /\ RefInv /\ ThreadInv /\ OwnerInv BY DEF HeapIInv
<1>1. thr[t].pc = "install" /\ stopped' = "no" /\ UNCHANGED <<pool, fails>> /\ pool' = pool /\ fails' = fails
  BY DEF allocpagerefpage, At
<1>2. Place(thr[t], kheaproots) BY <1>0 DEF ThreadInv
<1>3. thr[t].page \in Pages /\ thr[t].sz \in Requests /\ thr[t].sz < LargestSubpage BY <1>1, <1>2 DEF Place
<1>4. thr[t] \in Thr /\ pool' \in SUBSET Pages /\ fails' \in 0..MaxFail BY <1>0, <1>1 DEF HeapTypes
<1>5. Has(t) BY <1>1 DEF Has
<1> DEFINE have == kheaproots[thr[t].ref[1]].page
           va == thr[t].spare
<1>6. \/ va = 0 /\ have = 0 /\ Goto(t, [thr[t] EXCEPT !.pc = "undo"]) /\ UNCHANGED <<lists, kheaproots, live>>
      \/ va # 0 /\ have # 0 /\ Goto(t, [thr[t] EXCEPT !.pc = "spare"]) /\ UNCHANGED <<lists, kheaproots, live>>
      \/ va # 0 /\ have = 0 /\ kheaproots' = [kheaproots EXCEPT ![thr[t].ref[1]].page = va] /\ NewPage(t, thr[t].ref)
      \/ va = 0 /\ have # 0 /\ NewPage(t, thr[t].ref) /\ kheaproots' = kheaproots
  BY DEF allocpagerefpage
<1>7. ASSUME NEW y \in Thr, Goto(t, y), UNCHANGED <<lists, kheaproots, live>>, y.page = thr[t].page, y.spare = va,
             y.pc \in {"undo", "spare"}, y.pc = "spare" => y.ref = thr[t].ref, Place(y, kheaproots)
      PROVE  HeapIInv'
  <2>1. \A x, p : (InHeap(x, p)' <=> InHeap(x, p)) /\ (InBlock(x, p)' <=> InBlock(x, p)) BY <1>0, <1>7, BlocksStay
  <2>2. OwnerInv'
    <3>1. thr[t].pc # "freepage" /\ y.pc # "freepage" /\ y.page = thr[t].page /\ y.spare = thr[t].spare
          /\ UNCHANGED <<pool, kheaproots>>
      BY <1>1, <1>7
    <3> QED BY <1>0, <1>7, <2>1, <3>1, MovesOn
  <2>3. y.pc \notin {"refpage", "install", "spare"} \/ (Has(t) /\ y.ref = thr[t].ref) BY <1>5, <1>7
  <2> QED BY <1>1, <1>4, <1>7, <2>2, <2>3, ListsStay
<1>8. CASE va = 0 /\ have = 0 /\ Goto(t, [thr[t] EXCEPT !.pc = "undo"]) /\ UNCHANGED <<lists, kheaproots, live>>
  <2>1. PICK y : y = [thr[t] EXCEPT !.pc = "undo"] OBVIOUS
  <2>2. y \in Thr /\ y.pc = "undo" /\ y.page = thr[t].page /\ y.spare = thr[t].spare BY <1>4, <2>1 DEF Thr, PCs
  <2>3. Place(y, kheaproots) BY <1>3, <1>8, <2>2 DEF Place
  <2>4. Goto(t, y) BY <1>8, <2>1
  <2> QED BY <1>7, <1>8, <2>2, <2>3, <2>4
<1>9. CASE va # 0 /\ have # 0 /\ Goto(t, [thr[t] EXCEPT !.pc = "spare"]) /\ UNCHANGED <<lists, kheaproots, live>>
  <2>1. PICK y : y = [thr[t] EXCEPT !.pc = "spare"] OBVIOUS
  <2>2. y \in Thr /\ y.pc = "spare" /\ y.page = thr[t].page /\ y.spare = thr[t].spare /\ y.ref = thr[t].ref /\ y.sz = thr[t].sz
    BY <1>4, <2>1 DEF Thr, PCs
  <2>3. Place(y, kheaproots) BY <1>3, <1>9, <2>2 DEF Place
  <2>4. Goto(t, y) BY <1>9, <2>1
  <2> QED BY <1>7, <1>9, <2>2, <2>3, <2>4
<1>10. CASE va # 0 /\ have = 0 /\ kheaproots' = [kheaproots EXCEPT ![thr[t].ref[1]].page = va] /\ NewPage(t, thr[t].ref)
  BY <1>1, <1>10, InstallStep
<1>11. CASE va = 0 /\ have # 0 /\ NewPage(t, thr[t].ref) /\ kheaproots' = kheaproots
  <2>1. thr[t].spare \notin Pages BY <1>11 DEF Pages
  <2>2. PICK M2 : M2 = {} OBVIOUS
  <2>3. /\ thr[t].pc \in {"install", "spare"} /\ (thr[t].spare \in Pages => M2 = {thr[t].spare})
        /\ (thr[t].spare \notin Pages => M2 = {}) /\ pool' = pool \cup M2
    BY <1>1, <2>1, <2>2
  <2> QED BY <1>1, <1>11, <2>3, NewPageOnRoot
<1> QED BY <1>6, <1>8, <1>9, <1>10, <1>11

-----------------------------------------------------------------------------
(* kfree.                                                                  *)

\* What kfree finds on allbase: the reference of the block's page, if it is a
\* small one, and then it takes the block.
Found(b) == SelectInSeq(allbase, LAMBDA q : ref[q].page = PageOf(b.addr))

LEMMA KfreeFinds ==
  ASSUME HeapTypes, BlockInv, NEW b \in live, NEW i, i = Found(b)
  PROVE  /\ i = 0 => IsBig(b) /\ b.addr % PageSize = 0
         /\ i # 0 => /\ allbase[i] \in Listed /\ ~IsBig(b) /\ SmallIn(b, ref[allbase[i]])
                     /\ ~Misplaced(allbase[i], b.addr % PageSize)
<1> DEFINE I == {j \in 1..Len(allbase) : ref[allbase[j]].page = PageOf(b.addr)}
<1>1. allbase \in Seq(Refs) /\ DOMAIN allbase = 1..Len(allbase) BY DEF HeapTypes
<1>2. i = IF I # {} THEN Min(I) ELSE 0 BY DEF Found, SelectInSeq
<1>3. I \in SUBSET Nat BY <1>1
<1>4. ASSUME i = 0 PROVE IsBig(b) /\ b.addr % PageSize = 0
  <2>1. I = {}
    <3> SUFFICES ASSUME I # {} PROVE FALSE OBVIOUS
    <3>1. Min(I) \in I BY <1>3, MinExact
    <3>2. 0 \in I BY <1>2, <1>4, <3>1
    <3> QED BY <3>2
  <2>2. \A r \in Listed : ref[r].page # PageOf(b.addr) BY <1>1, <2>1 DEF Listed, Range
  <2> QED BY <2>2 DEF BlockInv, Blocks, SmallIn
<1>5. ASSUME i # 0 PROVE /\ allbase[i] \in Listed /\ ~IsBig(b) /\ SmallIn(b, ref[allbase[i]])
                         /\ ~Misplaced(allbase[i], b.addr % PageSize)
  <2>1. I # {} /\ i = Min(I) BY <1>2, <1>5
  <2>2. i \in I BY <1>3, <2>1, MinExact
  <2>3. PICK r : r = allbase[i] OBVIOUS
  <2>4. r \in Listed /\ ref[r].page = PageOf(b.addr) BY <1>1, <2>2, <2>3 DEF Listed, Range
  <2>5. ~IsBig(b) BY <2>4 DEF BlockInv, Blocks
  <2>6. SmallIn(b, ref[r]) BY <2>4, <2>5 DEF BlockInv, Blocks, SmallIn
  <2>7. ref[r] \in Ref BY <2>4, ListedRefs DEF HeapTypes
  <2>8. PICK f : f = ref[r].free OBVIOUS
  <2>9. f \in Seq(Nat) /\ ref[r].type \in Types BY <2>7, <2>8 DEF Ref
  <2>10. b.addr % PageSize \in Offsets(ref[r].type) /\ b.addr % PageSize \notin Range(f) BY <2>6, <2>8 DEF SmallIn
  <2>11. (b.addr % PageSize) % BlockSizes[ref[r].type] = 0 BY <2>9, <2>10, OffsetsExact
  <2>12. f # <<>> => Head(f) \in Range(f)
    <3> SUFFICES ASSUME f # <<>> PROVE Head(f) \in Range(f) OBVIOUS
    <3>1. Len(f) \in Nat /\ Len(f) # 0 /\ DOMAIN f = 1..Len(f) BY <2>9, EmptySeq
    <3>2. Head(f) = f[1] /\ 1 \in DOMAIN f BY <2>9, <3>1
    <3> QED BY <3>2 DEF Range
  <2>13. ~Misplaced(r, b.addr % PageSize) BY <2>8, <2>10, <2>11, <2>12 DEF Misplaced
  <2> QED BY <2>3, <2>4, <2>5, <2>6, <2>13
<1> QED BY <1>4, <1>5

\* A small block has no page of its own.
LEMMA SmallGoes ==
  ASSUME NEW b, ~IsBig(b), live' = live \ {b}
  PROVE  \A x, p : InBlock(x, p)' <=> InBlock(x, p)
BY BlocksKept

\* kfree of a big block: its run goes to the thread that frees it.
LEMMA KfreeBigStep ==
  ASSUME HeapIInv, NEW t \in Threads, NEW b \in live, thr[t].pc = "idle", IsBig(b), b.addr % PageSize = 0,
         live' = live \ {b}, stopped' = "no",
         Goto(t, [OutOfHeap EXCEPT !.pc = "freepage", !.page = PageOf(b.addr), !.sz = b.size]),
         UNCHANGED <<lists, kheaproots, pool, fails>>
  PROVE  HeapIInv'
<1>0. HeapTypes /\ BlockInv /\ RefInv /\ ThreadInv /\ OwnerInv BY DEF HeapIInv
<1>1. PICK va, M : va = PageOf(b.addr) /\ M = Run(va, PagesOf(b.size)) OBVIOUS
<1>2. va \in Pages /\ M \subseteq Pages
  <2>1. PageOf(b.addr) \in Pages /\ Run(PageOf(b.addr), PagesOf(b.size)) \subseteq Pages BY <1>0 DEF BlockInv, Blocks
  <2> QED BY <1>1, <2>1
<1>3. b \in Live /\ b.size \in Nat
  <2>1. b \in Live BY <1>0 DEF HeapTypes
  <2>2. b.size \in Requests BY <2>1 DEF Live
  <2> QED BY <2>1, <2>2, HeapAssumption
<1>4. PICK y : y = [OutOfHeap EXCEPT !.pc = "freepage", !.page = PageOf(b.addr), !.sz = b.size] OBVIOUS
<1>5. y \in Thr /\ y.pc = "freepage" /\ y.page = va /\ y.sz = b.size /\ y.spare = 0
  BY <1>1, <1>2, <1>3, <1>4 DEF OutOfHeap, Thr, PCs
<1>6. Goto(t, y) BY <1>4
<1>7. thr' \in [Threads -> Thr] /\ thr'[t] = y /\ \A u \in Threads : u # t => thr'[u] = thr[u]
  BY <1>0, <1>5, <1>6, GotoExact
<1>8. UNCHANGED <<ref, sizebases, allbase>> /\ Listed' = Listed /\ kheaproots' = kheaproots /\ pool' = pool
  BY DEF lists, Listed
<1>9. HeapTypes' BY <1>0, <1>7, <1>8 DEF HeapTypes
<1>10. BlockInv' BY <1>0, <1>8 DEF BlockInv, Blocks
<1>11. RefInv'
  <2>1. thr'[t].pc \notin {"refpage", "install", "spare"} BY <1>5, <1>7
  <2> QED BY <1>0, <1>7, <1>8, <2>1, RefsKept
<1>12. Place(thr[t], kheaproots) BY <1>0 DEF ThreadInv
<1>13. thr[t].page = 0 /\ thr[t].spare = 0 BY <1>12 DEF Place
<1>14. ThreadInv'
  <2>1. Run(y.page, PagesOf(y.sz)) \subseteq Pages BY <1>1, <1>2, <1>5
  <2>2. Place(thr'[t], kheaproots') BY <1>2, <1>5, <1>7, <2>1 DEF Place
  <2> QED BY <1>0, <1>7, <1>8, <2>2, PlacesKept
<1>15. Moved(M, "block", b, "freed", t)
  <2>1. \A p \in Pages : p # 0 BY DEF Pages
  <2>2. \A p : InBlock(b, p) <=> p \in M BY <1>1 DEF InBlock
  <2>3. \A p \in Pages : p \in M => Owned("block", b, p) BY <2>2 DEF Owned
  <2>4. \A x, p : InBlock(x, p)' <=> InBlock(x, p) /\ x # b BY DEF InBlock
  <2>5. \A x, p : (InHeap(x, p)' <=> InHeap(x, p)) /\ (InRoot(x, p)' <=> InRoot(x, p)) BY <1>8 DEF InHeap, InRoot
  <2>6. \A p \in Pages : \A x : (Brought(x, p)' <=> Brought(x, p)) /\ (Spare(x, p)' <=> Spare(x, p))
    BY <1>5, <1>7, <1>13, <2>1 DEF Brought, Spare
  <2>7. \A p \in Pages : \A x : Freed(x, p)' <=> Freed(x, p) \/ (x = t /\ p \in M) BY <1>1, <1>5, <1>7 DEF Freed
  <2>8. \A p \in Pages : \A k, x :
           Owned(k, x, p)' <=> \/ Owned(k, x, p) /\ ~(p \in M /\ k = "block" /\ x = b)
                               \/ p \in M /\ k = "freed" /\ x = t
    BY <1>8, <2>2, <2>4, <2>5, <2>6, <2>7 DEF Owned
  <2> QED BY <2>3, <2>8 DEF Moved
<1>16. OwnerInv' BY <1>0, <1>15, OwnersMove
<1>17. NeverRefused' BY DEF NeverRefused
<1> QED BY <1>9, <1>10, <1>11, <1>14, <1>16, <1>17 DEF HeapIInv

\* kfree of a block whose page has others in use.
LEMMA KfreeSmallStep ==
  ASSUME HeapIInv, NEW t \in Threads, NEW b \in live, NEW r \in Listed, thr[t].pc = "idle",
         ~IsBig(b), SmallIn(b, ref[r]), live' = live \ {b}, Puts(ref, r, b, ref'), stopped' = "no",
         Return(t), UNCHANGED <<kheaproots, sizebases, allbase, pool, fails>>,
         Len(ref'[r].free) < NumBlocks(ref[r].type)
  PROVE  HeapIInv'
<1>0. HeapTypes /\ BlockInv /\ RefInv /\ ThreadInv /\ OwnerInv BY DEF HeapIInv
<1>1. /\ RefMap(ref) /\ Listed \in SUBSET Refs /\ live \in SUBSET Live /\ Blocks(ref, Listed, live)
      /\ Len(ref[r].free) < NumBlocks(ref[r].type)
  BY <1>0, ListedRefs DEF HeapTypes, BlockInv, RefMap
<1>2. RefMap(ref') /\ Blocks(ref', Listed, live \ {b}) /\ Apart(ref, r, ref') /\ SamePlaces(ref, ref')
  BY ONLY <1>1, b \in live, r \in Listed, SmallIn(b, ref[r]), Puts(ref, r, b, ref'), PutBlock
<1>3. /\ \A q \in Refs : q # r => ref'[q] = ref[q]
      /\ \A q \in Refs : ref'[q].page = ref[q].page /\ ref'[q].type = ref[q].type
  BY <1>2 DEF Apart, SamePlaces
<1>4. Listed' = Listed BY DEF Listed
<1>5. Lists(ref', sizebases', allbase')
  <2>1. Lists(ref, sizebases, allbase) BY <1>0 DEF BlockInv
  <2>2. \A q \in Range(allbase) : ref'[q].type = ref[q].type BY <1>1, <1>3 DEF Listed
  <2> QED BY <2>1, <2>2 DEF Lists
<1>6. \A q \in Listed' : Len(ref'[q].free) < NumBlocks(ref'[q].type)
  <2> SUFFICES ASSUME NEW q \in Listed PROVE Len(ref'[q].free) < NumBlocks(ref'[q].type) BY <1>4
  <2>1. Len(ref[q].free) < NumBlocks(ref[q].type) BY <1>0 DEF BlockInv
  <2> QED BY <1>1, <1>3, <2>1
<1>7. BlockInv' BY <1>2, <1>4, <1>5, <1>6 DEF BlockInv
<1>8. Goto(t, OutOfHeap) /\ OutOfHeap \in Thr /\ OutOfHeap.pc = "idle" /\ OutOfHeap.page = 0 /\ OutOfHeap.spare = 0
      /\ Place(OutOfHeap, kheaproots')
  BY OutOfHeapExact DEF Return
<1>9. thr' \in [Threads -> Thr] /\ thr'[t] = OutOfHeap /\ \A u \in Threads : u # t => thr'[u] = thr[u]
  BY <1>0, <1>8, GotoExact
<1>10. HeapTypes' BY <1>0, <1>1, <1>2, <1>9 DEF HeapTypes, RefMap
<1>11. RefInv'
  <2>1. thr'[t].pc \notin {"refpage", "install", "spare"} BY <1>8, <1>9
  <2> QED BY <1>0, <1>4, <1>9, <2>1, RefsKept
<1>12. ThreadInv' BY <1>0, <1>8, <1>9, PlacesKept
<1>13. \A x, p : (InHeap(x, p)' <=> InHeap(x, p)) /\ (InBlock(x, p)' <=> InBlock(x, p))
  <2>1. \A x, p : InHeap(x, p)' <=> InHeap(x, p) BY <1>1, <1>3, <1>4 DEF InHeap
  <2> QED BY <2>1, SmallGoes
<1>14. OwnerInv'
  <2>1. Place(thr[t], kheaproots) BY <1>0 DEF ThreadInv
  <2>2. thr[t].pc # "freepage" /\ OutOfHeap.pc # "freepage" /\ OutOfHeap.page = thr[t].page
        /\ OutOfHeap.spare = thr[t].spare
    BY <1>8, <2>1 DEF Place
  <2> QED BY <1>0, <1>8, <1>13, <2>2, MovesOn
<1>15. NeverRefused' BY DEF NeverRefused
<1> QED BY <1>7, <1>10, <1>11, <1>12, <1>14, <1>15 DEF HeapIInv

\* freepageref: a root gives a mark back.
LEMMA UnmarkExact ==
  ASSUME HeapTypes, NEW r \in Refs, freepageref(r)
  PROVE  /\ kheaproots' \in [Roots -> Root]
         /\ \A q \in Roots : /\ kheaproots'[q].page = kheaproots[q].page
                             /\ kheaproots'[q].inuse \subseteq kheaproots[q].inuse
                             /\ q # r[1] => kheaproots'[q] = kheaproots[q]
         /\ \A q \in Refs : Marked(q) /\ q # r => Marked(q)'
<1>1. r[1] \in Roots BY RefParts
<1>2. kheaproots \in [Roots -> Root] /\ kheaproots[r[1]] \in Root BY <1>1 DEF HeapTypes
<1> DEFINE z == [kheaproots[r[1]] EXCEPT !.inuse = @ \ {r[2]}]
<1>3. kheaproots' = [kheaproots EXCEPT ![r[1]] = z] BY DEF freepageref
<1>4. z \in Root /\ z.page = kheaproots[r[1]].page /\ z.inuse = kheaproots[r[1]].inuse \ {r[2]}
  BY <1>2 DEF Root
<1> HIDE DEF z
<1>5. kheaproots' \in [Roots -> Root] /\ kheaproots'[r[1]] = z /\ \A q \in Roots : q # r[1] => kheaproots'[q] = kheaproots[q]
  BY <1>1, <1>2, <1>3, <1>4
<1>6. ASSUME NEW q \in Refs, Marked(q), q # r PROVE Marked(q)'
  <2>1. q[1] \in Roots /\ (q[1] = r[1] => q[2] # r[2])
    <3>1. q = <<q[1], q[2]>> /\ r = <<r[1], r[2]>> /\ q[1] \in Roots BY RefParts
    <3> QED BY <1>6, <3>1
  <2>2. CASE q[1] = r[1] BY <1>4, <1>5, <1>6, <2>1, <2>2 DEF Marked
  <2>3. CASE q[1] # r[1] BY <1>5, <1>6, <2>1, <2>3 DEF Marked
  <2> QED BY <2>2, <2>3
<1> QED BY <1>4, <1>5, <1>6

\* The KASSERT of freepageref.
Asserts(r) == stopped' = IF PassedRootsEmpty(r) THEN "no" ELSE "lost references"

\* The last block of a page came back: the page leaves the heap.
LEMMA KfreePageStep ==
  ASSUME HeapIInv, NEW t \in Threads, NEW b \in live, NEW r \in Listed, thr[t].pc = "idle",
         ~IsBig(b), SmallIn(b, ref[r]), live' = live \ {b}, Puts(ref, r, b, ref'),
         Len(ref'[r].free) = NumBlocks(ref[r].type), remove_lists(r), freepageref(r),
         Asserts(r),
         Goto(t, [OutOfHeap EXCEPT !.pc = "freepage", !.page = PageOf(b.addr), !.sz = 1]),
         UNCHANGED <<pool, fails>>
  PROVE  HeapIInv'
<1>0. HeapTypes /\ BlockInv /\ RefInv /\ ThreadInv /\ OwnerInv BY DEF HeapIInv
<1>1. /\ RefMap(ref) /\ Listed \in SUBSET Refs /\ live \in SUBSET Live /\ Blocks(ref, Listed, live)
      /\ Len(ref[r].free) < NumBlocks(ref[r].type)
  BY <1>0, ListedRefs DEF HeapTypes, BlockInv, RefMap
<1>2. RefMap(ref') /\ Blocks(ref', Listed \ {r}, live \ {b}) /\ Apart(ref, r, ref') /\ SamePlaces(ref, ref')
  <2>1. b \in live /\ r \in Listed /\ SmallIn(b, ref[r]) /\ Puts(ref, r, b, ref')
        /\ Len(ref'[r].free) = NumBlocks(ref[r].type)
    OBVIOUS
  <2> QED BY ONLY <1>1, <2>1, PutBlock
<1>3. /\ \A q \in Refs : q # r => ref'[q] = ref[q]
      /\ \A q \in Refs : ref'[q].page = ref[q].page /\ ref'[q].type = ref[q].type
  BY <1>2 DEF Apart, SamePlaces
<1>4. r \in Refs /\ ref[r] \in Ref BY <1>1 DEF RefMap
<1>5. PICK s : s = ref[r].type OBVIOUS
<1>6. s \in Types /\ PageOf(b.addr) = ref[r].page BY <1>4, <1>5 DEF Ref, SmallIn
<1>7. /\ sizebases' \in [Types -> Seq(Refs)] /\ allbase' \in Seq(Refs)
      /\ Listed' = Listed \ {r} /\ Lists(ref', sizebases', allbase')
  <2>1. Leaves(sizebases, allbase, r, s, sizebases', allbase') BY <1>5 DEF remove_lists, Leaves
  <2>2. sizebases \in [Types -> Seq(Refs)] /\ allbase \in Seq(Refs) /\ Lists(ref, sizebases, allbase)
    BY <1>0 DEF HeapTypes, BlockInv
  <2>3. \A q \in Range(allbase) : ref'[q].type = ref[q].type BY <1>1, <1>3 DEF Listed
  <2>4. r \in Range(allbase) BY DEF Listed
  <2> QED BY ONLY <1>5, <1>6, <2>1, <2>2, <2>3, <2>4, LeaveLists DEF Listed
<1>8. \A q \in Listed' : Len(ref'[q].free) < NumBlocks(ref'[q].type) BY <1>0, <1>1, <1>3, <1>7 DEF BlockInv
<1>9. BlockInv' BY <1>2, <1>7, <1>8 DEF BlockInv
<1>10. PICK va \in Pages : va = ref[r].page
  <2>1. PageOK(ref[r]) BY <1>1 DEF Blocks
  <2> QED BY <2>1 DEF PageOK
<1>11. PICK y : y = [OutOfHeap EXCEPT !.pc = "freepage", !.page = PageOf(b.addr), !.sz = 1] OBVIOUS
<1>12. y \in Thr /\ y.pc = "freepage" /\ y.page = va /\ y.sz = 1 /\ y.spare = 0
  BY <1>6, <1>10, <1>11 DEF OutOfHeap, Thr, PCs
<1>13. Goto(t, y) BY <1>11
<1>14. thr' \in [Threads -> Thr] /\ thr'[t] = y /\ \A u \in Threads : u # t => thr'[u] = thr[u]
  BY <1>0, <1>12, <1>13, GotoExact
<1>15. /\ kheaproots' \in [Roots -> Root]
       /\ \A q \in Roots : /\ kheaproots'[q].page = kheaproots[q].page
                           /\ kheaproots'[q].inuse \subseteq kheaproots[q].inuse
                           /\ q # r[1] => kheaproots'[q] = kheaproots[q]
       /\ \A q \in Refs : Marked(q) /\ q # r => Marked(q)'
  BY <1>0, <1>4, UnmarkExact
<1>16. r[1] \in Roots /\ Marked(r) /\ kheaproots[r[1]].page # 0 BY <1>0, <1>4, RefParts DEF RefInv
<1>17. HeapTypes'
  <2>1. ref' \in [Refs -> Ref] /\ live' \in SUBSET Live BY <1>1, <1>2 DEF RefMap
  <2> QED BY <1>0, <1>7, <1>14, <1>15, <2>1 DEF HeapTypes
<1>18. RefInv'
  <2>1. \A q \in Listed' : Marked(q)' /\ kheaproots'[q[1]].page # 0
    <3> SUFFICES ASSUME NEW q \in Listed, q # r PROVE Marked(q)' /\ kheaproots'[q[1]].page # 0 BY <1>7
    <3>1. q \in Refs /\ q[1] \in Roots BY <1>1, RefParts
    <3>2. Marked(q) /\ kheaproots[q[1]].page # 0 BY <1>0 DEF RefInv
    <3> QED BY <1>15, <3>1, <3>2
  <2>2. \A u \in Threads : Has(u)' => u # t /\ Has(u) /\ thr'[u].ref = thr[u].ref BY <1>12, <1>14 DEF Has
  <2>3. \A u \in Threads : Has(u)' => thr'[u].ref \in Refs \ Listed' /\ Marked(thr[u].ref)'
    <3> SUFFICES ASSUME NEW u \in Threads, Has(u)' PROVE thr'[u].ref \in Refs \ Listed' /\ Marked(thr[u].ref)'
      OBVIOUS
    <3>1. PICK q : q = thr[u].ref OBVIOUS
    <3>2. Has(u) /\ thr'[u].ref = q BY <2>2, <3>1
    <3>3. q \in Refs \ Listed /\ Marked(q) BY <1>0, <3>1, <3>2 DEF RefInv
    <3>4. Marked(q)' BY <1>15, <3>3
    <3>5. Marked(thr[u].ref)' BY <3>2, <3>4 DEF Marked
    <3> QED BY <1>7, <3>2, <3>3, <3>5
  <2>4. \A u, v \in Threads : Has(u)' /\ Has(v)' /\ thr'[u].ref = thr'[v].ref => u = v BY <1>0, <2>2 DEF RefInv
  <2>5. Ordered(kheaproots')
    <3> SUFFICES ASSUME NEW p \in Roots, NEW q \in Roots, q < p, kheaproots'[p].inuse # {}, kheaproots'[q].page = 0
                 PROVE  kheaproots'[q].inuse = 0..RefsPerPage-1
      BY DEF Ordered
    <3>1. kheaproots[p].inuse # {} /\ kheaproots[q].page = 0 /\ q # r[1] BY <1>15, <1>16
    <3>2. kheaproots[q].inuse = 0..RefsPerPage-1 BY <1>0, <3>1, OrderedExact DEF Ordered
    <3> QED BY <1>15, <3>1, <3>2
  <2> QED BY <2>1, <2>3, <2>4, <2>5 DEF RefInv, Ordered
<1>19. ThreadInv'
  <2>1. y.sz \in Nat /\ va \in Nat BY <1>12, HeapAssumption DEF Pages
  <2>2. Run(y.page, PagesOf(y.sz)) = {va} BY <1>12, <2>1, PagesOfExact, RunExact
  <2>3. Place(thr'[t], kheaproots') BY <1>12, <1>14, <2>2 DEF Place
  <2> QED BY <1>0, <1>14, <1>15, <2>3, PlacesKept
<1>20. Moved({va}, "heap", r, "freed", t)
  <2>1. \A p \in Pages : p # 0 BY HeapAssumption DEF Pages
  <2>2. \A p \in Pages : p \in {va} => Owned("heap", r, p) BY <1>10 DEF Owned, InHeap
  <2>3. \A x, p : InHeap(x, p)' <=> InHeap(x, p) /\ x # r BY <1>1, <1>3, <1>7 DEF InHeap
  <2>4. \A p : InHeap(r, p) <=> p = va BY <1>10 DEF InHeap
  <2>5. \A x, p : InRoot(x, p)' <=> InRoot(x, p) BY <1>15 DEF InRoot
  <2>6. \A x, p : InBlock(x, p)' <=> InBlock(x, p) BY SmallGoes
  <2>7. thr[t].page = 0 /\ thr[t].spare = 0
    <3>1. Place(thr[t], kheaproots) BY <1>0 DEF ThreadInv
    <3> QED BY <3>1 DEF Place
  <2>8. \A p \in Pages : \A x : (Brought(x, p)' <=> Brought(x, p)) /\ (Spare(x, p)' <=> Spare(x, p))
    BY <1>12, <1>14, <2>1, <2>7 DEF Brought, Spare
  <2>9. Run(y.page, PagesOf(y.sz)) = {va}
    <3>1. va \in Nat /\ 1 \in Nat BY HeapAssumption DEF Pages
    <3> QED BY <1>12, <3>1, PagesOfExact, RunExact
  <2>10. \A p \in Pages : \A x : Freed(x, p)' <=> Freed(x, p) \/ (x = t /\ p \in {va})
    BY <1>12, <1>14, <2>9 DEF Freed
  <2>11. \A p \in Pages : \A k, x :
           Owned(k, x, p)' <=> \/ Owned(k, x, p) /\ ~(p \in {va} /\ k = "heap" /\ x = r)
                               \/ p \in {va} /\ k = "freed" /\ x = t
    BY <2>3, <2>4, <2>5, <2>6, <2>8, <2>10 DEF Owned
  <2> QED BY <2>2, <2>11 DEF Moved
<1>21. OwnerInv' BY <1>0, <1>20, OwnersMove
<1>22. NeverRefused'
  <2>1. CASE PassedRootsEmpty(r) BY <2>1 DEF NeverRefused, Asserts
  <2>2. CASE ~PassedRootsEmpty(r)
    <3>1. stopped' = "lost references" BY <2>2 DEF Asserts
    <3>2. PICK q \in 0..r[1]-1 : kheaproots[q].page = 0 /\ kheaproots[q].inuse # {} BY <2>2 DEF PassedRootsEmpty
    <3>3. q \in Roots /\ q < r[1] /\ q # r[1] BY <1>16, HeapAssumption DEF Roots
    <3>4. kheaproots[r[1]].inuse # {} BY <1>16 DEF Marked
    <3>5. kheaproots[q].inuse = 0..RefsPerPage-1 BY <1>0, <1>16, <3>2, <3>3, <3>4, OrderedExact DEF Ordered
    <3>6. kheaproots'[q] = kheaproots[q] /\ kheaproots[q] \in Root BY <1>0, <1>15, <3>3 DEF HeapTypes
    <3>7. kheaproots'[q] = [page |-> 0, inuse |-> 0..RefsPerPage-1] BY <3>2, <3>5, <3>6 DEF Root
    <3> QED BY <3>1, <3>3, <3>7 DEF NeverRefused
  <2> QED BY <2>1, <2>2
<1> QED BY <1>9, <1>17, <1>18, <1>19, <1>21, <1>22 DEF HeapIInv

\* kfree keeps the invariant, and the branches that stop the kernel are not taken.
LEMMA KfreeStep ==
  ASSUME HeapIInv, NEW t \in Threads, NEW b \in live, kfree(t, b)
  PROVE  HeapIInv'
<1>0. HeapTypes /\ BlockInv BY DEF HeapIInv
<1>1. thr[t].pc = "idle" /\ stopped = "no" /\ live' = live \ {b} /\ UNCHANGED <<pool, fails>>
  BY DEF kfree, At
<1> DEFINE i == SelectInSeq(allbase, LAMBDA q : ref[q].page = PageOf(b.addr))
           r == allbase[i]
           offset == b.addr % PageSize
           free == <<offset>> \o ref[r].free
           freepage == [OutOfHeap EXCEPT !.pc = "freepage", !.page = PageOf(b.addr)]
<1>2. \/ /\ i = 0
         /\ stopped' = IF offset = 0 THEN "no" ELSE "bad free"
         /\ Goto(t, [freepage EXCEPT !.sz = b.size])
         /\ UNCHANGED <<lists, kheaproots>>
      \/ /\ i # 0
         /\ Misplaced(r, offset)
      \/ /\ i # 0
         /\ ref' = [ref EXCEPT ![r].free = free]
         /\ IF Len(free) < NumBlocks(ref[r].type)
            THEN /\ Return(t)
                 /\ UNCHANGED <<kheaproots, sizebases, allbase, stopped>>
            ELSE /\ remove_lists(r)
                 /\ stopped' = IF PassedRootsEmpty(r) THEN "no" ELSE "lost references"
                 /\ freepageref(r)
                 /\ Goto(t, [freepage EXCEPT !.sz = 1])
  BY DEF kfree
<1>3. PICK j : j = i OBVIOUS
<1>4. /\ j = 0 => IsBig(b) /\ offset = 0
      /\ j # 0 => /\ allbase[j] \in Listed /\ ~IsBig(b) /\ SmallIn(b, ref[allbase[j]])
                  /\ ~Misplaced(allbase[j], offset)
  <2>1. j = Found(b) BY <1>3 DEF Found
  <2> QED BY <1>0, <2>1, KfreeFinds
<1>5. PICK q : q = allbase[j] OBVIOUS
<1>6. r = q BY <1>3, <1>5
<1>7. [freepage EXCEPT !.sz = b.size] = [OutOfHeap EXCEPT !.pc = "freepage", !.page = PageOf(b.addr), !.sz = b.size]
      /\ [freepage EXCEPT !.sz = 1] = [OutOfHeap EXCEPT !.pc = "freepage", !.page = PageOf(b.addr), !.sz = 1]
  BY DEF OutOfHeap
<1>8. PICK f : f = <<offset>> \o ref[q].free OBVIOUS
<1>9. free = f BY <1>6, <1>8
<1> HIDE DEF i, r, free, freepage
<1>10. CASE /\ i = 0
            /\ stopped' = IF offset = 0 THEN "no" ELSE "bad free"
            /\ Goto(t, [freepage EXCEPT !.sz = b.size])
            /\ UNCHANGED <<lists, kheaproots>>
  <2>1. IsBig(b) /\ offset = 0 BY <1>3, <1>4, <1>10
  <2>2. stopped' = "no" BY <1>10, <2>1
  <2>3. Goto(t, [OutOfHeap EXCEPT !.pc = "freepage", !.page = PageOf(b.addr), !.sz = b.size]) BY <1>7, <1>10
  <2>4. UNCHANGED <<lists, kheaproots, pool, fails>> BY <1>1, <1>10
  <2> QED BY <1>1, <2>1, <2>2, <2>3, <2>4, KfreeBigStep
<1>11. CASE i # 0 /\ Misplaced(r, offset) BY <1>3, <1>4, <1>5, <1>6, <1>11
<1>12. CASE /\ i # 0
            /\ ref' = [ref EXCEPT ![r].free = free]
            /\ IF Len(free) < NumBlocks(ref[r].type)
               THEN /\ Return(t)
                    /\ UNCHANGED <<kheaproots, sizebases, allbase, stopped>>
               ELSE /\ remove_lists(r)
                    /\ stopped' = IF PassedRootsEmpty(r) THEN "no" ELSE "lost references"
                    /\ freepageref(r)
                    /\ Goto(t, [freepage EXCEPT !.sz = 1])
  <2>1. q \in Listed /\ ~IsBig(b) /\ SmallIn(b, ref[q]) BY <1>3, <1>4, <1>5, <1>12
  <2>2. ref' = [ref EXCEPT ![q].free = f] BY <1>6, <1>9, <1>12
  <2>3. Puts(ref, q, b, ref') BY <1>8, <2>2 DEF Puts
  <2>4. ref'[q].free = f /\ Len(f) \in Nat /\ Len(f) <= NumBlocks(ref[q].type) /\ NumBlocks(ref[q].type) \in Nat
    <3>1. /\ RefMap(ref) /\ Listed \in SUBSET Refs /\ live \in SUBSET Live /\ Blocks(ref, Listed, live)
          /\ Len(ref[q].free) < NumBlocks(ref[q].type)
      BY <1>0, <2>1, ListedRefs DEF HeapTypes, BlockInv, RefMap
    <3>2. b \in live OBVIOUS
    <3>3. ref'[q].free = f /\ Len(ref'[q].free) \in Nat /\ Len(ref'[q].free) <= NumBlocks(ref[q].type)
      BY ONLY <1>8, <2>1, <2>3, <3>1, <3>2, PutBlock
    <3>4. ref[q].type \in Types BY <2>1, <3>1 DEF RefMap, Ref
    <3> QED BY <3>3, <3>4, OffsetsExact
  <2>5. CASE Len(f) < NumBlocks(ref[q].type)
    <3>1. Return(t) /\ UNCHANGED <<kheaproots, sizebases, allbase, stopped>> BY <1>6, <1>9, <1>12, <2>5
    <3>2. stopped' = "no" /\ UNCHANGED <<kheaproots, sizebases, allbase, pool, fails>> BY <1>1, <3>1
    <3> QED BY <1>1, <2>1, <2>3, <2>4, <2>5, <3>1, <3>2, KfreeSmallStep
  <2>6. CASE ~(Len(f) < NumBlocks(ref[q].type))
    <3>1. /\ remove_lists(q) /\ freepageref(q)
          /\ stopped' = IF PassedRootsEmpty(q) THEN "no" ELSE "lost references"
          /\ Goto(t, [freepage EXCEPT !.sz = 1])
      BY <1>6, <1>9, <1>12, <2>6
    <3>2. Goto(t, [OutOfHeap EXCEPT !.pc = "freepage", !.page = PageOf(b.addr), !.sz = 1]) BY <1>7, <3>1
    <3>3. Len(ref'[q].free) = NumBlocks(ref[q].type) BY <2>4, <2>6
    <3>4. Asserts(q) BY <3>1 DEF Asserts
    <3> QED BY <1>1, <2>1, <2>3, <3>1, <3>2, <3>3, <3>4, KfreePageStep
  <2> QED BY <2>5, <2>6
<1> QED BY <1>2, <1>10, <1>11, <1>12

-----------------------------------------------------------------------------
(* The invariant holds.                                                    *)

\* The heap starts with every page in the pool.
LEMMA InitExact == HeapInit => HeapIInv
<1> SUFFICES ASSUME HeapInit PROVE HeapIInv OBVIOUS
<1> USE DEF HeapInit
<1>1. HeapTypes
  <2>1. 1 \in Types BY HeapAssumption, EmptySeq DEF Types
  <2>2. NoPage \in Ref BY <2>1 DEF NoPage, Ref
  <2>3. ref \in [Refs -> Ref] BY <2>2
  <2>4. thr \in [Threads -> Thr] BY OutOfHeapExact
  <2>5. kheaproots \in [Roots -> Root] BY DEF Root
  <2>6. sizebases \in [Types -> Seq(Refs)] /\ allbase \in Seq(Refs) OBVIOUS
  <2>7. pool \in SUBSET Pages /\ live \in SUBSET Live OBVIOUS
  <2>8. fails \in 0..MaxFail BY HeapAssumption
  <2> QED BY <2>3, <2>4, <2>5, <2>6, <2>7, <2>8 DEF HeapTypes
<1>2. Listed = {} /\ \A s \in Types : Range(sizebases[s]) = {} BY DEF Listed, Range
<1>3. BlockInv
  <2>1. IsInjective(allbase) /\ \A s \in Types : IsInjective(sizebases[s]) BY DEF IsInjective
  <2>2. Lists(ref, sizebases, allbase) BY <1>2, <2>1 DEF Lists, Listed
  <2>3. Blocks(ref, Listed, live) BY <1>2 DEF Blocks
  <2> QED BY <1>2, <2>2, <2>3 DEF BlockInv
<1>4. RefInv
  <2>1. \A t \in Threads : ~Has(t) BY OutOfHeapExact DEF Has
  <2>2. \A p \in Roots : kheaproots[p].inuse = {} OBVIOUS
  <2> QED BY <1>2, <2>1, <2>2 DEF RefInv
<1>5. ThreadInv BY OutOfHeapExact DEF ThreadInv
<1>6. OwnerInv
  <2> SUFFICES ASSUME NEW p \in Pages
               PROVE  \E k, x : Owned(k, x, p) /\ \A l, y : Owned(l, y, p) => l = k /\ y = x
    BY DEF OwnerInv
  <2>1. p # 0 BY HeapAssumption DEF Pages
  <2>2. Owned("pool", 0, p) BY DEF Owned
  <2>3. \A y : ~InHeap(y, p) /\ ~InBlock(y, p) BY <1>2 DEF InHeap, InBlock
  <2>4. \A y : ~InRoot(y, p) BY <2>1 DEF InRoot
  <2>5. \A y : ~Brought(y, p) /\ ~Spare(y, p) /\ ~Freed(y, p) BY <2>1, OutOfHeapExact DEF Brought, Spare, Freed
  <2>6. \A l, y : Owned(l, y, p) => l = "pool" /\ y = 0 BY <2>3, <2>4, <2>5 DEF Owned
  <2> QED BY <2>2, <2>6
<1>7. NeverRefused BY DEF NeverRefused
<1> QED BY <1>1, <1>3, <1>4, <1>5, <1>6, <1>7 DEF HeapIInv

\* A step that leaves the heap alone keeps the invariant.
LEMMA StutterExact == HeapIInv /\ UNCHANGED heapvars => HeapIInv'
<1> SUFFICES ASSUME HeapIInv, UNCHANGED heapvars PROVE HeapIInv' OBVIOUS
<1> USE DEF heapvars
<1>1. HeapTypes' BY DEF HeapIInv, HeapTypes
<1>2. Listed' = Listed BY DEF Listed
<1>3. BlockInv' BY <1>2 DEF HeapIInv, BlockInv
<1>4. RefInv' BY <1>2 DEF HeapIInv, RefInv, Has, Marked
<1>5. ThreadInv' BY DEF HeapIInv, ThreadInv
<1>6. OwnerInv'
  <2>1. \A k, x, p : Owned(k, x, p)' <=> Owned(k, x, p)
    BY <1>2 DEF Owned, InHeap, InRoot, InBlock, Brought, Spare, Freed
  <2> QED BY <2>1, OwnersStay DEF HeapIInv
<1>7. NeverRefused' BY DEF HeapIInv, NeverRefused
<1> QED BY <1>1, <1>3, <1>4, <1>5, <1>6, <1>7 DEF HeapIInv

\* HeapIInv holds always: whatever the threads do between two operations on
\* kmalloc_spinlock, every page has one owner, the lists are ordered sets of
\* the same references, and each block a caller holds is a used one of its page.
THEOREM HeapInvariant == HeapSpec => []HeapIInv
<1>1. ASSUME HeapIInv, [HeapNext]_heapvars PROVE HeapIInv'
  <2>1. CASE UNCHANGED heapvars BY <1>1, <2>1, StutterExact
  <2>2. CASE HeapNext
    <3>1. PICK t \in Threads : \/ \E sz \in Requests : kmalloc(t, sz)
                               \/ KmallocBig(t) \/ SubpageGetPage(t) \/ allocpageref(t)
                               \/ GetRefPage(t) \/ allocpagerefpage(t) \/ DropSpare(t) \/ SubpageUndo(t)
                               \/ \E b \in live : kfree(t, b)
                               \/ free_kpages(t)
      BY <2>2 DEF HeapNext
    <3>2. CASE \E sz \in Requests : kmalloc(t, sz) BY <1>1, <3>2, KmallocStep
    <3>3. CASE KmallocBig(t) BY <1>1, <3>3, KmallocBigStep
    <3>4. CASE SubpageGetPage(t) BY <1>1, <3>4, SubpageGetPageStep
    <3>5. CASE allocpageref(t) BY <1>1, <3>5, AllocpagerefStep
    <3>6. CASE GetRefPage(t) BY <1>1, <3>6, GetRefPageStep
    <3>7. CASE allocpagerefpage(t) BY <1>1, <3>7, AllocpagerefpageStep
    <3>8. CASE DropSpare(t) BY <1>1, <3>8, DropSpareStep
    <3>9. CASE SubpageUndo(t) BY <1>1, <3>9, SubpageUndoStep
    <3>10. CASE \E b \in live : kfree(t, b) BY <1>1, <3>10, KfreeStep
    <3>11. CASE free_kpages(t) BY <1>1, <3>11, FreeKpagesStep
    <3> QED BY <3>1, <3>2, <3>3, <3>4, <3>5, <3>6, <3>7, <3>8, <3>9, <3>10, <3>11
  <2> QED BY <1>1, <2>1, <2>2
<1> QED BY <1>1, InitExact, PTL DEF HeapSpec

-----------------------------------------------------------------------------
(* What the invariant says: no byte is handed out twice.                   *)

\* The bytes of a block lie in their page, and the offsets tell them apart.
LEMMA InSpan ==
  ASSUME NEW p \in Nat, NEW s \in Types, NEW o \in Offsets(s),
         NEW z \in Addr(p, o)..Addr(p, o)+BlockSizes[s]-1
  PROVE  PageOf(z) = p /\ z % PageSize \in o..o+BlockSizes[s]-1
<1>1. PICK w \in 1..PageSize : w = BlockSizes[s] BY OffsetsExact
<1>2. o \in 0..PageSize-1 /\ o + w <= PageSize BY <1>1, OffsetsExact
<1>3. PICK a \in Nat : a = Addr(p, 0)
  <2>1. 0 \in 0..PageSize-1 BY HeapAssumption, <1>2
  <2> QED BY <2>1, AddrExact
<1>4. \A d \in Nat : Addr(p, d) = a + d
  <2>1. p * PageSize \in Nat BY HeapAssumption, <1>1
  <2> QED BY <1>3, <2>1 DEF Addr
<1>5. PICK d \in 0..PageSize-1 : z = Addr(p, d) /\ d \in o..o+w-1
  <2>1. z \in Int /\ a + o <= z /\ z <= a + o + w - 1 BY <1>1, <1>2, <1>3, <1>4
  <2>2. PICK g \in Nat : g = PageSize BY HeapAssumption
  <2>3. o \in 0..g-1 /\ o + w <= g /\ w \in Nat BY <1>1, <1>2, <2>2
  <2>4. z - a \in 0..g-1 /\ z - a \in o..o+w-1 /\ a + (z - a) = z BY ONLY <2>1, <2>3, a \in Nat, g \in Nat
  <2> QED BY <1>4, <2>2, <2>4
<1>6. PageOf(z) = p /\ z % PageSize = d BY <1>5, AddrExact
<1> QED BY <1>1, <1>5, <1>6

\* The bytes of a big block lie on the pages it has.
LEMMA InRun ==
  ASSUME NEW p \in Nat, NEW n \in Nat, NEW z \in Addr(p, 0)..Addr(p, 0)+n-1
  PROVE  PageOf(z) \in Run(p, PagesOf(n))
<1>1. PICK w \in Nat \ {0} : w = PageSize BY HeapAssumption
<1>2. PICK k \in Nat : k = PagesOf(n) /\ n <= k * w BY <1>1, PagesOfExact
<1>3. p * w \in Nat BY <1>1
<1>4. z \in Nat /\ p * w <= z /\ z <= p * w + n - 1 BY <1>1, <1>3 DEF Addr
<1>5. PICK q \in Nat, o \in 0..w-1 : q = PageOf(z) /\ z = q * w + o
  <2>1. z \div w \in Nat /\ z % w \in 0..w-1 /\ z = (z \div w) * w + (z % w) BY <1>1, <1>4, DivMod
  <2>2. PageOf(z) = z \div w BY <1>1 DEF PageOf
  <2> QED BY <2>1, <2>2
<1>6. q * w \in Nat /\ k * w \in Nat OBVIOUS
<1>7. ~(q + 1 <= p)
  <2> SUFFICES ASSUME q + 1 <= p PROVE FALSE OBVIOUS
  <2>1. (q + 1) * w <= p * w BY Mul
  <2>2. (q + 1) * w = q * w + w OBVIOUS
  <2> QED BY <1>3, <1>4, <1>5, <1>6, <2>1, <2>2
<1>8. ~(p + k <= q)
  <2> SUFFICES ASSUME p + k <= q PROVE FALSE OBVIOUS
  <2>1. (p + k) * w <= q * w BY Mul
  <2>2. (p + k) * w = p * w + k * w OBVIOUS
  <2> QED BY <1>2, <1>3, <1>4, <1>5, <1>6, <2>1, <2>2
<1>9. q \in p..p+k-1 BY <1>7, <1>8
<1> QED BY <1>2, <1>5, <1>9 DEF Run

\* Where the bytes of a block a caller holds are: on the page of its reference,
\* at an offset that is not free, or on the pages of its run.
LEMMA BytesExact ==
  ASSUME HeapTypes, BlockInv, NEW b \in live, NEW z \in Bytes(b)
  PROVE  /\ IsBig(b) => PageOf(z) \in Pages /\ InBlock(b, PageOf(z))
         /\ ~IsBig(b) => \E r \in Listed :
              /\ SmallIn(b, ref[r]) /\ InHeap(r, PageOf(z)) /\ PageOf(z) \in Pages
              /\ z % PageSize \in (b.addr % PageSize)..(b.addr % PageSize)+BlockSizes[ref[r].type]-1
<1>0. b \in Live BY DEF HeapTypes
<1>1. b.addr \in Nat /\ b.size \in Nat BY <1>0, RequestsExact DEF Live
<1>2. z \in b.addr..b.addr+b.size-1 BY DEF Bytes
<1>3. PICK p \in Nat, o \in 0..PageSize-1 : p = PageOf(b.addr) /\ o = b.addr % PageSize /\ b.addr = Addr(p, o)
  BY <1>1, PageAndOffset
<1>4. CASE IsBig(b)
  <2>1. o = 0 /\ Run(p, PagesOf(b.size)) \subseteq Pages BY <1>3, <1>4 DEF BlockInv, Blocks
  <2>2. z \in Addr(p, 0)..Addr(p, 0)+b.size-1 BY <1>2, <1>3, <2>1
  <2>3. PageOf(z) \in Run(p, PagesOf(b.size)) BY <1>1, <2>2, InRun
  <2> QED BY <1>3, <1>4, <2>1, <2>3 DEF InBlock
<1>5. CASE ~IsBig(b)
  <2>1. PICK r \in Listed : SmallIn(b, ref[r]) BY <1>5 DEF BlockInv, Blocks
  <2>2. PICK s : s = ref[r].type OBVIOUS
  <2>3. s \in Types
    <3>1. ref[r] \in Ref BY ListedRefs DEF HeapTypes
    <3> QED BY <2>2, <3>1 DEF Ref
  <2>4. ref[r].page = p /\ o \in Offsets(s) /\ b.size <= BlockSizes[s] BY <1>3, <2>1, <2>2 DEF SmallIn
  <2>5. BlockSizes[s] \in Nat BY <2>3, OffsetsExact
  <2>6. Addr(p, o) \in Nat BY <1>1, <1>3
  <2>7. z \in Addr(p, o)..Addr(p, o)+BlockSizes[s]-1 BY <1>1, <1>2, <1>3, <2>4, <2>5, <2>6
  <2>8. PageOf(z) = p /\ z % PageSize \in o..o+BlockSizes[s]-1 BY <2>3, <2>4, <2>7, InSpan
  <2>9. p \in Pages BY <1>3 DEF BlockInv, Blocks
  <2>10. InHeap(r, PageOf(z)) BY <2>4, <2>8 DEF InHeap
  <2> QED BY <1>3, <1>5, <2>1, <2>2, <2>8, <2>9, <2>10
<1> QED BY <1>4, <1>5

\* A page of the heap is no block's, and has one reference.
LEMMA HeapPages ==
  ASSUME OwnerInv, NEW p \in Pages
  PROVE  /\ \A r, b : ~(InHeap(r, p) /\ InBlock(b, p))
         /\ \A r, q : InHeap(r, p) /\ InHeap(q, p) => r = q
         /\ \A a, b : InBlock(a, p) /\ InBlock(b, p) => a = b
<1>1. PICK k, x : \A l, y : Owned(l, y, p) => l = k /\ y = x BY DEF OwnerInv
<1>2. \A r : InHeap(r, p) => k = "heap" /\ r = x
  <2> SUFFICES ASSUME NEW r, InHeap(r, p) PROVE k = "heap" /\ r = x OBVIOUS
  <2>1. Owned("heap", r, p) BY DEF Owned
  <2> QED BY <1>1, <2>1
<1>3. \A b : InBlock(b, p) => k = "block" /\ b = x
  <2> SUFFICES ASSUME NEW b, InBlock(b, p) PROVE k = "block" /\ b = x OBVIOUS
  <2>1. Owned("block", b, p) BY DEF Owned
  <2> QED BY <1>1, <2>1
<1> QED BY <1>2, <1>3

\* Different offsets of a page have different bytes.
LEMMA SpansApart ==
  ASSUME NEW s \in Types, NEW o \in Offsets(s), NEW m \in Offsets(s), NEW z,
         z \in o..o+BlockSizes[s]-1, z \in m..m+BlockSizes[s]-1
  PROVE  o = m
<1>1. PICK w \in 1..PageSize : w = BlockSizes[s] BY OffsetsExact
<1>2. o \in 0..PageSize-1 /\ m \in 0..PageSize-1 BY OffsetsExact
<1>3. (o < m => o + w <= m) /\ (m < o => m + w <= o) BY <1>1, OffsetsExact
<1>4. z \in o..o+w-1 /\ z \in m..m+w-1 BY <1>1
<1> QED BY ONLY <1>1, <1>2, <1>3, <1>4, HeapAssumption

\* Two blocks with a byte in common are on one page, which has one
\* reference, at one offset of it.
LEMMA DisjointExact == HeapIInv => BlocksDisjoint
<1> SUFFICES ASSUME HeapIInv PROVE BlocksDisjoint OBVIOUS
<1>0. HeapTypes /\ BlockInv /\ OwnerInv BY DEF HeapIInv
<1>1. ASSUME NEW a \in live, NEW b \in live, a # b PROVE Bytes(a) \cap Bytes(b) = {}
  <2> SUFFICES ASSUME NEW z \in Bytes(a), z \in Bytes(b) PROVE FALSE BY Zenon
  <2>1. a.addr # b.addr BY <1>0, <1>1 DEF BlockInv, Blocks
  <2>2. PageOf(z) \in Pages BY <1>0, BytesExact
  <2>3. CASE IsBig(a) \/ IsBig(b) BY <1>0, <1>1, <2>2, <2>3, BytesExact, HeapPages
  <2>4. CASE ~IsBig(a) /\ ~IsBig(b)
    <3>1. PICK r \in Listed :
              /\ SmallIn(a, ref[r]) /\ InHeap(r, PageOf(z))
              /\ z % PageSize \in (a.addr % PageSize)..(a.addr % PageSize)+BlockSizes[ref[r].type]-1
      BY <1>0, <2>4, BytesExact
    <3>2. PICK q \in Listed :
              /\ SmallIn(b, ref[q]) /\ InHeap(q, PageOf(z))
              /\ z % PageSize \in (b.addr % PageSize)..(b.addr % PageSize)+BlockSizes[ref[q].type]-1
      BY <1>0, <2>4, BytesExact
    <3>3. q = r BY <1>0, <2>2, <3>1, <3>2, HeapPages
    <3>4. PICK s : s = ref[r].type OBVIOUS
    <3>5. s \in Types
      <4>1. ref[r] \in Ref BY <1>0, ListedRefs DEF HeapTypes
      <4> QED BY <3>4, <4>1 DEF Ref
    <3>6. PICK o, m : o = a.addr % PageSize /\ m = b.addr % PageSize OBVIOUS
    <3>7. o \in Offsets(s) /\ m \in Offsets(s) BY <3>1, <3>2, <3>3, <3>4, <3>6 DEF SmallIn
    <3>8. z % PageSize \in o..o+BlockSizes[s]-1 /\ z % PageSize \in m..m+BlockSizes[s]-1
      BY <3>1, <3>2, <3>3, <3>4, <3>6
    <3>9. o = m BY <3>5, <3>7, <3>8, SpansApart
    <3>10. PageOf(a.addr) = PageOf(b.addr) BY <3>1, <3>2, <3>3 DEF SmallIn
    <3>11. a.addr \in Nat /\ b.addr \in Nat BY <1>0 DEF HeapTypes, Live
    <3> QED BY <2>1, <3>6, <3>9, <3>10, <3>11, PageAndOffset
  <2> QED BY <2>3, <2>4
<1>2. ASSUME NEW b \in live, NEW i \in DOMAIN allbase, NEW k \in DOMAIN ref[allbase[i]].free,
             NEW z \in Bytes(b),
             z \in Addr(ref[allbase[i]].page, ref[allbase[i]].free[k])
                   ..Addr(ref[allbase[i]].page, ref[allbase[i]].free[k])+BlockSizes[ref[allbase[i]].type]-1
      PROVE  FALSE
  <2>1. PICK r \in Listed : r = allbase[i] BY DEF Listed, Range
  <2>2. PICK m, s, p : m = ref[r].free[k] /\ s = ref[r].type /\ p = ref[r].page OBVIOUS
  <2>3. m \in Range(ref[r].free) /\ m \in Offsets(s) /\ s \in Types /\ p \in Pages /\ p \in Nat
    <3>1. PageOK(ref[r]) BY <1>0 DEF BlockInv, Blocks
    <3>2. m \in Range(ref[r].free) BY <1>2, <2>1, <2>2 DEF Range
    <3>3. ref[r] \in Ref BY <1>0, ListedRefs DEF HeapTypes
    <3>4. s \in Types BY <2>2, <3>3 DEF Ref
    <3>5. p \in Pages BY <2>2, <3>1 DEF PageOK
    <3>6. p \in Nat BY <3>5, HeapAssumption DEF Pages
    <3> QED BY <2>2, <3>1, <3>2, <3>4, <3>5, <3>6 DEF PageOK
  <2>4. z \in Addr(p, m)..Addr(p, m)+BlockSizes[s]-1 BY <1>2, <2>1, <2>2
  <2>5. PageOf(z) = p /\ z % PageSize \in m..m+BlockSizes[s]-1 BY <2>3, <2>4, InSpan
  <2>6. InHeap(r, p) BY <2>2 DEF InHeap
  <2>7. CASE IsBig(b) BY <1>0, <1>2, <2>3, <2>5, <2>6, <2>7, BytesExact, HeapPages
  <2>8. CASE ~IsBig(b)
    <3>1. PICK q \in Listed :
              /\ SmallIn(b, ref[q]) /\ InHeap(q, PageOf(z))
              /\ z % PageSize \in (b.addr % PageSize)..(b.addr % PageSize)+BlockSizes[ref[q].type]-1
      BY <1>0, <1>2, <2>8, BytesExact
    <3>2. q = r BY <1>0, <2>3, <2>5, <2>6, <3>1, HeapPages
    <3>3. PICK o : o = b.addr % PageSize OBVIOUS
    <3>4. o \in Offsets(s) /\ o \notin Range(ref[r].free) BY <2>2, <3>1, <3>2, <3>3 DEF SmallIn
    <3>5. z % PageSize \in o..o+BlockSizes[s]-1 BY <2>2, <3>1, <3>2, <3>3
    <3>6. o = m BY <2>3, <2>5, <3>4, <3>5, SpansApart
    <3> QED BY <2>3, <3>4, <3>6
  <2> QED BY <2>7, <2>8
<1>3. ASSUME NEW b \in live, NEW i \in DOMAIN allbase, NEW k \in DOMAIN ref[allbase[i]].free
      PROVE  Bytes(b) \cap (Addr(ref[allbase[i]].page, ref[allbase[i]].free[k])
                   ..Addr(ref[allbase[i]].page, ref[allbase[i]].free[k])+BlockSizes[ref[allbase[i]].type]-1) = {}
  BY <1>2
<1> QED BY <1>1, <1>3 DEF BlocksDisjoint

-----------------------------------------------------------------------------
(* ... no page is lost, and the two lists agree.                           *)

\* Owners is Owned, except that the pool has the page in its own name.
LEMMA OwnersExact ==
  ASSUME HeapTypes, NEW p \in Pages, NEW o
  PROVE  o \in Owners(p) <=> \/ o = <<"pool", p>> /\ p \in pool
                             \/ \E k, x : o = <<k, x>> /\ k # "pool" /\ Owned(k, x, p)
<1>1. o \in {"pool"} \X (pool \cap {p}) <=> o = <<"pool", p>> /\ p \in pool OBVIOUS
<1>2. o \in {"heap"} \X {r \in Refs : r \in Range(allbase) /\ ref[r].page = p}
      <=> \E x : o = <<"heap", x>> /\ InHeap(x, p)
  BY ListedRefs DEF InHeap, Listed
<1>3. o \in {"root"} \X {q \in Roots : kheaproots[q].page = p} <=> \E x : o = <<"root", x>> /\ InRoot(x, p)
  BY DEF InRoot
<1>4. o \in {"block"} \X {b \in live : IsBig(b) /\ p \in Run(PageOf(b.addr), PagesOf(b.size))}
      <=> \E x : o = <<"block", x>> /\ InBlock(x, p)
  BY DEF InBlock
<1>5. o \in {"page"} \X {t \in Threads : thr[t].pc # "freepage" /\ thr[t].page = p}
      <=> \E x : o = <<"page", x>> /\ Brought(x, p)
  BY DEF Brought
<1>6. o \in {"spare"} \X {t \in Threads : thr[t].spare = p} <=> \E x : o = <<"spare", x>> /\ Spare(x, p)
  BY DEF Spare
<1>7. o \in {"freed"} \X {t \in Threads : thr[t].pc = "freepage" /\ p \in Run(thr[t].page, PagesOf(thr[t].sz))}
      <=> \E x : o = <<"freed", x>> /\ Freed(x, p)
  BY DEF Freed
<1>8. o \in Owners(p) <=> \/ o = <<"pool", p>> /\ p \in pool
                          \/ \E x : o = <<"heap", x>> /\ InHeap(x, p)
                          \/ \E x : o = <<"root", x>> /\ InRoot(x, p)
                          \/ \E x : o = <<"block", x>> /\ InBlock(x, p)
                          \/ \E x : o = <<"page", x>> /\ Brought(x, p)
                          \/ \E x : o = <<"spare", x>> /\ Spare(x, p)
                          \/ \E x : o = <<"freed", x>> /\ Freed(x, p)
  BY <1>1, <1>2, <1>3, <1>4, <1>5, <1>6, <1>7, Zenon DEF Owners
<1>9. \A k, x : k # "pool" /\ Owned(k, x, p) <=> \/ k = "heap" /\ InHeap(x, p)
                                                 \/ k = "root" /\ InRoot(x, p)
                                                 \/ k = "block" /\ InBlock(x, p)
                                                 \/ k = "page" /\ Brought(x, p)
                                                 \/ k = "spare" /\ Spare(x, p)
                                                 \/ k = "freed" /\ Freed(x, p)
  BY DEF Owned
<1> QED BY <1>8, <1>9

\* Every page has one owner.
LEMMA AccountedExact == HeapIInv => PagesAccounted
<1> SUFFICES ASSUME HeapIInv, NEW p \in Pages PROVE \E o \in Owners(p) : Owners(p) = {o} BY DEF PagesAccounted
<1>0. HeapTypes /\ OwnerInv BY DEF HeapIInv
<1>1. PICK k, x : Owned(k, x, p) /\ \A l, y : Owned(l, y, p) => l = k /\ y = x BY <1>0 DEF OwnerInv
<1>2. p \in pool <=> Owned("pool", 0, p) BY DEF Owned
<1>3. \A y : Owned("pool", y, p) => p \in pool BY DEF Owned
<1> DEFINE o == IF k = "pool" THEN <<"pool", p>> ELSE <<k, x>>
<1>4. o \in Owners(p)
  <2>1. CASE k = "pool" BY <1>0, <1>1, <1>3, <2>1, OwnersExact
  <2>2. CASE k # "pool" BY <1>0, <1>1, <2>2, OwnersExact
  <2> QED BY <2>1, <2>2
<1>5. ASSUME NEW u \in Owners(p) PROVE u = o
  <2>1. CASE u = <<"pool", p>> /\ p \in pool BY <1>1, <1>2, <2>1
  <2>2. CASE \E l, y : u = <<l, y>> /\ l # "pool" /\ Owned(l, y, p) BY <1>1, <2>2
  <2> QED BY <1>0, <2>1, <2>2, OwnersExact
<1> QED BY <1>4, <1>5

\* An ordered set has as many places as members.
LEMMA PlacesCounted ==
  ASSUME NEW S, NEW s \in Seq(S), IsInjective(s)
  PROVE  IsFiniteSet(Range(s)) /\ Cardinality(Range(s)) = Len(s)
<1>1. PICK n \in Nat : n = Len(s) OBVIOUS
<1>2. DOMAIN s = 1..n /\ s = [i \in 1..n |-> s[i]] BY <1>1
<1>3. s \in [1..n -> Range(s)] BY <1>2 DEF Range
<1>4. s \in Injection(1..n, Range(s)) BY <1>3 DEF Injection
<1>5. s \in Surjection(1..n, Range(s)) BY <1>2, <1>3 DEF Surjection, Range
<1>6. s \in Bijection(1..n, Range(s)) BY <1>4, <1>5 DEF Bijection
<1>7. IsFiniteSet(1..n) /\ Cardinality(1..n) = n
  <2>1. 1 \in Int /\ n \in Int /\ (IF 1 > n THEN 0 ELSE n - 1 + 1) = n BY <1>1
  <2> QED BY <2>1, FS_Interval
<1>8. ExistsBijection(1..n, Range(s)) BY <1>6 DEF ExistsBijection
<1> QED BY <1>1, <1>7, <1>8, FS_Bijection

\* The places on the lists by type are as many as those on allbase.
LEMMA PlacesAgree ==
  ASSUME HeapTypes, Lists(ref, sizebases, allbase)
  PROVE  Cardinality(UNION {{s} \X DOMAIN sizebases[s] : s \in Types}) = Len(allbase)
<1> DEFINE P == UNION {{s} \X DOMAIN sizebases[s] : s \in Types}
           f == [x \in P |-> sizebases[x[1]][x[2]]]
<1>1. \A x : x \in P <=> \E s \in Types : \E i \in DOMAIN sizebases[s] : x = <<s, i>>
  <2>1. \A x : x \in P <=> \E s \in Types : x \in {s} \X DOMAIN sizebases[s] OBVIOUS
  <2>2. \A x, s : x \in {s} \X DOMAIN sizebases[s] <=> \E i \in DOMAIN sizebases[s] : x = <<s, i>> OBVIOUS
  <2> HIDE DEF P
  <2> QED BY <2>1, <2>2
<1>2. \A x \in P : x[1] \in Types /\ x[2] \in DOMAIN sizebases[x[1]] /\ x = <<x[1], x[2]>> BY <1>1
<1> HIDE DEF P
<1>3. \A s \in Types : IsInjective(sizebases[s]) /\ Range(sizebases[s]) = {r \in Range(allbase) : ref[r].type = s}
  BY DEF Lists
<1>4. \A x \in P : f[x] \in Range(allbase) /\ ref[f[x]].type = x[1]
  <2> SUFFICES ASSUME NEW x \in P PROVE f[x] \in Range(allbase) /\ ref[f[x]].type = x[1] OBVIOUS
  <2>1. f[x] \in Range(sizebases[x[1]]) BY <1>2 DEF Range
  <2> QED BY <1>2, <1>3, <2>1
<1>5. f \in Injection(P, Range(allbase))
  <2>1. ASSUME NEW x \in P, NEW y \in P, f[x] = f[y] PROVE x = y
    <3>1. x[1] = y[1] BY <1>4, <2>1
    <3>2. sizebases[x[1]][x[2]] = sizebases[x[1]][y[2]] BY <2>1, <3>1
    <3>3. x[2] = y[2] BY <1>2, <1>3, <3>1, <3>2 DEF IsInjective
    <3> QED BY <1>2, <3>1, <3>3
  <2> QED BY <1>4, <2>1 DEF Injection, IsInjective
<1>6. f \in Surjection(P, Range(allbase))
  <2>1. ASSUME NEW r \in Range(allbase) PROVE \E x \in P : f[x] = r
    <3>1. PICK s : s = ref[r].type OBVIOUS
    <3>2. s \in Types
      <4>1. r \in Refs BY ListedRefs DEF Listed
      <4>2. ref[r] \in Ref BY <4>1 DEF HeapTypes
      <4> QED BY <3>1, <4>2 DEF Ref
    <3>3. PICK i \in DOMAIN sizebases[s] : sizebases[s][i] = r BY <1>3, <3>1, <3>2 DEF Range
    <3>4. <<s, i>> \in P BY <1>1, <3>2, <3>3
    <3> QED BY <3>3, <3>4
  <2> QED BY <1>4, <2>1 DEF Surjection
<1>7. ExistsBijection(P, Range(allbase)) BY <1>5, <1>6 DEF ExistsBijection, Bijection
<1>8. ExistsBijection(Range(allbase), P) BY <1>7, Fun_ExistsBijSymmetric
<1>9. IsFiniteSet(Range(allbase)) /\ Cardinality(Range(allbase)) = Len(allbase)
  BY PlacesCounted DEF HeapTypes, Lists
<1>10. Cardinality(P) = Cardinality(Range(allbase)) BY <1>8, <1>9, FS_Bijection
<1> QED BY <1>9, <1>10 DEF P

\* The checks of SLOWER hold, and the lists agree.
LEMMA ListsExact == HeapIInv => ListsAgree
<1> SUFFICES ASSUME HeapIInv PROVE ListsAgree OBVIOUS
<1>0. HeapTypes /\ BlockInv /\ RefInv /\ Lists(ref, sizebases, allbase) /\ Blocks(ref, Listed, live)
  BY DEF HeapIInv, BlockInv
<1>1. ASSUME NEW r \in Listed PROVE checksubpage(r)
  <2>1. PICK x : x = ref[r] OBVIOUS
  <2>2. x \in Ref /\ PageOK(x) BY <1>0, <2>1, ListedRefs DEF HeapTypes, Blocks
  <2>3. x.type \in Types /\ x.free \in Seq(Nat) /\ IsInjective(x.free) /\ Range(x.free) \subseteq Offsets(x.type)
    BY <2>2 DEF Ref, PageOK
  <2>4. PICK f : f = x.free OBVIOUS
  <2>5. DOMAIN f = 1..Len(f) /\ Len(f) \in Nat BY <2>3, <2>4
  <2>6. \A i \in DOMAIN f : f[i] \in Offsets(x.type) BY <2>3, <2>4 DEF Range
  <2>7. \A i \in DOMAIN f : f[i] \in 0..PageSize-1 /\ f[i] % BlockSizes[x.type] = 0 BY <2>3, <2>6, OffsetsExact
  <2>8. \A i \in DOMAIN f : \A j \in 1..i-1 : f[i] # f[j]
    <3> SUFFICES ASSUME NEW i \in DOMAIN f, NEW j \in 1..i-1 PROVE f[i] # f[j] OBVIOUS
    <3>1. j \in DOMAIN f /\ j # i BY <2>5
    <3> QED BY <2>3, <2>4, <3>1 DEF IsInjective
  <2> QED BY <2>1, <2>3, <2>4, <2>7, <2>8 DEF checksubpage
<1>2. checksubpages
  <2>1. \A s \in Types : \A i \in DOMAIN sizebases[s] : sizebases[s][i] \in Listed
    <3> SUFFICES ASSUME NEW s \in Types, NEW i \in DOMAIN sizebases[s] PROVE sizebases[s][i] \in Listed OBVIOUS
    <3>1. sizebases[s][i] \in Range(sizebases[s]) BY DEF Range
    <3> QED BY <1>0, <3>1 DEF Lists, Listed
  <2>2. \A i \in DOMAIN allbase : allbase[i] \in Listed BY DEF Listed, Range
  <2>3. Cardinality(UNION {{s} \X DOMAIN sizebases[s] : s \in Types}) = Len(allbase) BY <1>0, PlacesAgree
  <2> QED BY <1>1, <2>1, <2>2, <2>3 DEF checksubpages
<1>3. \A i, j \in DOMAIN allbase : i # j => ref[allbase[i]].page # ref[allbase[j]].page
  <2> SUFFICES ASSUME NEW i \in DOMAIN allbase, NEW j \in DOMAIN allbase, i # j
               PROVE  ref[allbase[i]].page # ref[allbase[j]].page
    OBVIOUS
  <2>1. allbase[i] \in Listed /\ allbase[j] \in Listed BY DEF Listed, Range
  <2>2. allbase[i] # allbase[j] BY <1>0 DEF Lists, IsInjective
  <2> QED BY <1>0, <2>1, <2>2 DEF Blocks
<1>4. \A r \in Range(allbase) : /\ r[2] \in kheaproots[r[1]].inuse
                                /\ kheaproots[r[1]].page # 0
                                /\ Len(ref[r].free) < NumBlocks(ref[r].type)
  BY <1>0 DEF RefInv, BlockInv, Listed, Marked
<1> QED BY <1>0, <1>2, <1>3, <1>4 DEF ListsAgree, Lists

\* The variables have their types.
LEMMA TypesExact == HeapIInv => HeapTypeOK
<1> SUFFICES ASSUME HeapIInv PROVE HeapTypeOK OBVIOUS
<1>0. HeapTypes /\ BlockInv BY DEF HeapIInv
<1>1. kheaproots \in [Roots -> [page : Pages \cup {0}, inuse : SUBSET (0..RefsPerPage-1)]] BY <1>0 DEF HeapTypes, Root
<1>2. \A r \in Refs : ref[r].page \in Pages \cup {0} /\ ref[r].type \in Types
  <2> SUFFICES ASSUME NEW r \in Refs PROVE ref[r].page \in Pages \cup {0} /\ ref[r].type \in Types OBVIOUS
  <2>1. ref[r] \in Ref BY <1>0 DEF HeapTypes
  <2> QED BY <2>1 DEF Ref
<1>3. \A i \in DOMAIN allbase : allbase[i] \in Refs BY <1>0 DEF HeapTypes
<1>4. \A b \in live : b.size \in Requests /\ PageOf(b.addr) \in Pages BY <1>0 DEF HeapTypes, Live, BlockInv, Blocks
<1>5. \A t \in Threads : thr[t].pc \in PCs
  <2> SUFFICES ASSUME NEW t \in Threads PROVE thr[t].pc \in PCs OBVIOUS
  <2>1. thr[t] \in Thr BY <1>0 DEF HeapTypes
  <2> QED BY <2>1 DEF Thr
<1> QED BY <1>0, <1>1, <1>2, <1>3, <1>4, <1>5 DEF HeapTypes, HeapTypeOK, PCs

\* HeapKept holds always, for every number of threads, pages, roots and block
\* sizes: kmalloc hands out no byte twice, no page is lost or has two owners,
\* the free lists and the page references agree, and kfree refuses no block.
THEOREM HeapIsKept == HeapSpec => []HeapKept
<1>1. HeapIInv => HeapKept
  BY DisjointExact, AccountedExact, ListsExact, TypesExact DEF HeapIInv, HeapKept, HeapSound
<1> QED BY <1>1, HeapInvariant, PTL
=============================================================================
