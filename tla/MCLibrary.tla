----------------------------- MODULE MCLibrary -----------------------------
(***************************************************************************)
(* The kernel's building blocks, one at a time: thread lists, bitmaps,     *)
(* arrays, objects with their constructors, spinlocks with the deadlock    *)
(* detector, the way between programs and the kernel, and the heap.  Each  *)
(* has bounds of its own.  The heap has pages of eight bytes and blocks of *)
(* two and four; the requests are a small block, a larger one and two      *)
(* pages.                                                                  *)
(***************************************************************************)
EXTENDS Threadlist, Bitmap, Arrays, Creation, Spinlock, Traps, Kmalloc

CONSTANT Subjects
VARIABLE subject

vars == <<subject, listvars, mapvars, arrayvars, objectvars, spinvars, trapvars, heapvars>>

Init ==
  /\ subject \in Subjects
  /\ threadlist_init /\ BitmapInit /\ array_init /\ CreationInit /\ SpinInit /\ TrapInit /\ HeapInit

Next ==
  \/ subject = "lists" /\ ListNext /\ UNCHANGED <<subject, mapvars, arrayvars, objectvars, spinvars, trapvars, heapvars>>
  \/ subject = "bitmap" /\ BitmapNext /\ UNCHANGED <<subject, listvars, arrayvars, objectvars, spinvars, trapvars, heapvars>>
  \/ subject = "array" /\ ArrayNext /\ UNCHANGED <<subject, listvars, mapvars, objectvars, spinvars, trapvars, heapvars>>
  \/ subject = "objects" /\ CreationNext /\ UNCHANGED <<subject, listvars, mapvars, arrayvars, spinvars, trapvars, heapvars>>
  \/ subject = "spinlocks" /\ SpinNext /\ UNCHANGED <<subject, listvars, mapvars, arrayvars, objectvars, trapvars, heapvars>>
  \/ subject = "traps" /\ TrapNext /\ UNCHANGED <<subject, listvars, mapvars, arrayvars, objectvars, spinvars, heapvars>>
  \/ subject = "heap" /\ HeapNext /\ UNCHANGED <<subject, listvars, mapvars, arrayvars, objectvars, spinvars, trapvars>>

Spec == Init /\ [][Next]_vars

\* The data structures hold what was put into them and own the memory they
\* should: the links of thread lists, the bits of bitmaps, the elements and the
\* block of an array, the parts of an object whose constructor failed.
StructuresExact ==
  /\ subject = "lists" => LinksExact
  /\ subject = "bitmap" => BitsExact
  /\ subject = "array" => ArrayExact /\ OneBlock
  /\ subject = "objects" => NothingLeft

\* They keep their promises: a thread list is a sequence, with every operation
\* at its end or place (threadlist.c), and bitmap_alloc gives the lowest number.
PromisesKept == SequencesKept /\ LowestFirst
-----------------------------------------------------------------------------
MCSubjects == {"lists", "bitmap", "array", "objects", "spinlocks", "traps", "heap"}
MCFirstTask == [c \in Processors |-> IF c = BootCpu THEN "menu" ELSE "hatch"]
MCSizes == 0..5
MCBlockSizes == <<2, 4>>
MCRequests == {2, 3, 9}
Symmetry == Permutations(Threads)
=============================================================================
