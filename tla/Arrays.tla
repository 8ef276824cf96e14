------------------------------- MODULE Arrays -------------------------------
(***************************************************************************)
(* Resizable arrays of pointers: kernel heap behind, growing by doubling.  *)
(***************************************************************************)
EXTENDS Naturals, Sequences, SequencesExt

CONSTANTS
  Pointers,   \* what is put into arrays
  Unset,      \* what an element holds that nobody stored
  MaxItems    \* elements asked for

ASSUME ArraysAssumption == MaxItems \in Nat

VARIABLES
  arr,        \* num, max, v
  items,      \* what the callers may rely on: the values stored, Unset where none was
  blocks      \* blocks of the heap that arrays have

arrayvars == <<arr, items, blocks>>

array_init == arr = [num |-> 0, max |-> 0, v |-> <<>>] /\ items = <<>> /\ blocks = 0

Blank(n) == [i \in 1..n |-> Unset]

\* The size the array grows to.
newmax(num, max) ==
  LET sizes[k \in 0..num] == IF k = 0 THEN max ELSE IF sizes[k - 1] >= num THEN sizes[k - 1] ELSE IF sizes[k - 1] = 0 THEN 4 ELSE 2 * sizes[k - 1]
  IN  sizes[num]

\* a with room for num elements: a new block, and the elements copied.
Grown(a, num) ==
  IF num <= a.max THEN a
  ELSE [a EXCEPT !.v = SubSeq(a.v, 1, a.num) \o Blank(newmax(num, a.max) - a.num), !.max = newmax(num, a.max)]

Blocks(num) == blocks' = IF num > arr.max /\ arr.max = 0 THEN blocks + 1 ELSE blocks

\* kmalloc fails before anything is touched; array_setsize and array_add say so.
NoMemory(num) == num > arr.max /\ UNCHANGED arrayvars

array_preallocate(num) ==
  NoMemory(num) \/ (arr' = Grown(arr, num) /\ Blocks(num) /\ UNCHANGED items)

array_setsize(num) ==
  \/ NoMemory(num)
  \/ /\ arr' = [Grown(arr, num) EXCEPT !.num = num] /\ Blocks(num)
     /\ items' = IF num <= Len(items) THEN SubSeq(items, 1, num) ELSE items \o Blank(num - Len(items))

array_add(val) ==
  \/ NoMemory(arr.num + 1)
  \/ /\ arr' = LET a == Grown(arr, arr.num + 1) IN [a EXCEPT !.num = @ + 1, !.v[a.num + 1] = val]
     /\ Blocks(arr.num + 1) /\ items' = Append(items, val)

array_set(index, val) == arr' = [arr EXCEPT !.v[index] = val] /\ items' = [items EXCEPT ![index] = val] /\ UNCHANGED blocks

\* The following elements slide down.
array_remove(index) ==
  /\ arr' = [arr EXCEPT !.num = @ - 1, !.v = [i \in DOMAIN arr.v |-> IF i \in index..arr.num - 1 THEN arr.v[i + 1] ELSE arr.v[i]]]
  /\ items' = RemoveAt(items, index) /\ UNCHANGED blocks

array_cleanup == arr.num = 0 /\ arr' = [num |-> 0, max |-> 0, v |-> <<>>] /\ items' = <<>> /\ blocks' = IF arr.max > 0 THEN blocks - 1 ELSE blocks

ArrayNext ==
  \/ array_cleanup
  \/ \E num \in 0..MaxItems : array_preallocate(num) \/ array_setsize(num)
  \/ \E val \in Pointers : (arr.num < MaxItems /\ array_add(val)) \/ (\E index \in 1..arr.num : array_set(index, val))
  \/ \E index \in 1..arr.num : array_remove(index)

(***************************************************************************)
(* Properties.                                                             *)
(***************************************************************************)

\* What was stored is found again, whatever was added, removed, resized or
\* refused in between, and the block has room for what the array says it has.
ArrayExact ==
  /\ arr.num = Len(items) /\ arr.num <= arr.max /\ Len(arr.v) = arr.max
  /\ \A i \in 1..arr.num : items[i] # Unset => arr.v[i] = items[i]

\* An array has one block of the heap, or none before it first grew.
OneBlock == blocks = IF arr.max = 0 THEN 0 ELSE 1
=============================================================================
