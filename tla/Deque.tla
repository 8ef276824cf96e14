-------------------------------- MODULE Deque --------------------------------
(***************************************************************************)
(* What the thread lists promise: each is a sequence of threads, a thread  *)
(* is on one list at most, and removing at an end gives the thread there.  *)
(***************************************************************************)
EXTENDS Naturals, Sequences, SequencesExt

CONSTANTS Lists, Members, Nil

VARIABLES lists, ret   \* the lists, and what the last removal at an end gave

Init == lists = [l \in Lists |-> <<>>] /\ ret = Nil

Free(t) == \A l \in Lists : t \notin Range(lists[l])
Becomes(l, s) == lists' = [lists EXCEPT ![l] = s]
At(l, t) == CHOOSE i \in 1..Len(lists[l]) : lists[l][i] = t

AddHead(l, t) == Free(t) /\ Becomes(l, <<t>> \o lists[l]) /\ ret' = Nil
AddTail(l, t) == Free(t) /\ Becomes(l, Append(lists[l], t)) /\ ret' = Nil
InsertAfter(l, o, t) == Free(t) /\ o \in Range(lists[l]) /\ Becomes(l, InsertAt(lists[l], At(l, o) + 1, t)) /\ ret' = Nil
InsertBefore(l, o, t) == Free(t) /\ o \in Range(lists[l]) /\ Becomes(l, InsertAt(lists[l], At(l, o), t)) /\ ret' = Nil
Removed(l, t) == t \in Range(lists[l]) /\ Becomes(l, RemoveAt(lists[l], At(l, t))) /\ ret' = Nil
RemHead(l) == IF lists[l] = <<>> THEN ret' = Nil /\ UNCHANGED lists ELSE ret' = Head(lists[l]) /\ Becomes(l, Tail(lists[l]))
RemTail(l) == IF lists[l] = <<>> THEN ret' = Nil /\ UNCHANGED lists ELSE ret' = Last(lists[l]) /\ Becomes(l, Front(lists[l]))

Next ==
  \E l \in Lists :
     \/ RemHead(l) \/ RemTail(l)
     \/ \E t \in Members : AddHead(l, t) \/ AddTail(l, t) \/ Removed(l, t)
     \/ \E t, o \in Members : InsertAfter(l, o, t) \/ InsertBefore(l, o, t)

Spec == Init /\ [][Next]_<<lists, ret>>
=============================================================================
