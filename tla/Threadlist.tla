----------------------------- MODULE Threadlist -----------------------------
(***************************************************************************)
(* Doubly linked lists of threads, each between two nodes of its own.  A   *)
(* thread has one node, so it can be on one list only: run queue, wait     *)
(* channel or zombies.                                                     *)
(***************************************************************************)
EXTENDS Naturals, FiniteSets

CONSTANTS Lists, Members, Nil

VARIABLES
  tln_next, tln_prev,   \* of every node
  tl_count,             \* of every list
  got                   \* what threadlist_remhead or threadlist_remtail returned last

listvars == <<tln_next, tln_prev, tl_count, got>>

tl_head(l) == [end |-> "head", list |-> l]
tl_tail(l) == [end |-> "tail", list |-> l]
Ends == [end : {"head", "tail"}, list : Lists]
Nodes == Members \union Ends

threadlistnode_init == [n \in Members |-> Nil]

threadlist_init ==
  /\ tln_next = [n \in Nodes |-> IF n \in Members THEN threadlistnode_init[n] ELSE IF n.end = "head" THEN tl_tail(n.list) ELSE Nil]
  /\ tln_prev = [n \in Nodes |-> IF n \in Members THEN threadlistnode_init[n] ELSE IF n.end = "tail" THEN tl_head(n.list) ELSE Nil]
  /\ tl_count = [l \in Lists |-> 0] /\ got = Nil

threadlist_isempty(l) == tl_count[l] = 0

\* threadlistnode_cleanup's condition: the thread is on no list.
Loose(t) == tln_next[t] = Nil /\ tln_prev[t] = Nil

threadlist_insertafternode(onlist, t) ==
  /\ tln_prev' = [tln_prev EXCEPT ![t] = onlist, ![tln_next[onlist]] = t]
  /\ tln_next' = [tln_next EXCEPT ![t] = tln_next[onlist], ![onlist] = t]

\* Mutant: the node before keeps pointing past the new one.
threadlist_insertbeforenode_Lost(t, onlist) ==
  /\ tln_prev' = [tln_prev EXCEPT ![t] = tln_prev[onlist], ![onlist] = t]
  /\ tln_next' = [tln_next EXCEPT ![t] = onlist]

threadlist_insertbeforenode(t, onlist) ==
  /\ tln_prev' = [tln_prev EXCEPT ![t] = tln_prev[onlist], ![onlist] = t]
  /\ tln_next' = [tln_next EXCEPT ![t] = onlist, ![tln_prev[onlist]] = t]

\* Mutant: the removed node keeps its pointers.
threadlist_removenode_Keeps(t) ==
  /\ tln_next' = [tln_next EXCEPT ![tln_prev[t]] = tln_next[t]]
  /\ tln_prev' = [tln_prev EXCEPT ![tln_next[t]] = tln_prev[t]]

threadlist_removenode(t) ==
  /\ tln_next' = [tln_next EXCEPT ![tln_prev[t]] = tln_next[t], ![t] = Nil]
  /\ tln_prev' = [tln_prev EXCEPT ![tln_next[t]] = tln_prev[t], ![t] = Nil]

More(l) == tl_count' = [tl_count EXCEPT ![l] = @ + 1] /\ got' = Nil
Less(l) == tl_count' = [tl_count EXCEPT ![l] = @ - 1]

threadlist_addhead(l, t) == Loose(t) /\ threadlist_insertafternode(tl_head(l), t) /\ More(l)
threadlist_addtail(l, t) == Loose(t) /\ threadlist_insertbeforenode(t, tl_tail(l)) /\ More(l)
threadlist_insertafter(l, onlist, t) == Loose(t) /\ threadlist_insertafternode(onlist, t) /\ More(l)
threadlist_insertbefore(l, t, onlist) == Loose(t) /\ threadlist_insertbeforenode(t, onlist) /\ More(l)
threadlist_remove(l, t) == threadlist_removenode(t) /\ Less(l) /\ got' = Nil

\* An empty list is known by the other end's being next.
threadlist_remhead(l) ==
  LET t == tln_next[tl_head(l)] IN
  IF tln_next[t] = Nil THEN got' = Nil /\ UNCHANGED <<tln_next, tln_prev, tl_count>>
  ELSE threadlist_removenode(t) /\ Less(l) /\ got' = t
threadlist_remtail(l) ==
  LET t == tln_prev[tl_tail(l)] IN
  IF tln_prev[t] = Nil THEN got' = Nil /\ UNCHANGED <<tln_next, tln_prev, tl_count>>
  ELSE threadlist_removenode(t) /\ Less(l) /\ got' = t

\* The list as its links give it, from the head on.
Walk(l) == LET node[i \in 0..tl_count[l]] == IF i = 0 THEN tl_head(l) ELSE tln_next[node[i - 1]] IN [i \in 1..tl_count[l] |-> node[i]]
On(l) == {Walk(l)[i] : i \in 1..tl_count[l]}

ListNext ==
  \E l \in Lists :
     \/ threadlist_remhead(l) \/ threadlist_remtail(l)
     \/ \E t \in Members : threadlist_addhead(l, t) \/ threadlist_addtail(l, t)
     \/ \E t \in On(l) : threadlist_remove(l, t)
     \/ \E t \in Members, onlist \in On(l) : threadlist_insertafter(l, onlist, t) \/ threadlist_insertbefore(l, t, onlist)

(***************************************************************************)
(* Properties.                                                             *)
(***************************************************************************)

\* The links of both directions agree, each list ends at its own tail after
\* tl_count threads, no thread is on two lists, and one on none may be destroyed.
LinksExact ==
  /\ \A n \in Nodes : tln_next[n] # Nil => tln_prev[tln_next[n]] = n
  /\ \A l \in Lists : tln_prev[tl_tail(l)] = IF threadlist_isempty(l) THEN tl_head(l) ELSE Walk(l)[tl_count[l]]
  /\ \A t \in Members : Cardinality({l \in Lists : t \in On(l)}) = IF Loose(t) THEN 0 ELSE 1

\* The linked lists are the sequences that the promise is about.
D == INSTANCE Deque WITH lists <- [l \in Lists |-> Walk(l)], ret <- got
SequencesKept == D!Spec
=============================================================================
