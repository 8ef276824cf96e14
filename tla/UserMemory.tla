----------------------------- MODULE UserMemory -----------------------------
(***************************************************************************)
(* What virtual memory promises to the user programs: every process has    *)
(* its own pages, a page holds what the process stored in it last, and a   *)
(* page it has not stored to holds the initial content of its segment.     *)
(* Frames, the TLB and the swap file cannot be seen.                       *)
(***************************************************************************)
CONSTANTS
    Procs,      \* the processes
    Pages,      \* the pages of an address space
    Contents,   \* what a page can hold
    Fresh       \* Fresh[v]: the content of a page that was never stored to

VARIABLES
    content,    \* content[p][v]: what p reads in page v
    event       \* the last thing a program did to the memory

\* Only a recorded event may change a page: a content that changes behind
\* the programs' back is not a behaviour of this specification.
Init ==
    /\ content = [p \in Procs |-> Fresh]
    /\ event = <<"boot">>

Store(p, v, d) ==
    /\ content' = [content EXCEPT ![p][v] = d]
    /\ event' = <<"store", p, v, d>>

\* The process ends; its pages are fresh for the next program.
Exit(p) ==
    /\ content' = [content EXCEPT ![p] = Fresh]
    /\ event' = <<"exit", p>>

Next ==
    \E p \in Procs :
        \/ \E v \in Pages, d \in Contents : Store(p, v, d)
        \/ Exit(p)

Spec == Init /\ [][Next]_<<content, event>>
=============================================================================
