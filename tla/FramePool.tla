----------------------------- MODULE FramePool -----------------------------
(***************************************************************************)
(* What the frame allocator promises its callers: a pool of frames from    *)
(* which a page gets one frame and the kernel gets blocks of contiguous    *)
(* frames, where no frame ever has two users.  How a frame is found, and   *)
(* that giving one may first need taking one away, is left open.           *)
(*                                                                         *)
(* Coremap implements it when the system is used by one process at a time. *)
(***************************************************************************)
EXTENDS Integers

CONSTANTS
    Slots,      \* the (address space, page) pairs that can have a frame
    FirstFrame, \* the first frame that may be given
    NFrames     \* the number of frames

VARIABLES
    home,       \* home[s]: the frame of slot s, or NoFrame
    blocks      \* the blocks the kernel holds

NoFrame == 0
Memory == FirstFrame .. NFrames - 1
Block(first, n) == [first |-> first, n |-> n]
Extent(b) == b.first .. b.first + b.n - 1

Used(f) == \/ \E s \in Slots : home[s] = f
           \/ \E b \in blocks : f \in Extent(b)

Init == home = [s \in Slots |-> NoFrame] /\ blocks = {}

\* A page without a frame gets one nobody uses.
Place(s, f) ==
    /\ home[s] = NoFrame /\ ~Used(f)
    /\ home' = [home EXCEPT ![s] = f]
    /\ UNCHANGED blocks

\* A page loses its frame: it is evicted, or its process ends.
Displace(s) ==
    /\ home[s] # NoFrame
    /\ home' = [home EXCEPT ![s] = NoFrame]
    /\ UNCHANGED blocks

\* The kernel gets a block of frames nobody uses.
Take(b) ==
    /\ Extent(b) \subseteq Memory
    /\ \A f \in Extent(b) : ~Used(f)
    /\ blocks' = blocks \cup {b}
    /\ UNCHANGED home

Give(b) == b \in blocks /\ blocks' = blocks \ {b} /\ UNCHANGED home

Next ==
    \/ \E s \in Slots, f \in Memory : Place(s, f)
    \/ \E s \in Slots : Displace(s)
    \/ \E f \in Memory, n \in 1 .. NFrames : Take(Block(f, n))
    \/ \E b \in blocks : Give(b)

Spec == Init /\ [][Next]_<<home, blocks>>
=============================================================================
