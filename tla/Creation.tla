------------------------------ MODULE Creation ------------------------------
(***************************************************************************)
(* Making and destroying the objects of the thread system and of semfs:    *)
(* several blocks of the heap each, any of which may be refused, and what  *)
(* was had before must go back.                                            *)
(***************************************************************************)
EXTENDS Naturals, Sequences

CONSTANT MaxObjects   \* objects at a time, the one being made included

ASSUME CreationAssumption == MaxObjects \in Nat \ {0}

VARIABLES
  heap,       \* the blocks there are: <<object, part>>
  made,       \* the kind of every object, or "none"
  making      \* the object being made and its next part; 0 if none

objectvars == <<heap, made, making>>

\* A constructor takes its parts in order; undo, what it frees when this one is refused.
Part(p, undo) == [part |-> p, undo |-> undo]

sem_create == << Part("semaphore", {}), Part("name", {"semaphore"}), Part("wchan", {"semaphore", "name"}) >>

lock_create == << Part("lock", {}), Part("name", {"lock"}), Part("wchan", {"lock", "name"}) >>
cv_create == << Part("cv", {}), Part("name", {"cv"}), Part("wchan", {"cv", "name"}) >>

\* thread_fork adds the stack, and destroys the thread when that is refused.
thread_create == << Part("thread", {}), Part("name", {"thread"}), Part("stack", {"thread", "name"}) >>
semfs_sem_create == << Part("sem", {}), Part("lock", {"sem"}), Part("cv", {"sem", "lock"}) >>

\* What the destructors free.
sem_destroy == {"wchan", "name", "semaphore"}
lock_destroy == {"wchan", "name", "lock"}
cv_destroy == {"wchan", "name", "cv"}
thread_destroy == {"stack", "name", "thread"}
semfs_sem_destroy == {"cv", "lock", "sem"}

Constructors == [semaphore |-> sem_create, lock |-> lock_create, cv |-> cv_create, thread |-> thread_create, sem |-> semfs_sem_create]
Destructors == [semaphore |-> sem_destroy, lock |-> lock_destroy, cv |-> cv_destroy, thread |-> thread_destroy, sem |-> semfs_sem_destroy]
Kinds == DOMAIN Constructors
Ids == 1..MaxObjects
Of(o, parts) == {<<o, p>> : p \in parts}
Nothing == [id |-> 0, kind |-> "none", next |-> 0]

CreationInit == heap = {} /\ made = [o \in Ids |-> "none"] /\ making = Nothing

Create(o, kind) == making = Nothing /\ made[o] = "none" /\ making' = [id |-> o, kind |-> kind, next |-> 1] /\ UNCHANGED <<heap, made>>

Step == Constructors[making.kind][making.next]

kmalloc_gives ==
  /\ making # Nothing /\ heap' = heap \union {<<making.id, Step.part>>}
  /\ IF making.next = Len(Constructors[making.kind])
     THEN made' = [made EXCEPT ![making.id] = making.kind] /\ making' = Nothing
     ELSE making' = [making EXCEPT !.next = @ + 1] /\ UNCHANGED made

kmalloc_refuses == making # Nothing /\ heap' = heap \ Of(making.id, Step.undo) /\ making' = Nothing /\ UNCHANGED made

Destroy(o) == made[o] # "none" /\ heap' = heap \ Of(o, Destructors[made[o]]) /\ made' = [made EXCEPT ![o] = "none"] /\ UNCHANGED making

CreationNext == kmalloc_gives \/ kmalloc_refuses \/ \E o \in Ids : Destroy(o) \/ \E kind \in Kinds : Create(o, kind)

(***************************************************************************)
(* Properties.                                                             *)
(***************************************************************************)

\* The heap has the parts of the objects that exist and of the one being
\* made: a constructor that fails leaves nothing behind, and a destructor
\* forgets nothing.
Parts(kind, n) == {Constructors[kind][i].part : i \in 1..n}
NothingLeft ==
  heap = UNION {Of(o, Parts(made[o], Len(Constructors[made[o]]))) : o \in {x \in Ids : made[x] # "none"}}
           \union (IF making = Nothing THEN {} ELSE Of(making.id, Parts(making.kind, making.next - 1)))
=============================================================================
