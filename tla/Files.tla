-------------------------------- MODULE Files --------------------------------
(***************************************************************************)
(* What a volume of files promises to its users: names for files, and      *)
(* their contents.  An operation changes one name or the contents of one   *)
(* file, completely when it reports success and in part when it does not;  *)
(* nothing else ever changes, whatever fails below.                        *)
(***************************************************************************)
EXTENDS Naturals, Sequences, FiniteSets

CONSTANTS
  Names, Ids, Values,
  Writes       \* where files are written: <<offset, length>>

VARIABLES
  names,     \* the file of each name, 0 if none
  content,   \* the contents of the files there are
  open,      \* the files somebody has open
  result     \* of the last operation

OK == "ok"
Named(f) == {f[n] : n \in Names} \ {0}

Init == names = [n \in Names |-> 0] /\ content = <<>> /\ open = {} /\ result = OK

\* Files with a name or a user stay, and stay as they are but for those in X;
\* the others may lose their contents and go.
KeepsBut(X) ==
  /\ DOMAIN content' \subseteq DOMAIN content
  /\ \A i \in (Named(names') \union open') \ X : i \in DOMAIN content' /\ content'[i] = content[i]

\* A new file is empty; where its name could not be entered it may stay without one.
Make ==
  \E i \in Ids \ DOMAIN content :
    /\ content' = [j \in DOMAIN content \union {i} |-> IF j = i THEN <<>> ELSE content[j]]
    /\ \/ result' = OK /\ \E n \in Names : names[n] = 0 /\ names' = [names EXCEPT ![n] = i]
       \/ result' # OK /\ UNCHANGED names

\* A name is given, taken or changed.
Rename ==
  /\ names' # names /\ result' = OK /\ KeepsBut({})
  /\ \/ \E n \in Names, i \in DOMAIN content : names[n] = 0 /\ names' = [names EXCEPT ![n] = i]
     \/ \E n \in Names : names[n] # 0 /\ names' = [names EXCEPT ![n] = 0]
     \/ \E n, m \in Names : names[n] # 0 /\ names[m] = 0 /\ names' = [names EXCEPT ![n] = 0, ![m] = names[n]]

\* The last user of a file without a name lets it go.
Forget == UNCHANGED names /\ KeepsBut({})

At(s, k) == IF k \in DOMAIN s THEN s[k] ELSE 0

\* v at off, len times: all of it when the result is OK, else some.
Wrote(old, new, off, len, v) ==
  /\ \A k \in DOMAIN new : k \in off+1..off+len \/ new[k] = At(old, k)
  /\ Len(new) >= Len(old) /\ (Len(new) > Len(old) => Len(new) <= off + len)
  /\ \A k \in off+1..off+len : At(new, k) \in {At(old, k), v}
  /\ result' = OK => Len(new) >= off + len /\ \A k \in off+1..off+len : new[k] = v

\* A file is emptied; if that fails, parts of it may be zero.
Emptied(old, new) ==
  \/ result' = OK /\ new = <<>>
  \/ result' # OK /\ Len(new) = Len(old) /\ \A k \in DOMAIN old : new[k] \in {old[k], 0}

\* An open file is written or emptied.
Change(i) ==
  /\ UNCHANGED names /\ DOMAIN content' = DOMAIN content /\ KeepsBut({i})
  /\ \E old \in {content[i]}, new \in {content'[i]} :
       Emptied(old, new) \/ \E w \in Writes, v \in Values : Wrote(old, new, w[1], w[2], v)

Next == Make \/ Rename \/ Forget \/ \E i \in open : Change(i)

Spec == Init /\ [][Next]_<<names, content, result>>
=============================================================================
