----------------------------- MODULE OpenFiles -----------------------------
(***************************************************************************)
(* The open files of processes: each process's fileTable points into the   *)
(* systemFileTable, whose entries hold a vnode, an offset and a count of   *)
(* the pointers to them.  Nothing locks the system table: sys_open looks   *)
(* for a free entry and takes it in two steps.  Vnodes are represented by  *)
(* their reference counts.  Reads and writes sleep in the file system with *)
(* the offset they started from.                                           *)
(***************************************************************************)
EXTENDS Naturals, FiniteSets, FiniteSetsExt

CONSTANTS
  Proc,       \* process structures (the memory kmalloc finds for them)
  File,       \* the vnodes of files programs open
  NumEntries, \* SYSTEM_OPEN_MAX
  OpenMax,    \* OPEN_MAX
  CountMod,   \* the counts are modulo this (2^32)
  MaxOffset   \* bound: programs move their offsets no further

VARIABLES
  fileTable,  \* per process and descriptor: an entry, or Null
  entry,      \* systemFileTable
  refs,       \* per vnode: how many references to it are held
  moved,      \* ghost: per process and descriptor, how far the process moved it since the open
  raced       \* ghost: two opens chose the same entry

files == <<fileTable, entry, refs, moved, raced>>

Null == 0
Entries == 1..NumEntries
Fd == 0..OpenMax-1
FirstFd == 3   \* after stdin, stdout and stderr
NoFile == "no vnode"
NoFiles == [fd \in Fd |-> Null]
FreeEntry == [vn |-> NoFile, offset |-> 0, countRef |-> 0]

InitFiles ==
  /\ fileTable = [p \in Proc |-> NoFiles]
  /\ entry = [i \in Entries |-> FreeEntry]
  /\ moved = [p \in Proc |-> [fd \in Fd |-> 0]]
  /\ raced = FALSE

\* The entry sys_open's first loop finds (Null: it runs to the end).
free_entry ==
  LET free == {i \in Entries : entry[i].vn = NoFile}
  IN  IF free = {} THEN Null ELSE Min(free)

opened(v) == [vn |-> v, offset |-> 0, countRef |-> 1]

\* sys_open, the descriptor: taken if one is left; else the vnode is closed
\* again, and the entry, if one was taken, keeps it.
sys_open(p, v, i) ==
  LET fds == {fd \in FirstFd..OpenMax-1 : fileTable[p][fd] = Null}
  IN  /\ entry' = IF i = Null THEN entry ELSE [entry EXCEPT ![i] = opened(v)]
      /\ raced' = (raced \/ (i # Null /\ entry[i].vn # NoFile))
      /\ IF i = Null \/ fds = {}
         THEN /\ refs' = [refs EXCEPT ![v] = @ - 1]
              /\ UNCHANGED <<fileTable, moved>>
         ELSE /\ fileTable' = [fileTable EXCEPT ![p][Min(fds)] = i]
              /\ moved' = [moved EXCEPT ![p][Min(fds)] = 0]
              /\ UNCHANGED refs

\* sys_close.  The count of an entry two opens took wraps below zero.
sys_close(p, fd) ==
  LET i == fileTable[p][fd]
      count == (entry[i].countRef + CountMod - 1) % CountMod
  IN  /\ i # Null
      /\ fileTable' = [fileTable EXCEPT ![p][fd] = Null]
      /\ IF count > 0
         THEN /\ entry' = [entry EXCEPT ![i].countRef = count]
              /\ UNCHANGED refs
         ELSE /\ entry' = [entry EXCEPT ![i].countRef = count, ![i].vn = NoFile]
              /\ refs' = IF entry[i].vn = NoFile THEN refs ELSE [refs EXCEPT ![entry[i].vn] = @ - 1]
      /\ UNCHANGED <<moved, raced>>

\* Is the vnode sys_close is about to close held by nobody any more?
overclosed(p, fd) ==
  LET e == entry[fileTable[p][fd]]
  IN  fileTable[p][fd] # Null /\ e.countRef = 1 /\ e.vn # NoFile /\ refs[e.vn] = 0

\* Is the vnode sys_open is about to close, for want of an entry or of a
\* descriptor, held by nobody any more?
open_overcloses(p, v, i) ==
  (i = Null \/ \A fd \in FirstFd..OpenMax-1 : fileTable[p][fd] # Null) /\ refs[v] = 0

\* Mutant: the offset is not put back.
moved_to_Kept(u, n) == u.offset

\* file_read, file_write: what the file system moved is put back into the
\* entry found before, from the offset read before.
moved_to(u, n) == u.offset + n

file_io(p, u, n) ==
  /\ entry' = [entry EXCEPT ![u.of].offset = moved_to(u, n)]
  /\ moved' = [moved EXCEPT ![p][u.fd] = @ + n]
  /\ UNCHANGED <<fileTable, refs, raced>>

\* openfileIncrRefCount for each pointer of a table.
Shared(table) ==
  [i \in Entries |-> [entry[i] EXCEPT !.countRef = @ + Cardinality({fd \in Fd : table[fd] = i})]]

proc_file_table_copy(psrc, pdest) ==
  /\ fileTable' = [fileTable EXCEPT ![pdest] = fileTable[psrc]]
  /\ entry' = Shared(fileTable[psrc])
  /\ moved' = [moved EXCEPT ![pdest] = moved[psrc]]
-----------------------------------------------------------------------------
Refers(i) == {x \in Proc \X Fd : fileTable[x[1]][x[2]] = i}

\* An open descriptor leads to an entry of its own whose vnode is referenced,
\* at the offset its process moved it to since the open; unless two opens
\* chose one entry, which nothing prevents (sys_open, sys_close, file_read,
\* file_write; no entry is ever shared, for sys_fork copies the child's
\* empty table over the parent's).
DescriptorsSound ==
  raced \/ \A p \in Proc, fd \in Fd : fileTable[p][fd] # Null =>
    LET e == entry[fileTable[p][fd]]
    IN  /\ Refers(fileTable[p][fd]) = {<<p, fd>>}
        /\ e.vn # NoFile /\ e.countRef = 1 /\ refs[e.vn] > 0
        /\ e.offset = moved[p][fd]
=============================================================================
