-------------------------------- MODULE Vnode --------------------------------
(***************************************************************************)
(* Vnodes and their reference counts (vnode.c), the vnodes of devices      *)
(* (device.c), and the operations of an sfs volume on its root directory   *)
(* as the VFS layer sees them (sfs_vnops.c, sfs_inode.c, sfs_fsops.c).     *)
(* What the blocks of a volume hold is the subject of module Sfs.          *)
(*                                                                         *)
(* A vnode is <<device, number>>: number 0 is the device itself, 1 the     *)
(* root directory of the volume on it, the others its files.  Its count is *)
(* 0 while it is not in memory.  Threads go on by operations: the head of  *)
(* todo[t] is the next, one critical section of a spinlock or a step under *)
(* vfs_biglock.  The references a thread holds in its local variables are  *)
(* the sequence refs[t], the last one it got first.                        *)
(***************************************************************************)
EXTENDS Naturals, FiniteSets, Sequences, FiniteSetsExt, SequencesExt

CONSTANTS
  Threads,      \* kernel threads
  Devices,      \* devices
  Disks,        \* the mountable ones
  Files,        \* inode numbers a volume has room for, besides the root's
  Names,        \* names in a directory
  MaxFaults     \* bound: I/O or memory failures

Root == 1
Vnodes == Devices \X ({0, Root} \union Files)
None == <<"none", 0>>      \* a null pointer to a vnode
OK == "ok"

ASSUME FilesAssumption == Disks \subseteq Devices /\ Files \subseteq (Nat \ {0, Root}) /\ IsFiniteSet(Files)

VARIABLES
  todo,     \* per thread, the rest of its operation
  refs,     \* per thread, the vnodes its local variables refer to
  err,      \* per thread, the last result
  owner,    \* vfs_biglock's holder, or "none"
  depth,    \* vfs_biglock_depth
  ref,      \* vn_refcount
  fs,       \* kd_fs: "none", "swap" or "sfs"
  used,     \* sfs_freemap, the inodes' part
  nlink,    \* sfi_linkcount
  dir,      \* the root directory: the inode of each name, 0 where there is none
  faults,   \* failures so far
  stranded  \* vnodes whose last reference went and which could not be reclaimed, for the properties

lockvars == <<owner, depth>>
diskvars == <<used, nlink, dir>>
nvars == <<todo, refs, err, owner, depth, ref, fs, used, nlink, dir, faults, stranded>>

IsDevice(v) == v[2] = 0
IsDir(v) == v[2] = Root

op(t) == todo[t][1]
At(t, name) == todo[t] # <<>> /\ op(t)[1] = name

\* An operation that may fail is followed by <<"iferr", what to do instead>>.
Settle(rest, e) ==
  IF rest # <<>> /\ Head(rest)[1] = "iferr" THEN (IF e = OK THEN Tail(rest) ELSE Head(rest)[2]) ELSE rest

\* t's operation ends with result e; operations ops come before the rest.
Finish(t, e, ops) ==
  /\ todo' = [todo EXCEPT ![t] = IF ops = <<>> THEN Settle(Tail(@), e) ELSE ops \o Tail(@)]
  /\ err' = [err EXCEPT ![t] = e]

\* An operation without a result of its own ends.
Done(t) == Finish(t, err[t], <<>>)

Fault == faults < MaxFaults /\ faults' = faults + 1
NoFault == UNCHANGED faults

-----------------------------------------------------------------------------
(* vfs_biglock. *)

\* Mutant: the lock is like any other.
vfs_biglock_acquire_Once(t) == owner = "none" /\ owner' = t /\ depth' = depth + 1

\* The lock's holder may take it again.
vfs_biglock_acquire(t) == owner \in {"none", t} /\ owner' = t /\ depth' = depth + 1

vfs_biglock_release(t) ==
  /\ depth' = depth - 1
  /\ owner' = IF depth = 1 THEN "none" ELSE owner

\* A function that takes the big lock and releases it on every path is one step.
Locked(t) == owner \in {"none", t} /\ UNCHANGED lockvars

Acquire(t) ==
  /\ At(t, "acquire")
  /\ vfs_biglock_acquire(t)
  /\ Done(t)
  /\ UNCHANGED <<refs, ref, fs, diskvars, faults>>

Release(t) ==
  /\ At(t, "release")
  /\ vfs_biglock_release(t)
  /\ Done(t)
  /\ UNCHANGED <<refs, ref, fs, diskvars, faults>>
-----------------------------------------------------------------------------
(* References. *)

vnode_incref(v) == ref' = [ref EXCEPT ![v] = @ + 1]

\* The last reference is not dropped here but handed to VOP_RECLAIM.
vnode_decref(t) ==
  LET v == refs[t][1] IN
  /\ At(t, "decref")
  /\ refs' = [refs EXCEPT ![t] = Tail(@)]
  /\ ref' = IF ref[v] > 1 THEN [ref EXCEPT ![v] = @ - 1] ELSE ref
  /\ Finish(t, err[t], IF ref[v] > 1 THEN <<>> ELSE <<<<"RECLAIM", v>>>>)
  /\ UNCHANGED <<lockvars, fs, diskvars, faults>>

\* Mutant: a file without a name keeps its inode.
sfs_reclaim_Keeps(t) ==
  /\ At(t, "RECLAIM") /\ Locked(t)
  /\ ref' = IF IsDevice(op(t)[2]) THEN ref ELSE [ref EXCEPT ![op(t)[2]] = @ - 1]
  /\ Done(t)
  /\ UNCHANGED <<refs, fs, diskvars, faults, stranded>>

\* The vnode may have been picked up again since vnode_decref looked.  A file
\* without a name loses its inode.  (A device's vnode stays: dev_reclaim.)
Reclaimed(v) ==
  /\ ref' = IF IsDevice(v) THEN ref ELSE [ref EXCEPT ![v] = @ - 1]
  /\ used' = IF ref[v] > 1 THEN used ELSE [used EXCEPT ![v[1]] = {i \in @ : nlink[v[1]][i] > 0 \/ i # v[2]}]
  /\ NoFault /\ UNCHANGED stranded

\* The file cannot be truncated, or its inode not written: the vnode stays in
\* the table with the reference that was to go, and vnode_decref only warns.
\* (What there is to write is Sfs's: any inode may have changed.)
Stranded(v) ==
  /\ ref[v] = 1 /\ ~IsDevice(v) /\ Fault
  /\ stranded' = stranded \union {v}
  /\ UNCHANGED <<ref, used>>

sfs_reclaim(t) ==
  /\ At(t, "RECLAIM") /\ Locked(t)
  /\ Reclaimed(op(t)[2]) \/ Stranded(op(t)[2])
  /\ Done(t)
  /\ UNCHANGED <<refs, fs, nlink, dir>>

\* sfs_loadvnode: the vnode in the table, or read from the disk, which may
\* fail; t's references are then got.
sfs_loadvnode(t, v, got) ==
  \/ NoFault /\ vnode_incref(v) /\ refs' = [refs EXCEPT ![t] = got] /\ Finish(t, OK, <<>>)
  \/ ref[v] = 0 /\ Fault /\ UNCHANGED <<ref, refs>> /\ Finish(t, "EIO", <<>>)

\* An operation that only has a result.
Result(t, e) == Finish(t, e, <<>>) /\ NoFault /\ UNCHANGED <<ref, refs>>
-----------------------------------------------------------------------------
(* The operations of a vnode.  The directory is the last reference got, and *)
(* the result comes under it.                                               *)

top(t) == refs[t][1]
under(t, v) == <<top(t), v>> \o Tail(refs[t])
Vop(t, name) == At(t, name) /\ Locked(t) /\ UNCHANGED fs

VOP_LOOKUP(t) ==
  LET v == top(t)  n == op(t)[2] IN
  /\ Vop(t, "LOOKUP")
  /\ IF IsDevice(v) \/ dir[v[1]][n] = 0 THEN Result(t, "ENOENT")
     ELSE sfs_loadvnode(t, <<v[1], dir[v[1]][n]>>, under(t, <<v[1], dir[v[1]][n]>>))
  /\ UNCHANGED diskvars

VOP_LOOKPARENT(t) ==
  LET v == top(t) IN
  /\ Vop(t, "LOOKPARENT")
  /\ IF op(t)[2] = "" THEN Result(t, "EINVAL")
     ELSE IF ~IsDir(v) THEN Result(t, "ENOTDIR")
     ELSE sfs_loadvnode(t, v, under(t, v))
  /\ UNCHANGED diskvars

VOP_EACHOPEN(t) ==
  LET v == top(t)  flags == op(t)[2] IN
  /\ At(t, "EACHOPEN")
  /\ Result(t, IF IsDir(v) /\ "write" \in flags THEN "EISDIR"
               ELSE IF IsDevice(v) /\ flags \intersect {"creat", "excl", "trunc"} # {} THEN "EINVAL" ELSE OK)
  /\ UNCHANGED <<lockvars, fs, diskvars>>

\* The data is Sfs's; the truncation may fail there.
VOP_TRUNCATE(t) ==
  /\ Vop(t, "TRUNCATE")
  /\ Result(t, IF "write" \in op(t)[2] THEN OK ELSE "EINVAL")
  /\ UNCHANGED diskvars

Free(d) == {i \in Files : i \notin used[d]}

\* A new file gets the first free inode; its name is entered, and only then
\* counted.
sfs_creat(t) ==
  LET d == top(t)[1]  n == op(t)[2]  i == Min(Free(d)) IN
  /\ Vop(t, "CREAT")
  /\ IF dir[d][n] # 0
     THEN /\ IF "excl" \in op(t)[3] THEN Result(t, "EEXIST")
             ELSE sfs_loadvnode(t, <<d, dir[d][n]>>, under(t, <<d, dir[d][n]>>))
          /\ UNCHANGED diskvars
     ELSE IF Free(d) = {} THEN Result(t, "ENOSPC") /\ UNCHANGED diskvars
     ELSE /\ NoFault /\ vnode_incref(<<d, i>>)
          /\ refs' = [refs EXCEPT ![t] = under(t, <<d, i>>)]
          /\ Finish(t, OK, <<>>)
          /\ used' = [used EXCEPT ![d] = @ \union {i}]
          /\ nlink' = [nlink EXCEPT ![d][i] = @ + 1]
          /\ dir' = [dir EXCEPT ![d][n] = i]

\* The file named n by d's directory gets another reference, and the
\* directory and its link count become what they are told.
Relinked(t, d, n, newdir, new) ==
  LET v == <<d, dir[d][n]>> IN
  \/ /\ NoFault /\ vnode_incref(v)
     /\ refs' = [refs EXCEPT ![t] = <<v>> \o @]
     /\ dir' = [dir EXCEPT ![d] = newdir] /\ nlink' = [nlink EXCEPT ![d][v[2]] = new]
     /\ Finish(t, OK, <<<<"decref">>, <<"release">>>>)
  \/ \* the entry could not be written
     /\ Fault /\ vnode_incref(v)
     /\ refs' = [refs EXCEPT ![t] = <<v>> \o @]
     /\ UNCHANGED <<dir, nlink>>
     /\ Finish(t, "EIO", <<<<"decref">>, <<"release">>>>)

\* The directory entry goes, then the link; the file itself goes with its last
\* reference, which may be the one held here.
sfs_remove(t) ==
  LET d == top(t)[1]  n == op(t)[2] IN
  /\ At(t, "REMOVE") /\ UNCHANGED <<used, fs>>
  /\ IF dir[d][n] = 0 THEN Locked(t) /\ Result(t, "ENOENT") /\ UNCHANGED <<dir, nlink>>
     ELSE /\ vfs_biglock_acquire(t)
          /\ Relinked(t, d, n, [dir[d] EXCEPT ![n] = 0], nlink[d][dir[d][n]] - 1)

\* The new name is linked, which must not exist, and the old unlinked.
sfs_rename(t) ==
  LET d == top(t)[1]  n1 == op(t)[2]  n2 == op(t)[3] IN
  /\ At(t, "RENAME") /\ UNCHANGED <<used, fs>>
  /\ IF dir[d][n1] = 0 THEN Locked(t) /\ Result(t, "ENOENT") /\ UNCHANGED <<dir, nlink>>
     ELSE /\ vfs_biglock_acquire(t)
          /\ IF dir[d][n2] # 0
             THEN /\ NoFault /\ vnode_incref(<<d, dir[d][n1]>>)
                  /\ refs' = [refs EXCEPT ![t] = <<<<d, dir[d][n1]>>>> \o @]
                  /\ UNCHANGED <<dir, nlink>>
                  /\ Finish(t, "EEXIST", <<<<"decref">>, <<"release">>>>)
             ELSE Relinked(t, d, n1, [dir[d] EXCEPT ![n1] = 0, ![n2] = dir[d][n1]], nlink[d][dir[d][n1]])

\* The file is the reference under the directory.
sfs_link(t) ==
  LET d == top(t)[1]  n == op(t)[2]  f == refs[t][2] IN
  /\ Vop(t, "LINK") /\ UNCHANGED used
  /\ IF IsDir(f) THEN Result(t, "EINVAL") /\ UNCHANGED <<dir, nlink>>
     ELSE IF dir[d][n] # 0 THEN Result(t, "EEXIST") /\ UNCHANGED <<dir, nlink>>
     ELSE /\ Result(t, OK)
          /\ dir' = [dir EXCEPT ![d][n] = f[2]]
          /\ nlink' = [nlink EXCEPT ![d][f[2]] = @ + 1]

\* The directory's blocks cannot be read, or there is no memory.
VopFails(t) ==
  /\ todo[t] # <<>> /\ op(t)[1] \in {"LOOKUP", "CREAT", "REMOVE", "RENAME", "LINK", "TRUNCATE"}
  /\ IsDir(top(t)) \/ op(t)[1] = "TRUNCATE"
  /\ Locked(t) /\ Fault
  /\ Finish(t, "EIO", <<>>)
  /\ UNCHANGED <<refs, ref, fs, diskvars>>

\* The operations sfs does not have: mkdir, rmdir, symlink, readlink.
VOP_ENOSYS(t) ==
  /\ Vop(t, "ENOSYS")
  /\ Result(t, "ENOSYS")
  /\ UNCHANGED diskvars
=============================================================================
