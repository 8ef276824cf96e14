--------------------------------- MODULE Vfs ---------------------------------
(***************************************************************************)
(* The VFS layer: the device list (vfslist.c), name lookup (vfslookup.c),  *)
(* the current directory (vfscwd.c) and the operations on paths            *)
(* (vfspath.c), by threads of one process that share its current           *)
(* directory, as the kernel's own threads do.                              *)
(*                                                                         *)
(* A function of the code is the sequence of its steps, and its argument   *)
(* onerr what its caller does when it fails.  A path is <<start, name>>:   *)
(* start is "" for a relative path, "/" (the boot file system), ":" (the   *)
(* current one) or a device's name; name is the rest, and may be empty.    *)
(***************************************************************************)
EXTENDS Vnode

CONSTANTS
  Volname,     \* function: the volume name on each disk
  RawName,     \* function: mkrawname of each disk
  Attached,    \* the devices attached at boot, in order
  Calls,       \* the operations a thread may start, sequences of steps
  MaxCalls     \* bound: how many are started in all

VARIABLES
  known,     \* knowndevs
  cwd,       \* p_cwd
  bootfs,    \* bootfs_vnode
  handle,    \* per thread, the vnodes it has open
  calls      \* the operations started

vars == <<nvars, known, cwd, bootfs, handle, calls>>
-----------------------------------------------------------------------------
(* The device list. *)

Mounted(d) == fs[d] = "sfs"
NamesOf(d) == {d} \union (IF d \in Disks THEN {RawName[d]} ELSE {}) \union (IF Mounted(d) THEN {Volname[d]} ELSE {})

\* The index of the first device that answers to a name, 0 if none.
First(name) == LET S == {k \in DOMAIN known : name \in NamesOf(known[k])} IN IF S = {} THEN 0 ELSE Min(S)

badnames(d) == \E k \in DOMAIN known : (NamesOf(d) \intersect NamesOf(known[k])) # {}

\* A device is attached; one that may hold a file system gets a raw name too.
vfs_doadd(t) ==
  LET d == op(t)[2] IN
  /\ At(t, "adddev")
  /\ Locked(t)
  /\ \/ badnames(d) /\ Result(t, "EEXIST") /\ UNCHANGED known
     \/ ~badnames(d) /\ known' = Append(known, d) /\ ref' = [ref EXCEPT ![<<d, 0>>] = 1]
        /\ Finish(t, OK, <<>>) /\ NoFault /\ UNCHANGED refs
     \/ Fault /\ Finish(t, "ENOMEM", <<>>) /\ UNCHANGED <<ref, refs, known>>
  /\ UNCHANGED <<fs, diskvars, cwd, bootfs, handle, calls>>

\* vfs_getroot: the root of the file system a name stands for, or the device.
\* The result goes on top of t's references.
vfs_getroot(t, name) ==
  LET k == First(name)  d == known[k] IN
  IF k = 0 THEN Result(t, "ENODEV")
  ELSE IF Mounted(d) /\ name # RawName[d] THEN sfs_loadvnode(t, <<d, Root>>, <<<<d, Root>>>> \o refs[t])
  ELSE IF d \in Disks /\ name = d THEN Result(t, "ENXIO")
  ELSE sfs_loadvnode(t, <<d, 0>>, <<<<d, 0>>>> \o refs[t])

\* findmount and the tests of kd_fs: the device a mount or unmount is for.
findmount(name) == IF name \in Disks \intersect Range(known) THEN name ELSE "none"

vfs_mount(t) ==
  LET d == findmount(op(t)[2]) IN
  /\ At(t, "mount") /\ Locked(t)
  /\ \/ d = "none" /\ Result(t, "ENODEV") /\ UNCHANGED fs
     \/ d # "none" /\ fs[d] # "none" /\ Result(t, "EBUSY") /\ UNCHANGED fs
     \/ d # "none" /\ fs[d] = "none" /\ Result(t, OK) /\ fs' = [fs EXCEPT ![d] = "sfs"]
     \/ \* the mount function fails
        d # "none" /\ fs[d] = "none" /\ Fault /\ Finish(t, "EIO", <<>>) /\ UNCHANGED <<fs, ref, refs>>
  /\ UNCHANGED <<diskvars, known, cwd, bootfs, handle, calls>>

\* The volume has no vnode in memory (sfs_unmount).
Idle(d) == \A i \in {Root} \union Files : ref[<<d, i>>] = 0

vfs_unmount(t) ==
  LET d == findmount(op(t)[2]) IN
  /\ At(t, "unmount") /\ Locked(t)
  /\ \/ d = "none" /\ Result(t, "ENODEV") /\ UNCHANGED fs
     \/ d # "none" /\ fs[d] # "sfs" /\ Result(t, "EINVAL") /\ UNCHANGED fs
     \/ \* the sync fails
        d # "none" /\ fs[d] = "sfs" /\ Fault /\ Finish(t, "EIO", <<>>) /\ UNCHANGED <<fs, ref, refs>>
     \/ d # "none" /\ fs[d] = "sfs" /\ ~Idle(d) /\ Result(t, "EBUSY") /\ UNCHANGED fs
     \/ d # "none" /\ fs[d] = "sfs" /\ Idle(d) /\ Result(t, OK) /\ fs' = [fs EXCEPT ![d] = "none"]
  /\ UNCHANGED <<diskvars, known, cwd, bootfs, handle, calls>>

\* The raw device's vnode is handed to the caller, which keeps it.
vfs_swapon(t) ==
  LET d == findmount(op(t)[2]) IN
  /\ At(t, "swapon") /\ Locked(t)
  /\ \/ d = "none" /\ Result(t, "ENODEV") /\ UNCHANGED <<fs, handle>>
     \/ d # "none" /\ fs[d] # "none" /\ Result(t, "EBUSY") /\ UNCHANGED <<fs, handle>>
     \/ /\ d # "none" /\ fs[d] = "none"
        /\ fs' = [fs EXCEPT ![d] = "swap"]
        /\ vnode_incref(<<d, 0>>) /\ handle' = [handle EXCEPT ![t] = <<<<d, 0>>>> \o @]
        /\ Finish(t, OK, <<>>) /\ NoFault /\ UNCHANGED refs
  /\ UNCHANGED <<diskvars, known, cwd, bootfs, calls>>

vfs_swapoff(t) ==
  LET d == findmount(op(t)[2]) IN
  /\ At(t, "swapoff") /\ Locked(t)
  /\ \/ d = "none" /\ Result(t, "ENODEV") /\ UNCHANGED fs
     \/ d # "none" /\ fs[d] # "swap" /\ Result(t, "EINVAL") /\ UNCHANGED fs
     \/ d # "none" /\ fs[d] = "swap" /\ Result(t, OK) /\ fs' = [fs EXCEPT ![d] = "none"]
  /\ UNCHANGED <<diskvars, known, cwd, bootfs, handle, calls>>

\* Every volume that is not busy and can be synced, at the second try at least.
vfs_unmountall(t) ==
  /\ At(t, "unmountall") /\ Locked(t)
  /\ \E stuck \in SUBSET {d \in Devices : Mounted(d)} :
       /\ faults + 2 * Cardinality(stuck) <= MaxFaults
       /\ faults' = faults + 2 * Cardinality(stuck)
       /\ fs' = [d \in Devices |-> IF Mounted(d) /\ (d \in stuck \/ ~Idle(d)) THEN "sfs" ELSE "none"]
  /\ Finish(t, OK, <<>>)
  /\ UNCHANGED <<refs, ref, diskvars, known, cwd, bootfs, handle, calls>>
-----------------------------------------------------------------------------
(* The current directory. *)

vfs_getcurdir(t) ==
  /\ At(t, "getcurdir")
  /\ IF cwd = None THEN Result(t, "ENOENT")
     ELSE sfs_loadvnode(t, cwd, <<cwd>> \o refs[t])
  /\ UNCHANGED <<lockvars, fs, diskvars, known, cwd, bootfs, handle, calls>>

\* Mutant: no reference for p_cwd.
vfs_setcurdir_NoIncref(t) ==
  LET v == top(t)  old == IF cwd = None THEN <<>> ELSE <<cwd>> IN
  /\ At(t, "setcurdir")
  /\ IF ~IsDir(v) THEN Result(t, "ENOTDIR") /\ UNCHANGED cwd
     ELSE /\ cwd' = v /\ NoFault /\ UNCHANGED ref
          /\ refs' = [refs EXCEPT ![t] = old \o @]
          /\ Finish(t, OK, IF old = <<>> THEN <<>> ELSE <<<<"decref">>>>)
  /\ UNCHANGED <<lockvars, fs, diskvars, known, bootfs, handle, calls>>

\* The new directory is counted before the old is let go, which may be the same.
vfs_setcurdir(t) ==
  LET v == top(t)  old == IF cwd = None THEN <<>> ELSE <<cwd>> IN
  /\ At(t, "setcurdir")
  /\ IF ~IsDir(v) THEN Result(t, "ENOTDIR") /\ UNCHANGED cwd
     ELSE /\ cwd' = v /\ NoFault /\ vnode_incref(v)
          /\ refs' = [refs EXCEPT ![t] = old \o @]
          /\ Finish(t, OK, IF old = <<>> THEN <<>> ELSE <<<<"decref">>>>)
  /\ UNCHANGED <<lockvars, fs, diskvars, known, bootfs, handle, calls>>

vfs_clearcurdir(t) ==
  /\ At(t, "clearcurdir")
  /\ cwd' = None
  /\ refs' = IF cwd = None THEN refs ELSE [refs EXCEPT ![t] = <<cwd>> \o @]
  /\ Finish(t, OK, IF cwd = None THEN <<>> ELSE <<<<"decref">>>>)
  /\ UNCHANGED <<lockvars, ref, fs, diskvars, faults, known, bootfs, handle, calls>>

\* change_bootfs: t's last reference becomes the boot file system's, or none does.
change_bootfs(t) ==
  LET new == op(t)[2] = "set"  old == IF bootfs = None THEN <<>> ELSE <<bootfs>> IN
  /\ At(t, "change_bootfs")
  /\ bootfs' = IF new THEN top(t) ELSE None
  /\ refs' = [refs EXCEPT ![t] = old \o IF new THEN Tail(@) ELSE @]
  /\ Finish(t, OK, IF old = <<>> THEN <<>> ELSE <<<<"decref">>>>)
  /\ UNCHANGED <<lockvars, ref, fs, diskvars, faults, known, cwd, handle, calls>>
-----------------------------------------------------------------------------
(* Names to vnodes. *)

\* ":path": the root of the current directory's file system, which is got
\* before the reference to the current directory is given back.
CurrentRoot(t) ==
  LET root == <<cwd[1], Root>> IN
  /\ ref' = [v \in Vnodes |-> ref[v] + (IF v = cwd THEN 1 ELSE 0) + (IF v = root THEN 1 ELSE 0)]
  /\ refs' = [refs EXCEPT ![t] = <<cwd, root>> \o @]
  /\ Finish(t, OK, <<<<"decref">>>>) /\ NoFault

\* The vnode a path starts from.
getdevice(t) ==
  LET start == op(t)[2][1] IN
  /\ At(t, "getdevice")
  /\ IF op(t)[2] = <<"", "">> THEN Result(t, "EINVAL")
     ELSE IF start = "/" THEN
       IF bootfs = None THEN Result(t, "ENOENT") ELSE sfs_loadvnode(t, bootfs, <<bootfs>> \o refs[t])
     ELSE IF start \notin {"", ":"} THEN vfs_getroot(t, start)
     ELSE IF cwd = None THEN Result(t, "ENOENT")
     ELSE IF start = ":" THEN CurrentRoot(t)
     ELSE sfs_loadvnode(t, cwd, <<cwd>> \o refs[t])
  /\ UNCHANGED <<lockvars, fs, diskvars, known, cwd, bootfs, handle, calls>>

IfErr(ops) == <<<<"iferr", ops>>>>
Decref == <<<<"decref">>>>

vfs_lookup(path, onerr) ==
  <<<<"acquire">>, <<"getdevice", path>>>> \o IfErr(<<<<"release">>>> \o IfErr(onerr))
  \o (IF path[2] = "" THEN <<>> ELSE <<<<"LOOKUP", path[2]>>>> \o Decref)
  \o <<<<"release">>>> \o IfErr(onerr)

vfs_lookparent(path, onerr) ==
  <<<<"acquire">>, <<"getdevice", path>>>> \o IfErr(<<<<"release">>>> \o IfErr(onerr))
  \o <<<<"LOOKPARENT", path[2]>>>> \o Decref \o <<<<"release">>>> \o IfErr(onerr)
-----------------------------------------------------------------------------
(* The operations on paths, and on what is open. *)

vfs_open(path, flags) ==
  (IF "creat" \in flags
   THEN vfs_lookparent(path, <<>>) \o <<<<"CREAT", path[2], flags>>>> \o Decref \o IfErr(<<>>)
   ELSE vfs_lookup(path, <<>>))
  \o <<<<"EACHOPEN", flags>>>> \o IfErr(Decref)
  \o (IF "trunc" \in flags THEN <<<<"TRUNCATE", flags>>>> \o IfErr(Decref) ELSE <<>>)
  \o <<<<"opened">>>>

vfs_remove(path) == vfs_lookparent(path, <<>>) \o <<<<"REMOVE", path[2]>>>> \o Decref

vfs_rename(old, new) ==
  vfs_lookparent(old, <<>>) \o vfs_lookparent(new, Decref)
  \o <<<<"EXDEV">>>> \o IfErr(Decref \o Decref) \o <<<<"RENAME", old[2], new[2]>>>> \o Decref \o Decref

vfs_link(old, new) ==
  vfs_lookup(old, <<>>) \o vfs_lookparent(new, Decref)
  \o <<<<"EXDEV">>>> \o IfErr(Decref \o Decref) \o <<<<"LINK", new[2]>>>> \o Decref \o Decref

\* vfs_symlink, vfs_mkdir and vfs_rmdir: no file system has them.
vfs_mkdir(path) == vfs_lookparent(path, <<>>) \o <<<<"ENOSYS">>>> \o Decref

vfs_chdir(path, onerr) ==
  vfs_lookup(path, onerr) \o <<<<"setcurdir">>>> \o IfErr(Decref \o IfErr(onerr)) \o Decref

\* The name is taken without a colon: with one, the code refuses it.
vfs_setbootfs(name) ==
  <<<<"acquire">>>> \o vfs_chdir(<<name, "">>, <<<<"release">>>>)
  \o <<<<"getcurdir">>>> \o IfErr(<<<<"release">>>>) \o <<<<"change_bootfs", "set">>, <<"release">>>>

vfs_clearbootfs == <<<<"acquire">>, <<"change_bootfs", "clear">>, <<"release">>>>

vfs_getcwd == <<<<"getcurdir">>>> \o IfErr(<<>>) \o Decref

\* The two directories must be of one file system; a device has none.
SameFs(t) ==
  LET a == refs[t][1]  b == refs[t][2] IN
  /\ At(t, "EXDEV")
  /\ Result(t, IF ~IsDevice(a) /\ ~IsDevice(b) /\ a[1] = b[1] THEN OK ELSE "EXDEV")
  /\ UNCHANGED <<lockvars, fs, diskvars, known, cwd, bootfs, handle, calls>>

\* The vnode opened is the caller's.
Opened(t) ==
  /\ At(t, "opened")
  /\ handle' = [handle EXCEPT ![t] = <<top(t)>> \o @]
  /\ refs' = [refs EXCEPT ![t] = Tail(@)]
  /\ Done(t)
  /\ UNCHANGED <<lockvars, ref, fs, diskvars, faults, known, cwd, bootfs, calls>>

vfs_close(t) ==
  /\ todo[t] = <<>> /\ handle[t] # <<>>
  /\ handle' = [handle EXCEPT ![t] = Tail(@)]
  /\ refs' = [refs EXCEPT ![t] = <<Head(handle[t])>> \o @]
  /\ todo' = [todo EXCEPT ![t] = Decref]
  /\ UNCHANGED <<err, lockvars, ref, fs, diskvars, faults, known, cwd, bootfs, calls>>

Call(t) ==
  /\ todo[t] = <<>> /\ calls < MaxCalls
  /\ \E c \in Calls[t] : todo' = [todo EXCEPT ![t] = c]
  /\ calls' = calls + 1
  /\ err' = [err EXCEPT ![t] = OK]
  /\ UNCHANGED <<refs, lockvars, ref, fs, diskvars, faults, known, cwd, bootfs, handle>>
-----------------------------------------------------------------------------
\* vfs_bootstrap, and the devices of the boot attached.
Init ==
  /\ known = Attached
  /\ todo = [t \in Threads |-> <<>>] /\ refs = [t \in Threads |-> <<>>] /\ err = [t \in Threads |-> OK]
  /\ owner = "none" /\ depth = 0
  /\ ref = [v \in Vnodes |-> IF IsDevice(v) /\ v[1] \in Range(Attached) THEN 1 ELSE 0]
  /\ fs = [d \in Devices |-> "none"]
  /\ used = [d \in Devices |-> {}]
  /\ nlink = [d \in Devices |-> [i \in Files |-> 0]]
  /\ dir = [d \in Devices |-> [n \in Names |-> 0]]
  /\ cwd = None /\ bootfs = None
  /\ handle = [t \in Threads |-> <<>>] /\ calls = 0
  /\ faults = 0 /\ stranded = {}

VnodeStep(t) ==
  /\ \/ Acquire(t) \/ Release(t) \/ vnode_decref(t)
     \/ VOP_LOOKUP(t) \/ VOP_LOOKPARENT(t) \/ VOP_EACHOPEN(t) \/ VOP_TRUNCATE(t) \/ VOP_ENOSYS(t)
     \/ sfs_creat(t) \/ sfs_remove(t) \/ sfs_rename(t) \/ sfs_link(t) \/ VopFails(t)
  /\ UNCHANGED <<known, cwd, bootfs, handle, calls>>

VfsStep(t) ==
  \/ vfs_doadd(t) \/ vfs_mount(t) \/ vfs_unmount(t) \/ vfs_swapon(t) \/ vfs_swapoff(t)
  \/ vfs_unmountall(t) \/ vfs_getcurdir(t) \/ vfs_setcurdir(t) \/ vfs_clearcurdir(t) \/ change_bootfs(t)
  \/ getdevice(t) \/ SameFs(t) \/ Opened(t)

\* An operation goes on.
Goes(t) ==
  \/ (VnodeStep(t) \/ VfsStep(t)) /\ UNCHANGED stranded
  \/ sfs_reclaim(t) /\ UNCHANGED <<known, cwd, bootfs, handle, calls>>

Next == \E t \in Threads : Goes(t) \/ ((vfs_close(t) \/ Call(t)) /\ UNCHANGED stranded)

\* Threads run; nobody need call anything.
Spec == Init /\ [][Next]_vars /\ \A t \in Threads : WF_vars(Goes(t))
-----------------------------------------------------------------------------
(* Properties. *)

TypeOK ==
  /\ known \in Seq(Devices) /\ cwd \in Vnodes \union {None} /\ bootfs \in Vnodes \union {None}
  /\ \A t \in Threads : Range(handle[t]) \union Range(refs[t]) \subseteq Vnodes
  /\ owner \in Threads \union {"none"} /\ depth \in 0..4 /\ (owner = "none" <=> depth = 0)
  /\ ref \in [Vnodes -> Nat]
  /\ fs \in [Devices -> {"none", "swap", "sfs"}]
  /\ stranded \subseteq Vnodes

In(s, v) == Cardinality({k \in DOMAIN s : s[k] = v})

\* The references to v that somebody will give back, and the device list's own.
Held(v) ==
  MapThenSumSet(LAMBDA t : In(refs[t], v) + In(handle[t], v)
                           + IF todo[t] # <<>> /\ op(t)[1] = "RECLAIM" /\ op(t)[2] = v THEN 1 ELSE 0, Threads)
  + (IF v = cwd THEN 1 ELSE 0) + (IF v = bootfs THEN 1 ELSE 0)
  + In([k \in DOMAIN known |-> <<known[k], 0>>], v)

\* A vnode's count (vnode.c) is the number of references to it, so that no path
\* through the VFS leaks one or gives one back twice, and no vnode is used
\* after it was reclaimed.  One reference more has a vnode whose reclaim failed
\* (sfs_reclaim): it belongs to nobody, it stays one however often the
\* vnode is looked up and let go again, and nothing else leaves one behind.
RefsExact == \A v \in Vnodes : ref[v] = Held(v) + IF v \in stranded THEN 1 ELSE 0

\* An operation that has returned (vfspath.c, vfslookup.c) holds no reference
\* and not the big lock, whichever of its steps failed.
NothingKept == \A t \in Threads : todo[t] = <<>> => refs[t] = <<>> /\ owner # t

\* A file system (vfs_unmount, vfs_unmountall) goes only when nothing refers to
\* it any more: no vnode of an unmounted volume is in memory.
UnmountSafe == \A v \in Vnodes : ref[v] > 0 /\ ~IsDevice(v) => Mounted(v[1])

\* An inode (sfs_reclaim, sfs_creat) is neither given away while a vnode or a
\* name refers to it nor kept when none does.
InodesKept ==
  \A d \in Devices : used[d] = {i \in Files : nlink[d][i] > 0 \/ ref[<<d, i>>] > 0}

\* A file's link count (sfs_creat, sfs_link, sfs_remove, sfs_rename) is the
\* number of its names.
LinksCounted == \A d \in Devices : \A i \in Files : nlink[d][i] = Cardinality({n \in Names : dir[d][n] = i})

\* The current directory and the boot file system are directories of mounted
\* volumes: vfs_getcwd and getdevice assert that they are not devices.
CwdIsDir == \A v \in {cwd, bootfs} \ {None} : IsDir(v) /\ Mounted(v[1])

\* A name stands for one device (vfs_doadd).
NamesDistinct ==
  \A j, k \in DOMAIN known : j # k => NamesOf(known[j]) \intersect NamesOf(known[k]) = {}

\* References are given back exactly once on every path of the VFS, and none
\* outlives the operation that took it; the one that a failed reclaim could not
\* give back (README, section 7) is counted, and stays alone.
ReferencesExact == TypeOK /\ RefsExact /\ NothingKept

\* Names, inodes and volumes agree: nothing that has a name or a user goes.
NamespaceSound == UnmountSafe /\ InodesKept /\ LinksCounted /\ CwdIsDir /\ NamesDistinct

\* Every operation ends, whatever the other thread does and whichever step
\* fails: vfs_biglock, taken again by functions that are called with it
\* (vfs_setbootfs over vfs_chdir, a lookup or a removal over the reclaim of a last
\* reference), is given back as often as it was taken, and nobody waits for
\* himself or for ever.
OperationsEnd == \A t \in Threads : todo[t] # <<>> ~> todo[t] = <<>>
=============================================================================
