--------------------------------- MODULE Sfs ---------------------------------
(***************************************************************************)
(* An sfs volume: its blocks, the free block bitmap and the inodes in      *)
(* memory, and what each operation does to them when the disk may fail.    *)
(*                                                                         *)
(* Every operation runs from its start to its end under vfs_biglock, so it *)
(* is one step, one of the outcomes of a function of the volume's state s. *)
(* An outcome is [s, err, v]: the state it leaves, its result, and what it *)
(* hands back.                                                             *)
(***************************************************************************)
EXTENDS Naturals, FiniteSets, Sequences, FiniteSetsExt, SequencesExt

CONSTANTS
  NB,          \* blocks of the volume (sb_nblocks)
  ND,          \* SFS_NDIRECT
  NIDB,        \* SFS_DBPERIDB
  BS,          \* values in a block of a file
  EB,          \* entries in a block of a directory
  Names,
  Values,      \* what is written to files, 0 being what a hole reads as
  Writes,      \* where: <<offset, length>>
  Handles,     \* files open at a time
  MaxFaults,   \* bound: disk operations that fail after all their retries
  MaxOps       \* bound: operations

ROOT == 1              \* SFS_ROOTDIR_INO; the superblock is block 0, the bitmap block 2
Block == 0..NB-1
OK == "ok"
FILE == 1
DIR == 2

VARIABLES
  disk,       \* the volume's blocks
  map,        \* sfs_freemap
  mapdirty,   \* sfs_freemapdirty
  vnodes,     \* sfs_vnodes: inodes in memory, with sv_dirty and the reference count
  mounted,    \* the volume is mounted
  faults,     \* failures so far
  handle,     \* the inode each open file refers to, or 0
  result,     \* of the last operation
  ops         \* operations so far

vars == <<disk, map, mapdirty, vnodes, mounted, faults, handle, result, ops>>

\* What a block holds.  A zeroed block is an inode of no type, an empty
\* indirect or directory block, or zeros.
NoInode == [type |-> 0, links |-> 0, size |-> 0, direct |-> [b \in 0..ND-1 |-> 0], ind |-> 0]
Zero == [kind |-> "zero"]
AsInode(c) == IF c.kind = "inode" THEN c.inode ELSE NoInode
AsInd(c) == IF c.kind = "ind" THEN c.ptr ELSE [k \in 0..NIDB-1 |-> 0]
NoEntry == [ino |-> 0, name |-> ""]
AsDir(c) == IF c.kind = "dir" THEN c.ent ELSE [k \in 0..EB-1 |-> NoEntry]
AsData(c) == IF c.kind = "data" THEN c.val ELSE [k \in 0..BS-1 |-> 0]

Out(s, e, v) == [s |-> s, err |-> e, v |-> v]
Ok(s) == {Out(s, OK, 0)}

\* The outcomes of F after those of O that are OK; after all of O, whose results stay.
Bind(O, F(_, _)) == UNION {IF o.err = OK THEN F(o.s, o.v) ELSE {o} : o \in O}
Always(O, F(_)) == UNION {{Out(p.s, o.err, o.v) : p \in F(o.s)} : o \in O}
-----------------------------------------------------------------------------
(* Blocks. *)

\* sfs_rwblock: all the tries fail.
EIO(s) == IF s.faults < MaxFaults THEN {Out([s EXCEPT !.faults = @ + 1], "EIO", 0)} ELSE {}

sfs_readblock(s, b) == {Out(s, OK, s.disk[b])} \union EIO(s)
sfs_writeblock(s, b, c) == Ok([s EXCEPT !.disk[b] = c]) \union EIO(s)

sfs_bfree(s, b) == [s EXCEPT !.map = @ \ {b}, !.mapdirty = TRUE]

\* The first free block, cleared; if that fails it is free again.
sfs_balloc(s) ==
  IF s.map = Block THEN {Out(s, "ENOSPC", 0)}
  ELSE LET b == Min(Block \ s.map)
           t == [s EXCEPT !.map = @ \union {b}, !.mapdirty = TRUE]
       IN  {Out(u.s, OK, b) : u \in Ok([t EXCEPT !.disk[b] = Zero])}
           \union {Out([u.s EXCEPT !.map = s.map], u.err, 0) : u \in EIO(t)}
-----------------------------------------------------------------------------
(* The block map of a file. *)

\* The indirect block's contents; it is allocated where there is none.
GetIndirect(s, i) ==
  IF s.vn[i].ind # 0 THEN sfs_readblock(s, s.vn[i].ind)
  ELSE Bind(sfs_balloc(s), LAMBDA t, b : {Out([t EXCEPT !.vn[i].ind = b, !.vn[i].dirty = TRUE], OK, Zero)})

\* The disk block of file block fb, 0 for a hole unless one is allocated.
sfs_bmap(s, i, fb, doalloc) ==
  IF fb < ND
  THEN IF s.vn[i].direct[fb] # 0 \/ ~doalloc THEN {Out(s, OK, s.vn[i].direct[fb])}
       ELSE Bind(sfs_balloc(s), LAMBDA t, b : {Out([t EXCEPT !.vn[i].direct[fb] = b, !.vn[i].dirty = TRUE], OK, b)})
  ELSE IF fb - ND >= NIDB THEN {Out(s, "EFBIG", 0)}
  ELSE IF s.vn[i].ind = 0 /\ ~doalloc THEN {Out(s, OK, 0)}
  ELSE Bind(GetIndirect(s, i), LAMBDA t, buf :
         LET k == fb - ND IN
         IF AsInd(buf)[k] # 0 \/ ~doalloc THEN {Out(t, OK, AsInd(buf)[k])}
         ELSE Bind(sfs_balloc(t), LAMBDA u, b :
                Bind(sfs_writeblock(u, u.vn[i].ind, [kind |-> "ind", ptr |-> [AsInd(buf) EXCEPT ![k] = b]]),
                     LAMBDA w, x : {Out(w, OK, b)})))

\* Blocks, direct and indirect, that a truncation to blocklen blocks drops.
DirectPast(s, i, blocklen) == {b \in 0..ND-1 : b >= blocklen /\ s.vn[i].direct[b] # 0}
IndPast(ptr, blocklen) == {k \in 0..NIDB-1 : blocklen < ND + k /\ ptr[k] # 0}

FreeDirect(s, i, D) ==
  [s EXCEPT !.map = @ \ {s.vn[i].direct[b] : b \in D},
            !.mapdirty = @ \/ D # {},
            !.vn[i].direct = [b \in 0..ND-1 |-> IF b \in D THEN 0 ELSE @[b]],
            !.vn[i].dirty = @ \/ D # {}]

\* Mutant: only the direct blocks are dropped.
FreeIndirect_Skips(s, i, blocklen) == Ok(s)

FreeIndirect(s, i, blocklen) ==
  IF s.vn[i].ind = 0 \/ blocklen >= ND + NIDB - 1 THEN Ok(s)
  ELSE Bind(sfs_readblock(s, s.vn[i].ind), LAMBDA t, buf :
         LET D == IndPast(AsInd(buf), blocklen)
             left == [k \in 0..NIDB-1 |-> IF k \in D THEN 0 ELSE AsInd(buf)[k]]
             u == [t EXCEPT !.map = @ \ {AsInd(buf)[k] : k \in D}, !.mapdirty = @ \/ D # {}]
         IN  IF \A k \in 0..NIDB-1 : left[k] = 0
             THEN Ok([sfs_bfree(u, u.vn[i].ind) EXCEPT !.vn[i].ind = 0, !.vn[i].dirty = TRUE])
             ELSE IF D # {} THEN sfs_writeblock(u, u.vn[i].ind, [kind |-> "ind", ptr |-> left])
             ELSE Ok(u))

sfs_itrunc(s, i, len) ==
  LET blocklen == (len + BS - 1) \div BS IN
  Bind(FreeIndirect(FreeDirect(s, i, DirectPast(s, i, blocklen)), i, blocklen),
       LAMBDA t, x : Ok([t EXCEPT !.vn[i].size = len, !.vn[i].dirty = TRUE]))
-----------------------------------------------------------------------------
(* Inodes in memory. *)

Inode(v) == [type |-> v.type, links |-> v.links, size |-> v.size, direct |-> v.direct, ind |-> v.ind]

sfs_sync_inode(s, i) ==
  IF ~s.vn[i].dirty THEN Ok(s)
  ELSE Bind(sfs_writeblock(s, i, [kind |-> "inode", inode |-> Inode(s.vn[i])]), LAMBDA t, x : Ok([t EXCEPT !.vn[i].dirty = FALSE]))

\* Another reference to a vnode in memory, or the inode read; forced into a file when it is new.
sfs_loadvnode(s, i, new) ==
  IF i \in DOMAIN s.vn THEN Ok([s EXCEPT !.vn[i].ref = @ + 1])
  ELSE Bind(sfs_readblock(s, i), LAMBDA t, c :
         LET d == AsInode(c) IN
         Ok([t EXCEPT !.vn = i :> [type |-> IF new THEN FILE ELSE d.type, links |-> d.links, size |-> d.size,
                                   direct |-> d.direct, ind |-> d.ind, dirty |-> new, ref |-> 1] @@ @]))

\* A failure leaves the vnode in memory with a reference nobody has.
sfs_reclaim(s, i) ==
  Bind(IF s.vn[i].links = 0 THEN sfs_itrunc(s, i, 0) ELSE Ok(s), LAMBDA t, x :
    Bind(sfs_sync_inode(t, i), LAMBDA u, y :
      LET w == IF u.vn[i].links = 0 THEN sfs_bfree(u, i) ELSE u IN
      Ok([w EXCEPT !.vn = [j \in DOMAIN @ \ {i} |-> @[j]]])))

VOP_DECREF(s, i) ==
  IF s.vn[i].ref > 1 THEN Ok([s EXCEPT !.vn[i].ref = @ - 1])
  ELSE {Out(o.s, OK, 0) : o \in sfs_reclaim(s, i)}

sfs_makeobj(s) ==
  Bind(sfs_balloc(s), LAMBDA t, i :
    {IF o.err = OK THEN Out(o.s, OK, i) ELSE Out(sfs_bfree(o.s, i), o.err, 0) : o \in sfs_loadvnode(t, i, TRUE)})
-----------------------------------------------------------------------------
(* Reading and writing files. *)

\* The disk block of each block of a file, where nothing fails.
BlockMap(s, inode) ==
  [fb \in 0..ND+NIDB-1 |-> IF fb < ND THEN inode.direct[fb]
                           ELSE IF inode.ind = 0 THEN 0 ELSE AsInd(s.disk[inode.ind])[fb - ND]]

\* sfs_io for reading: up to len values from off, not past the end; holes read as zeros.
sfs_read(s, inode, off, len) ==
  LET n == IF off >= inode.size THEN 0 ELSE IF off + len > inode.size THEN inode.size - off ELSE len
      m == BlockMap(s, inode)
  IN  [k \in 1..n |-> LET p == off + k - 1  b == m[p \div BS]
                      IN  IF b = 0 THEN 0 ELSE AsData(s.disk[b])[p % BS]]

\* Part of a block is read, changed and written back.  The offset has moved
\* when the write fails.  An outcome's v is how far the operation got.
sfs_partialio(s, i, off, len, val) ==
  LET p == off % BS IN
  Bind(sfs_bmap(s, i, off \div BS, TRUE), LAMBDA t, b :
    Bind(sfs_readblock(t, b), LAMBDA u, buf :
      LET new == [k \in 0..BS-1 |-> IF k \in p..p+len-1 THEN val ELSE AsData(buf)[k]] IN
      {Out(o.s, o.err, len) : o \in sfs_writeblock(u, b, [kind |-> "data", val |-> new])}))

\* A whole block is written.
sfs_blockio(s, i, off, val) ==
  Bind(sfs_bmap(s, i, off \div BS, TRUE), LAMBDA t, b :
    Bind(sfs_writeblock(t, b, [kind |-> "data", val |-> [k \in 0..BS-1 |-> val]]), LAMBDA u, x : {Out(u, OK, BS)}))

\* The pieces of a write, in order: a partial block, whole blocks, a partial one.
Pieces(off, len) ==
  LET first == off \div BS
      last == (off + len - 1) \div BS
      From(b) == IF b = first THEN off ELSE b * BS
      To(b) == IF b = last THEN off + len ELSE (b + 1) * BS
  IN  [k \in 1..last - first + 1 |-> <<From(first + k - 1), To(first + k - 1) - From(first + k - 1)>>]

\* The outcomes of one piece after those of the pieces before it; v is the offset.
Piece(O, p, i, val) ==
  UNION {IF o.err # OK THEN {o}
         ELSE {Out(q.s, q.err, p[1] + q.v) :
                 q \in IF p[2] = BS THEN sfs_blockio(o.s, i, p[1], val) ELSE sfs_partialio(o.s, i, p[1], p[2], val)} : o \in O}

\* Mutant: the size is always set.
Grow_Always(s, i, off, err) == [s EXCEPT !.vn[i].size = off, !.vn[i].dirty = TRUE]

\* The file grows by what was done, even if the rest failed.
Grow(s, i, off, err) ==
  IF off > s.vn[i].size THEN [s EXCEPT !.vn[i].size = off, !.vn[i].dirty = TRUE] ELSE s

sfs_write(s, i, off, len, val) ==
  {Out(Grow(o.s, i, o.v, o.err), o.err, 0) :
     o \in FoldLeft(LAMBDA O, p : Piece(O, p, i, val), {Out(s, OK, off)}, Pieces(off, len))}
-----------------------------------------------------------------------------
(* The root directory. *)

Entry(s, k) == AsDir(s.disk[BlockMap(s, s.vn[ROOT])[k \div EB]])[k % EB]
Slots(s) == 0..s.vn[ROOT].size - 1
Found(s, name) == {k \in Slots(s) : Entry(s, k).ino # 0 /\ Entry(s, k).name = name}
Empty(s) == {k \in Slots(s) : Entry(s, k).ino = 0}

\* All entries are read; v is the slot of the name.
sfs_dir_findname(s, name) ==
  EIO(s) \union IF Found(s, name) = {} THEN {Out(s, "ENOENT", 0)} ELSE {Out(s, OK, Min(Found(s, name)))}

\* sfs_metaio: the block is read and written back with the entry; the directory may grow.
sfs_writedir(s, k, ino, name) ==
  Bind(sfs_bmap(s, ROOT, k \div EB, TRUE), LAMBDA t, b :
    Bind(sfs_readblock(t, b), LAMBDA u, buf :
      Bind(sfs_writeblock(u, b, [kind |-> "dir", ent |-> [AsDir(buf) EXCEPT ![k % EB] = [ino |-> ino, name |-> name]]]),
           LAMBDA w, x : Ok(IF k < w.vn[ROOT].size THEN w ELSE [w EXCEPT !.vn[ROOT].size = k + 1, !.vn[ROOT].dirty = TRUE]))))

\* The last empty slot is taken, or a new one; v is the slot.
sfs_dir_link(s, name, ino) ==
  UNION {IF o.err = OK THEN {Out(o.s, "EEXIST", 0)}
         ELSE IF o.err # "ENOENT" THEN {o}
         ELSE LET k == IF Empty(s) = {} THEN s.vn[ROOT].size ELSE Max(Empty(s))
              IN  {Out(p.s, p.err, k) : p \in sfs_writedir(o.s, k, ino, name)} : o \in sfs_dir_findname(s, name)}

sfs_dir_unlink(s, k) == sfs_writedir(s, k, 0, "")

\* The vnode of a name; v is the slot.
sfs_lookonce(s, name) ==
  Bind(sfs_dir_findname(s, name), LAMBDA t, k :
    Bind(sfs_loadvnode(t, Entry(t, k).ino, FALSE), LAMBDA u, x : {Out(u, OK, k)}))

AddLink(s, i) == [s EXCEPT !.vn[i].links = @ + 1, !.vn[i].dirty = TRUE]
DropLink(s, i) == [s EXCEPT !.vn[i].links = @ - 1, !.vn[i].dirty = TRUE]
-----------------------------------------------------------------------------
(* The operations; a directory operation has a reference to the root, which *)
(* the VFS layer gets before it and gives back after it.                    *)

WithDir(s, F(_)) ==
  Bind(sfs_loadvnode(s, ROOT, FALSE), LAMBDA t, x : Always(F(t), LAMBDA u : VOP_DECREF(u, ROOT)))

\* v is the inode, which the caller refers to.
sfs_lookup(s, name) == Bind(sfs_lookonce(s, name), LAMBDA t, k : {Out(t, OK, Entry(t, k).ino)})

sfs_creat(s, name, excl) ==
  UNION {IF o.err = OK /\ excl THEN {Out(o.s, "EEXIST", 0)}
         ELSE IF o.err = OK THEN LET i == Entry(o.s, o.v).ino IN Bind(sfs_loadvnode(o.s, i, FALSE), LAMBDA t, x : {Out(t, OK, i)})
         ELSE IF o.err # "ENOENT" THEN {o}
         ELSE Bind(sfs_makeobj(o.s), LAMBDA t, i :
                UNION {IF p.err = OK THEN {Out(AddLink(p.s, i), OK, i)}
                       ELSE Always({p}, LAMBDA u : VOP_DECREF(u, i)) : p \in sfs_dir_link(t, name, i)})
           : o \in sfs_dir_findname(s, name)}

sfs_link(s, name, i) == Bind(sfs_dir_link(s, name, i), LAMBDA t, k : Ok(AddLink(t, i)))

sfs_remove(s, name) ==
  Bind(sfs_lookonce(s, name), LAMBDA t, k :
    LET i == Entry(t, k).ino IN
    Always(Bind(sfs_dir_unlink(t, k), LAMBDA u, x : Ok(DropLink(u, i))), LAMBDA u : VOP_DECREF(u, i)))

\* Mutant: the file stays in use when the new name is taken.
sfs_rename_Leaks(s, old, new) ==
  Bind(sfs_lookonce(s, old), LAMBDA t, k :
    LET i == Entry(t, k).ino IN
    Bind(sfs_dir_link(t, new, i), LAMBDA u, k2 :
      Always(Bind(sfs_dir_unlink(u, k), LAMBDA w, x : Ok(w)), LAMBDA w : VOP_DECREF(w, i))))

\* The second name is undone when the first cannot be taken away; if that fails
\* too, the kernel stops.
sfs_rename(s, old, new) ==
  Bind(sfs_lookonce(s, old), LAMBDA t, k :
    LET i == Entry(t, k).ino IN
    Always(Bind(sfs_dir_link(t, new, i), LAMBDA u, k2 :
             UNION {IF o.err = OK THEN Ok(DropLink(o.s, i))
                    ELSE {Out(IF p.err = OK THEN [p.s EXCEPT !.vn[i].links = @ - 1] ELSE p.s,
                              IF p.err = OK THEN o.err ELSE "panic", 0) : p \in sfs_dir_unlink(o.s, k2)}
                      : o \in sfs_dir_unlink(AddLink(u, i), k)}),
           LAMBDA u : VOP_DECREF(u, i)))

sfs_sync_freemap(s) ==
  IF ~s.mapdirty THEN Ok(s)
  ELSE Bind(sfs_writeblock(s, 2, [kind |-> "map", used |-> s.map]), LAMBDA t, x : Ok([t EXCEPT !.mapdirty = FALSE]))

\* The failure of one inode's write is not noticed.
sfs_sync(s) ==
  Bind(FoldSet(LAMBDA i, O : UNION {{Out(p.s, OK, 0) : p \in sfs_sync_inode(o.s, i)} : o \in O}, Ok(s), DOMAIN s.vn),
       LAMBDA t, x : sfs_sync_freemap(t))
-----------------------------------------------------------------------------
S == [disk |-> disk, map |-> map, mapdirty |-> mapdirty, vn |-> vnodes, faults |-> faults]

Becomes(s) == disk' = s.disk /\ map' = s.map /\ mapdirty' = s.mapdirty /\ vnodes' = s.vn /\ faults' = s.faults

\* One of the outcomes; h is the file it opens, if it does.
Op(O, h) ==
  /\ mounted /\ result # "panic" /\ ops < MaxOps /\ ops' = ops + 1
  /\ \E o \in O : /\ Becomes(o.s) /\ result' = o.err
                  /\ handle' = IF h \in Handles /\ o.err = OK THEN [handle EXCEPT ![h] = o.v] ELSE handle
  /\ UNCHANGED mounted

VOP_LOOKUP(h, n) == handle[h] = 0 /\ Op(WithDir(S, LAMBDA s : sfs_lookup(s, n)), h)
VOP_CREAT(h, n, excl) == handle[h] = 0 /\ Op(WithDir(S, LAMBDA s : sfs_creat(s, n, excl)), h)
VOP_REMOVE(n) == Op(WithDir(S, LAMBDA s : sfs_remove(s, n)), 0)
VOP_LINK(h, n) == handle[h] # 0 /\ Op(WithDir(S, LAMBDA s : sfs_link(s, n, handle[h])), 0)
VOP_RENAME(old, new) == Op(WithDir(S, LAMBDA s : sfs_rename(s, old, new)), 0)
VOP_WRITE(h, off, len, val) == handle[h] # 0 /\ Op(sfs_write(S, handle[h], off, len, val), 0)
VOP_TRUNCATE(h) == handle[h] # 0 /\ Op(sfs_itrunc(S, handle[h], 0), 0)
VOP_FSYNC(h) == handle[h] # 0 /\ Op(sfs_sync_inode(S, handle[h]), 0)
FSOP_SYNC == Op(sfs_sync(S), 0)

vfs_close(h) ==
  /\ mounted /\ result # "panic" /\ handle[h] # 0
  /\ \E o \in VOP_DECREF(S, handle[h]) : Becomes(o.s) /\ result' = o.err
  /\ handle' = [handle EXCEPT ![h] = 0]
  /\ UNCHANGED <<mounted, ops>>

\* vfs_unmount: synced, and no vnode in memory.
Unmount ==
  /\ mounted /\ result # "panic"
  /\ \E o \in sfs_sync(S) :
       LET gone == o.err = OK /\ DOMAIN o.s.vn = {} IN
       /\ Becomes(IF gone THEN [o.s EXCEPT !.map = {}] ELSE o.s)
       /\ mounted' = ~gone
       /\ result' = IF o.err = OK /\ ~gone THEN "EBUSY" ELSE o.err
  /\ UNCHANGED <<handle, ops>>

\* sfs_domount: the bitmap is read.
Mount ==
  /\ ~mounted /\ ops < MaxOps /\ ops' = ops + 1
  /\ \E o \in sfs_readblock(S, 2) :
       /\ Becomes(IF o.err = OK THEN [o.s EXCEPT !.map = o.v.used] ELSE o.s)
       /\ mounted' = (o.err = OK)
       /\ result' = o.err
  /\ UNCHANGED handle

\* As mksfs leaves the volume, mounted.
Init ==
  /\ map = {0, ROOT, 2} /\ mapdirty = FALSE
  /\ disk = [b \in Block |-> IF b = ROOT THEN [kind |-> "inode", inode |-> [NoInode EXCEPT !.type = DIR, !.links = 1]]
                             ELSE IF b = 2 THEN [kind |-> "map", used |-> {0, ROOT, 2}] ELSE Zero]
  /\ vnodes = <<>> /\ mounted = TRUE /\ faults = 0
  /\ handle = [h \in Handles |-> 0] /\ result = OK /\ ops = 0

Next ==
  \/ \E h \in Handles :
       \/ \E n \in Names : VOP_LOOKUP(h, n) \/ VOP_LINK(h, n) \/ \E excl \in BOOLEAN : VOP_CREAT(h, n, excl)
       \/ \E w \in Writes, val \in Values : VOP_WRITE(h, w[1], w[2], val)
       \/ VOP_TRUNCATE(h) \/ VOP_FSYNC(h) \/ vfs_close(h)
  \/ \E n \in Names : VOP_REMOVE(n) \/ \E m \in Names : VOP_RENAME(n, m)
  \/ FSOP_SYNC \/ Unmount \/ Mount

Spec == Init /\ [][Next]_vars
-----------------------------------------------------------------------------
(* Properties. *)

\* The inodes there are: in memory, or on the disk and named.
InodeOf(i) == IF i \in DOMAIN vnodes THEN Inode(vnodes[i]) ELSE AsInode(disk[i])
Listing == LET m == BlockMap(S, InodeOf(ROOT)) IN
           [k \in 0..InodeOf(ROOT).size - 1 |-> AsDir(disk[m[k \div EB]])[k % EB]]
Links == LET d == Listing IN {<<k, d[k]>> : k \in {j \in DOMAIN d : d[j].ino # 0}}
Inodes == {ROOT} \union DOMAIN vnodes \union {e[2].ino : e \in Links}

\* What refers to a block: <<inode, which of its blocks, block>>.
Refs(i) ==
  LET m == BlockMap(S, InodeOf(i)) IN
  {<<i, ND + NIDB + 1, i>>}
  \union (IF InodeOf(i).ind = 0 THEN {} ELSE {<<i, ND + NIDB, InodeOf(i).ind>>})
  \union {<<i, fb, m[fb]>> : fb \in {f \in DOMAIN m : m[f] # 0}}
AllRefs == UNION {Refs(i) : i \in Inodes}
InUse == {r[3] : r \in AllRefs} \union {0, 2}
Used == IF mounted THEN map ELSE disk[2].used

TypeOK ==
  /\ map \subseteq Block /\ mapdirty \in BOOLEAN /\ mounted \in BOOLEAN
  /\ DOMAIN vnodes \subseteq Block \ {0, 2}
  /\ \A i \in DOMAIN vnodes : vnodes[i].type = (IF i = ROOT THEN DIR ELSE FILE) /\ vnodes[i].ref > 0
  /\ disk[2].kind = "map" /\ handle \in [Handles -> Block]
  /\ \A h \in Handles : handle[h] # 0 => handle[h] \in DOMAIN vnodes

\* No block serves two purposes (sfs_balloc, sfs_bfree): none is in two files,
\* twice in one, or an inode and data.
BlocksDistinct == Cardinality(InUse) = Cardinality(AllRefs) + 2

\* A block that is referred to is marked used, or sfs_bmap and sfs_loadvnode
\* stop the kernel; without failures, one that is not is free again.
BlocksCounted ==
  /\ InUse \subseteq Used
  /\ faults = 0 => Used = InUse

\* A file's link count (sfs_creat, sfs_link, sfs_remove, sfs_rename) is the
\* number of its names also when an operation failed half way, and a name
\* occurs once (sfs_dir_findname asserts it).
LinksExact ==
  result # "panic" =>
  LET L == Links IN
  /\ \A i \in Inodes \ {ROOT} : InodeOf(i).links = Cardinality({e \in L : e[2].ino = i})
  /\ \A d, e \in L : d[2].name = e[2].name => d = e

\* What is not marked dirty is on the disk as it is in memory (sv_dirty,
\* sfs_freemapdirty), so a sync or the reclaiming of a vnode loses nothing.
CleanMatches ==
  /\ mounted /\ ~mapdirty => disk[2].used = map
  /\ \A i \in DOMAIN vnodes : ~vnodes[i].dirty => AsInode(disk[i]) = Inode(vnodes[i])

\* Without failures an inode is in memory while somebody has it open, and no
\* longer (sfs_loadvnode, sfs_reclaim).
VnodesExact ==
  faults = 0 => /\ DOMAIN vnodes = {handle[h] : h \in Handles} \ {0}
                /\ \A i \in DOMAIN vnodes : vnodes[i].ref = Cardinality({h \in Handles : handle[h] = i})

\* The volume is the files its users see (Files): an operation changes the
\* names or the one file it is about, whatever fails on the disk below, and
\* does all of it when it reports success.
FileOf == LET L == Links IN [n \in Names |-> IF \E e \in L : e[2].name = n THEN (CHOOSE e \in L : e[2].name = n)[2].ino ELSE 0]
Users == INSTANCE Files WITH
  Ids <- Block, open <- {handle[h] : h \in Handles} \ {0}, names <- FileOf,
  content <- [i \in Inodes \ {ROOT} |-> sfs_read(S, InodeOf(i), 0, (ND + NIDB) * BS)]
FilesSpec == Users!Spec

\* Every block has one use and the free map says which.
BlocksExact == BlocksDistinct /\ BlocksCounted

\* Directories, inodes and vnodes agree with each other and with the disk.
VolumeSound == TypeOK /\ LinksExact /\ CleanMatches /\ VnodesExact
=============================================================================
