-------------------------------- MODULE SFS --------------------------------
(***************************************************************************)
(* The file system SFS of the base kernel (kern/fs/sfs) as operators: what *)
(* each function does to the volume and to the file system's memory.  All  *)
(* of it runs under vfs_biglock, so a call from outside is one step.       *)
(*                                                                         *)
(* A function takes and returns a record s with                            *)
(*   disk                 the volume                                       *)
(*   fm, fmdirty          sfs_freemap (the blocks in use), sfs_freemapdirty*)
(*   vn                   of each loaded vnode the inode i, sv_dirty and   *)
(*                        vn_refcount                                      *)
(*   order                sfs_vnodes: the loaded vnodes as they came       *)
(*   err, ret             the result, "ok" for 0, and what is handed back  *)
(*   io                   how many blocks the call has read or written     *)
(*   fail                 the numbers of the transfers that fail           *)
(*   cut                  how many transfers there are before power fails  *)
(*   lost                 whether a write did not reach the disk           *)
(***************************************************************************)
EXTENDS SFSLayout

OK(s) == s.err = "ok"
Fail(s, e) == [s EXCEPT !.err = e]
Panic(s) == Fail(s, "panic")
Ret(s, x) == [s EXCEPT !.ret = x]

(* The next statement of a function, if the one before it succeeded. *)
Then(s, F(_)) == IF OK(s) THEN F(s) ELSE s

(* sfs_rwblock with its retries.  A read that fails every time gives EIO.  *)
(* lhd_io has used up the uio when a write fails (uiomove), so the retry   *)
(* has no sector left to do and is a success: the caller hears of no       *)
(* error, and the block is as it was.                                      *)
sfs_rwblock(s, rw) ==
    [s EXCEPT !.io = @ + 1,
              !.err = IF rw = "read" /\ s.io + 1 \in s.fail THEN "EIO" ELSE "ok"]

sfs_readblock(s) == sfs_rwblock(s, "read")

sfs_writeblock(s, b, contents) ==
    After(sfs_rwblock(s, "write"), LAMBDA r :
      IF r.io \in r.fail THEN [r EXCEPT !.lost = TRUE]
      ELSE IF r.io <= r.cut THEN [r EXCEPT !.disk[b] = contents] ELSE r)
-----------------------------------------------------------------------------
(* Blocks and inodes *)

sfs_balloc(s) ==
    IF s.fm = Block THEN Fail(s, "ENOSPC")
    ELSE LET b == Min(Block \ s.fm) IN
         After(sfs_writeblock([s EXCEPT !.fm = @ \cup {b}, !.fmdirty = TRUE], b, Zeros), LAMBDA r :
           IF OK(r) THEN Ret(r, b) ELSE [r EXCEPT !.fm = @ \ {b}])

sfs_bfree(s, b) ==
    IF b \in s.fm THEN [s EXCEPT !.fm = @ \ {b}, !.fmdirty = TRUE] ELSE Panic(s)

(* The loop of itrunc over a row of pointers: the blocks B are freed. *)
FreeAll(s, B) == FoldLeft(LAMBDA r, b : Then(r, LAMBDA t : sfs_bfree(t, b)), s, SetToSeq(B))

NoVnodes == [v \in {} |-> 0]
Inode(s, v) == s.vn[v].i
SetInode(s, v, i) == [s EXCEPT !.vn[v].i = i, !.vn[v].dirty = TRUE]

(* Hand back block b, which had better be marked in use. *)
Used(s, b) == IF b # 0 /\ b \notin s.fm THEN Panic(s) ELSE Ret(s, b)

bmap_direct(s, v, fb, doalloc) ==
    IF Inode(s, v).direct[fb] = 0 /\ doalloc
    THEN Then(sfs_balloc(s), LAMBDA r :
           SetInode(r, v, [Inode(r, v) EXCEPT !.direct[fb] = r.ret]))
    ELSE Used(s, Inode(s, v).direct[fb])

(* A new indirect block is not read: its buffer is cleared. *)
bmap_indirect(s, v, off, doalloc) ==
    LET new == Inode(s, v).indirect = 0 IN
    Then(IF new
         THEN Then(sfs_balloc(s), LAMBDA r :
                SetInode(r, v, [Inode(r, v) EXCEPT !.indirect = r.ret]))
         ELSE sfs_readblock(s), LAMBDA id :
      LET idblock == Inode(id, v).indirect
          idbuf == AsUnits(IF new THEN Zeros ELSE id.disk[idblock])
      IN IF idbuf[off][1] = 0 /\ doalloc
         THEN Then(sfs_balloc(id), LAMBDA r :
                Ret(sfs_writeblock(r, idblock, Units([idbuf EXCEPT ![off] = Word(r.ret)])), r.ret))
         ELSE Used(id, idbuf[off][1]))

sfs_bmap(s, v, fb, doalloc) ==
    IF fb < NDirect THEN bmap_direct(s, v, fb, doalloc)
    ELSE IF fb >= FileBlocks THEN Fail(s, "EFBIG")
    ELSE IF Inode(s, v).indirect = 0 /\ ~doalloc THEN Ret(s, 0)
    ELSE bmap_indirect(s, v, fb - NDirect, doalloc)

(* The indirect block of a file that is cut to blocklen blocks.  An entry  *)
(* goes if it is beyond blocklen, not if it is at blocklen.                *)
itrunc_indirect(s, v, blocklen) ==
    Then(sfs_readblock(s), LAMBDA r :
      LET idblock == Inode(s, v).indirect
          idbuf == AsUnits(s.disk[idblock])
          gone == {j \in DOMAIN idbuf : blocklen < NDirect + j /\ idbuf[j][1] # 0}
          left == [j \in DOMAIN idbuf |-> IF j \in gone THEN NoEntry ELSE idbuf[j]]
      IN Then(FreeAll(r, {idbuf[j][1] : j \in gone}), LAMBDA f :
           IF \A j \in DOMAIN left : left[j][1] = 0
           THEN Then(sfs_bfree(f, idblock), LAMBDA t :
                  SetInode(t, v, [Inode(t, v) EXCEPT !.indirect = 0]))
           ELSE IF gone # {} THEN sfs_writeblock(f, idblock, Units(left))
           ELSE f))

sfs_itrunc(s, v, len) ==
    LET blocklen == BlocksFor(len)
        i == Inode(s, v)
        gone == {k \in DOMAIN i.direct : k >= blocklen /\ i.direct[k] # 0}
        kept == [k \in DOMAIN i.direct |-> IF k \in gone THEN 0 ELSE i.direct[k]]
        d == IF gone = {} THEN s
             ELSE SetInode(FreeAll(s, {i.direct[k] : k \in gone}), v, [i EXCEPT !.direct = kept])
        t == Then(d, LAMBDA r : IF blocklen < FileBlocks - 1 /\ i.indirect # 0
                                THEN itrunc_indirect(r, v, blocklen) ELSE r)
    IN Then(t, LAMBDA r : SetInode(r, v, [Inode(r, v) EXCEPT !.size = len]))

(* Mutant: the inode is marked clean and not written. *)
sfs_sync_inode_late(s, v) == [s EXCEPT !.vn[v].dirty = FALSE]

sfs_sync_inode(s, v) ==
    IF s.vn[v].dirty
    THEN Then(sfs_writeblock(s, v, InodeBlock(Inode(s, v))), LAMBDA r :
           [r EXCEPT !.vn[v].dirty = FALSE])
    ELSE s
-----------------------------------------------------------------------------
(* Vnodes *)

AddRef(s, v, n) == [s EXCEPT !.vn[v].ref = @ + n]

(* The vnode goes from the table. *)
Unload(s, v) ==
    [s EXCEPT !.vn = [x \in DOMAIN @ \ {v} |-> @[x]], !.order = Remove(@, v)]

(* Mutant: the block of an erased file's inode is not freed. *)
sfs_reclaim_leak(s, v) ==
    LET t == IF Inode(s, v).links = 0 THEN sfs_itrunc(s, v, 0) ELSE s
        u == Then(t, LAMBDA r : sfs_sync_inode(r, v))
    IN IF s.vn[v].ref # 1 THEN Fail(AddRef(s, v, -1), "EBUSY")
       ELSE Then(u, LAMBDA r : Unload(r, v))

(* Mutant: the reference stays when somebody else has one. *)
sfs_reclaim_busy(s, v) ==
    LET erase == Inode(s, v).links = 0
        t == IF erase THEN sfs_itrunc(s, v, 0) ELSE s
        u == Then(t, LAMBDA r : sfs_sync_inode(r, v))
        w == Then(u, LAMBDA r : IF erase THEN sfs_bfree(r, v) ELSE r)
    IN IF s.vn[v].ref # 1 THEN Fail(s, "EBUSY")
       ELSE Then(w, LAMBDA r : Unload(r, v))

(* Somebody may have picked up the vnode since vnode_decref decided.  When *)
(* erasing or writing the inode fails the vnode stays, with the reference. *)
sfs_reclaim(s, v) ==
    LET erase == Inode(s, v).links = 0
        t == IF erase THEN sfs_itrunc(s, v, 0) ELSE s
        u == Then(t, LAMBDA r : sfs_sync_inode(r, v))
        w == Then(u, LAMBDA r : IF erase THEN sfs_bfree(r, v) ELSE r)
    IN IF s.vn[v].ref # 1 THEN Fail(AddRef(s, v, -1), "EBUSY")
       ELSE Then(w, LAMBDA r : Unload(r, v))

(* VOP_RECLAIM from vnode_decref, which prints the error and goes on. *)
Reclaim(s, v) ==
    After(sfs_reclaim([s EXCEPT !.err = "ok"], v), LAMBDA r :
      IF r.err = "panic" THEN r ELSE Fail(r, s.err))

(* vnode_decref where the caller holds vfs_biglock *)
VOP_DECREF(s, v) == IF s.vn[v].ref > 1 THEN AddRef(s, v, -1) ELSE Reclaim(s, v)

sfs_loadvnode(s, v, forcetype) ==
    IF v \in DOMAIN s.vn
    THEN IF DOMAIN s.vn \subseteq s.fm /\ forcetype = "inval"
         THEN Ret(AddRef(s, v, 1), v) ELSE Panic(s)
    ELSE IF v \notin s.fm \/ ~(DOMAIN s.vn \subseteq s.fm) THEN Panic(s)
    ELSE Then(sfs_readblock(s), LAMBDA r :
           LET i == AsInode(r.disk[v])
               type == IF forcetype # "inval" THEN forcetype ELSE i.type
               new == [i |-> [i EXCEPT !.type = type], dirty |-> forcetype # "inval", ref |-> 1]
           IN IF type \notin {"file", "dir"} \/ (forcetype # "inval" /\ i.type # "inval")
              THEN Panic(r)
              ELSE Ret([r EXCEPT !.vn = [x \in DOMAIN @ \cup {v} |-> IF x = v THEN new ELSE @[x]],
                                 !.order = Append(@, v)], v))

sfs_makeobj(s, type) ==
    Then(sfs_balloc(s), LAMBDA r :
      After(sfs_loadvnode(r, r.ret, type), LAMBDA t :
        IF t.err \in {"ok", "panic"} THEN t ELSE Fail(sfs_bfree(t, r.ret), t.err)))

sfs_getroot(s) ==
    Then(sfs_loadvnode(s, ROOT, "inval"), LAMBDA r :
      IF Inode(r, ROOT).type # "dir" THEN Fail(r, "EINVAL") ELSE r)
-----------------------------------------------------------------------------
(* Directories.  The scan for a name counts as one transfer. *)

sfs_dir_findname(s, d, name) ==
    LET i == Inode(s, d)
        r == IF i.size = 0 THEN s ELSE sfs_readblock(s)
        hits == {k \in Entries(s.disk, i) : UnitAt(s.disk, i, k)[2] = name}
    IN IF ~OK(r) THEN r
       ELSE IF \E k \in Slots(i) : Pointer(s.disk, i, k \div PerBlock) \notin s.fm \cup {0}
       THEN Panic(r)
       ELSE IF Cardinality(hits) > 1 THEN Panic(r)
       ELSE IF hits = {} THEN Fail(r, "ENOENT")
       ELSE Ret(r, Max(hits))

(* sfs_writedir and the sfs_metaio it calls *)
sfs_writedir(s, d, slot, entry) ==
    Then(sfs_bmap(s, d, slot \div PerBlock, TRUE), LAMBDA b :
      Then(sfs_readblock(b), LAMBDA r :
        LET buf == [AsUnits(r.disk[b.ret]) EXCEPT ![slot % PerBlock] = entry] IN
        Then(sfs_writeblock(r, b.ret, Units(buf)), LAMBDA w :
          IF slot + 1 > Inode(w, d).size
          THEN SetInode(w, d, [Inode(w, d) EXCEPT !.size = slot + 1]) ELSE w)))

(* It takes the last empty slot, or adds one, and hands it back. *)
sfs_dir_link(s, d, name, ino) ==
    LET i == Inode(s, d)
        empty == Slots(i) \ Entries(s.disk, i)
        slot == IF empty = {} THEN i.size ELSE Max(empty)
    IN After(sfs_dir_findname(s, d, name), LAMBDA f :
         CASE f.err = "ENOENT" -> Ret(sfs_writedir(Fail(f, "ok"), d, slot, <<ino, name>>), slot)
           [] f.err = "ok" -> Fail(f, "EEXIST")
           [] OTHER -> f)

sfs_dir_unlink(s, d, slot) == sfs_writedir(s, d, slot, NoEntry)

InoAt(s, d, slot) == UnitAt(s.disk, Inode(s, d), slot)[1]

(* The vnode is handed back, with a reference. *)
sfs_lookonce(s, d, name) ==
    Then(sfs_dir_findname(s, d, name), LAMBDA f :
      Then(sfs_loadvnode(f, InoAt(f, d, f.ret), "inval"), LAMBDA r :
        IF Inode(r, r.ret).links = 0 THEN Panic(r) ELSE r))

AddLink(s, v, n) == SetInode(s, v, [Inode(s, v) EXCEPT !.links = @ + n])
-----------------------------------------------------------------------------
(* The operations of vnodes and of the file system *)

sfs_creat(s, d, name, excl) ==
    After(sfs_dir_findname(s, d, name), LAMBDA f :
      CASE f.err = "ok" -> IF excl THEN Fail(f, "EEXIST")
                           ELSE sfs_loadvnode(f, InoAt(f, d, f.ret), "inval")
        [] f.err = "ENOENT" ->
             Then(sfs_makeobj(Fail(f, "ok"), "file"), LAMBDA m :
               After(sfs_dir_link(m, d, name, m.ret), LAMBDA l :
                 IF OK(l) THEN Ret(AddLink(l, m.ret, 1), m.ret) ELSE VOP_DECREF(l, m.ret)))
        [] OTHER -> f)

sfs_link(s, d, name, v) ==
    IF Inode(s, v).type = "dir" THEN Fail(s, "EINVAL")
    ELSE Then(sfs_dir_link(s, d, name, v), LAMBDA r : AddLink(r, v, 1))

sfs_remove(s, d, name) ==
    Then(sfs_lookonce(s, d, name), LAMBDA g :
      After(sfs_dir_unlink(g, d, sfs_dir_findname(s, d, name).ret), LAMBDA u :
        VOP_DECREF(IF OK(u) THEN AddLink(u, g.ret, -1) ELSE u, g.ret)))

(* Mutant: undoing a rename leaves the link count up. *)
sfs_rename_counted(s, d, n1, n2) ==
    Then(sfs_lookonce(s, d, n1), LAMBDA g :
      LET slot1 == sfs_dir_findname(s, d, n1).ret IN
      IF Inode(g, g.ret).type # "file" THEN Panic(g)
      ELSE After(sfs_dir_link(g, d, n2, g.ret), LAMBDA l :
        IF ~OK(l) THEN VOP_DECREF(l, g.ret)
        ELSE After(sfs_dir_unlink(AddLink(l, g.ret, 1), d, slot1), LAMBDA u :
          IF OK(u) THEN VOP_DECREF(AddLink(u, g.ret, -1), g.ret)
          ELSE After(sfs_dir_unlink(Fail(u, "ok"), d, l.ret), LAMBDA undo :
            IF ~OK(undo) THEN Fail(undo, "norecover")
            ELSE VOP_DECREF(Fail(undo, u.err), g.ret)))))

(* The name is linked again before the old one goes; if that one cannot be *)
(* erased the new one is, and if that fails too the kernel panics.         *)
sfs_rename(s, d, n1, n2) ==
    Then(sfs_lookonce(s, d, n1), LAMBDA g :
      LET slot1 == sfs_dir_findname(s, d, n1).ret IN
      IF Inode(g, g.ret).type # "file" THEN Panic(g)
      ELSE After(sfs_dir_link(g, d, n2, g.ret), LAMBDA l :
        IF ~OK(l) THEN VOP_DECREF(l, g.ret)
        ELSE After(sfs_dir_unlink(AddLink(l, g.ret, 1), d, slot1), LAMBDA u :
          IF OK(u) THEN VOP_DECREF(AddLink(u, g.ret, -1), g.ret)
          ELSE After(sfs_dir_unlink(Fail(u, "ok"), d, l.ret), LAMBDA undo :
            IF ~OK(undo) THEN Fail(undo, "norecover")
            ELSE VOP_DECREF([undo EXCEPT !.vn[g.ret].i.links = @ - 1, !.err = u.err], g.ret)))))

(* One block of a write of w to the positions from..to - 1 (sfs_partialio, *)
(* sfs_blockio).  ret is the position reached.                             *)
WriteBlock(s, v, fb, from, to, w) ==
    LET lo == Max({from, fb * PerBlock})
        hi == Min({to, (fb + 1) * PerBlock})
        partial == hi - lo < PerBlock
        new(old) ==
          [k \in DOMAIN old |-> IF fb * PerBlock + k \in lo .. hi - 1 THEN Word(w) ELSE old[k]]
    IN After(sfs_bmap(s, v, fb, TRUE), LAMBDA b :
         After(IF partial THEN Then(b, sfs_readblock) ELSE b, LAMBDA r :
           IF ~OK(r) THEN Ret(r, lo)
           ELSE Ret(sfs_writeblock(r, b.ret, Units(new(AsUnits(r.disk[b.ret])))), hi)))

(* sfs_write and sfs_io.  The size follows however far the write got. *)
sfs_write(s, v, pos, len, w) ==
    LET first == pos \div PerBlock
        last == (pos + len - 1) \div PerBlock
    IN After(FoldLeft(LAMBDA a, fb : Then(a, LAMBDA x : WriteBlock(x, v, fb, pos, pos + len, w)),
                      s, [k \in 1 .. last - first + 1 |-> first + k - 1]), LAMBDA r :
         IF r.ret # pos /\ r.ret > Inode(r, v).size
         THEN SetInode(r, v, [Inode(r, v) EXCEPT !.size = r.ret]) ELSE r)

(* The results of the VOP_FSYNCs are not looked at. *)
sfs_sync_vnodes(s) ==
    FoldLeft(LAMBDA r, v : Fail(sfs_sync_inode(r, v), "ok"), s, s.order)

(* Mutant: the free map stays marked dirty. *)
sfs_sync_dirty(s) ==
    After(sfs_sync_vnodes(s), LAMBDA n :
      IF n.fmdirty THEN sfs_writeblock(n, FREEMAP, FreemapBlock(n.fm)) ELSE n)

sfs_sync(s) ==
    After(sfs_sync_vnodes(s), LAMBDA n :
      IF n.fmdirty
      THEN Then(sfs_writeblock(n, FREEMAP, FreemapBlock(n.fm)), LAMBDA r :
             [r EXCEPT !.fmdirty = FALSE])
      ELSE n)

(* sfs_unmount, after the sync of vfs_unmount *)
sfs_unmount(s) ==
    IF DOMAIN s.vn # {} THEN Fail(s, "EBUSY") ELSE IF s.fmdirty THEN Panic(s) ELSE s

(* sfs_domount: the superblock, then the free map *)
sfs_domount(s) ==
    Then(sfs_readblock(s), LAMBDA r :
      IF r.disk[SUPER] # SuperBlock THEN Fail(r, "EINVAL")
      ELSE Then(sfs_readblock(r), LAMBDA t :
             [t EXCEPT !.fm = t.disk[FREEMAP].used, !.fmdirty = FALSE, !.vn = NoVnodes,
                       !.order = <<>>]))
=============================================================================
