------------------------------- MODULE Sfsck -------------------------------
(***************************************************************************)
(* sfsck (userland/sbin/sfsck): checks a volume that is not mounted, and   *)
(* repairs what it can.  Its functions take and return a record f with     *)
(*   disk           the volume                                             *)
(*   inuse, tofree  freemapdata and tofreedata                             *)
(*   seen           the inode table: the type of each inode found          *)
(*   links          the links counted for each inode of it                 *)
(*   visited        the directories pass 2 has been to                     *)
(*   bad            what setbadness was called for                         *)
(*   uid            the next uniqueid                                      *)
(*   io, cut        as in module SFS: blocks written, and before power fails*)
(***************************************************************************)
EXTENDS SFSLayout, TLC

(* The errors that end in EXIT_UNRECOV.  After "fatal" nothing is done.    *)
Unrecoverable == {"crosslink", "nodot", "sparse", "fatal"}
Dead(f) == "fatal" \in f.bad

setbadness(f, code) == [f EXCEPT !.bad = @ \cup {code}]

diskwrite(f, b, contents) ==
    LET w == [f EXCEPT !.io = @ + 1] IN
    IF w.io <= w.cut THEN [w EXCEPT !.disk[b] = contents] ELSE w

(* Results of functions that change their argument too. *)
Both(f, x) == [f |-> f, x |-> x]
-----------------------------------------------------------------------------
(* freemap.c *)

freemap_setup(d, cut) ==
    [disk |-> d, inuse |-> {SUPER, FREEMAP}, tofree |-> {}, seen |-> [v \in {} |-> ""],
     links |-> [v \in {} |-> 0], visited |-> {}, bad |-> {}, uid |-> 0, io |-> 0, cut |-> cut]

freemap_blockinuse(f, b) ==
    LET g == [f EXCEPT !.tofree = @ \ {b}, !.inuse = @ \cup {b}] IN
    IF b \in f.inuse THEN setbadness(g, "crosslink") ELSE g

freemap_blockfree(f, b) ==
    IF b \in f.tofree \cup f.inuse THEN f ELSE [f EXCEPT !.tofree = @ \cup {b}]

freemap_check(f) ==
    LET actual == f.disk[FREEMAP].used
        w == IF actual = f.inuse THEN f ELSE diskwrite(f, FREEMAP, FreemapBlock(f.inuse))
    IN IF actual \ f.tofree = f.inuse THEN w ELSE setbadness(w, "recov")
-----------------------------------------------------------------------------
(* Pass 1: blocks and sizes *)

(* A row of block pointers, for file blocks base and up: pointers outside  *)
(* the volume and blocks past EOF go.                                      *)
check_blocks(f, row, base, fileblocks) ==
    LET Check(a, k) ==
          LET b == a.x[k] IN
          CASE b >= NBlocks -> Both(setbadness(a.f, "recov"), [a.x EXCEPT ![k] = 0])
            [] b = 0 -> a
            [] b \in Block \ {0} /\ base + k < fileblocks -> Both(freemap_blockinuse(a.f, b), a.x)
            [] OTHER -> Both(freemap_blockfree(setbadness(a.f, "recov"), b), [a.x EXCEPT ![k] = 0])
    IN FoldLeft(Check, Both(f, row), [n \in 1 .. Cardinality(DOMAIN row) |-> n - 1])

check_indirect_block(f, i, fileblocks) ==
    LET b == i.indirect
        row == [k \in 0 .. PerBlock - 1 |-> AsUnits(f.disk[b])[k][1]]
    IN CASE b = 0 -> Both(f, i)
         [] b >= NBlocks -> Both(setbadness(f, "recov"), [i EXCEPT !.indirect = 0])
         [] OTHER -> After(check_blocks(freemap_blockinuse(f, b), row, NDirect, fileblocks), LAMBDA c :
              IF \A k \in DOMAIN c.x : c.x[k] = 0
              THEN Both(freemap_blockfree(setbadness(c.f, "recov"), b), [i EXCEPT !.indirect = 0])
              ELSE Both(IF c.x = row THEN c.f
                        ELSE diskwrite(c.f, b, Units([k \in DOMAIN row |-> Word(c.x[k])])), i))

check_inode_blocks(f, i) ==
    After(check_blocks(f, i.direct, 0, BlocksFor(i.size)), LAMBDA d :
      check_indirect_block(d.f, [i EXCEPT !.direct = d.x], BlocksFor(i.size)))

(* inode_add and the checks of an inode that was not there yet *)
pass1_inode(f, ino, i) ==
    LET g == [f EXCEPT !.seen = (ino :> i.type) @@ @, !.links = (ino :> 0) @@ @]
    IN IF ino \in DOMAIN f.seen THEN Both(f, i)
       ELSE After(check_inode_blocks(freemap_blockinuse(g, ino), i), LAMBDA c :
              IF c.x = i THEN c ELSE Both(diskwrite(c.f, ino, InodeBlock(c.x)), c.x))

FsckName(ino, n) == "FSCK." \o ToString(ino) \o "." \o ToString(n)

pass1_direntry(a, k) ==
    LET ino == a.x[k][1]
        Set(f, e) == Both(setbadness(f, "recov"), [a.x EXCEPT ![k] = e])
    IN CASE ino = 0 /\ a.x[k][2] # "" -> Set(a.f, NoEntry)
         [] ino >= NBlocks -> Set(a.f, NoEntry)
         [] ino \in 1 .. NBlocks - 1 /\ a.x[k][2] = "" ->
              Set([a.f EXCEPT !.uid = @ + 1], <<ino, FsckName(ino, a.f.uid)>>)
         [] OTHER -> a

(* The first n units of a directory are written.  Its blocks are not       *)
(* allocated if they are missing.                                          *)
sfsck_writedir(f, i, entries, n) ==
    LET unit(pos) == IF pos < n THEN entries[pos] ELSE NoEntry
        Write(g, fb) ==
          LET b == Pointer(g.disk, i, fb)
              u == [k \in 0 .. PerBlock - 1 |-> unit(fb * PerBlock + k)]
          IN IF b # 0 THEN diskwrite(g, b, Units(u))
             ELSE IF Units(u) = Zeros THEN g ELSE setbadness(g, "sparse")
    IN FoldLeft(Write, f, [k \in 1 .. BlocksFor(n) |-> k - 1])

InOrder(n) == [k \in 1 .. n |-> k - 1]      \* the slots of n entries

RECURSIVE pass1_dir(_, _)
pass1_dir(f, ino) ==
    LET i == AsInode(f.disk[ino])
        Visit(a, k) ==
          LET sub == a.x[k][1]
              subi == AsInode(a.f.disk[sub])
          IN IF sub = 0 \/ a.x[k][2] \in {".", ".."} THEN a
             ELSE CASE subi.type = "file" -> Both(pass1_inode(a.f, sub, subi).f, a.x)
                    [] subi.type = "dir" -> Both(pass1_dir(a.f, sub), a.x)
                    [] OTHER -> Both(setbadness(a.f, "recov"), [a.x EXCEPT ![k] = NoEntry])
    IN IF ino \in DOMAIN f.seen THEN f
       ELSE After(pass1_inode(f, ino, i), LAMBDA p :
         LET entries == Contents(p.f.disk, p.x)
             named == FoldLeft(pass1_direntry, Both(p.f, entries), InOrder(i.size))
         IN After(FoldLeft(Visit, named, InOrder(i.size)), LAMBDA done :
              IF done.x = entries THEN done.f
              ELSE sfsck_writedir(done.f, p.x, done.x, i.size)))

pass1(f) ==
    LET root == AsInode(f.disk[ROOT]) IN
    pass1_dir(IF root.type = "dir" THEN f
              ELSE diskwrite(setbadness(f, "recov"), ROOT,
                             InodeBlock([root EXCEPT !.type = "dir"])), ROOT)
-----------------------------------------------------------------------------
(* Pass 2: the directory tree *)

(* Of entries with the same name the ones before the last are merged, if   *)
(* the next has the same inode, or renamed.                                *)
MergeDuplicates(f, e, n) ==
    LET later(k) == {j \in k + 1 .. n - 1 : e[j][1] # 0 /\ e[j][2] = e[k][2]}
        dups == {k \in 0 .. n - 1 : e[k][1] # 0 /\ later(k) # {}}
        renamed == {k \in dups : e[Min(later(k))][1] # e[k][1]}
        uid(k) == f.uid + Cardinality({j \in renamed : j < k})
        new == [k \in DOMAIN e |->
                  IF k \in renamed THEN <<e[k][1], FsckName(e[k][1], uid(k))>>
                  ELSE IF k \in dups THEN NoEntry ELSE e[k]]
        g == [f EXCEPT !.uid = @ + Cardinality(renamed)]
    IN Both(IF dups = {} THEN g ELSE setbadness(g, "recov"), new)

(* The entry `.' or `..' is made to be ino, or added: first in an empty    *)
(* slot of the n there are, then in what is left of the last block.        *)
FixDot(a, name, ino) ==
    LET here == {k \in 0 .. a.n - 1 : a.x[k][2] = name}
        empty == {k \in DOMAIN a.x : a.x[k][1] = 0}
        slot == IF here # {} THEN Min(here) ELSE Min(empty)
        set == [a EXCEPT !.x[slot] = <<ino, name>>, !.f = setbadness(@, "recov"),
                         !.n = IF slot >= @ THEN @ + 1 ELSE @]
    IN IF here = {} /\ empty = {} THEN [a EXCEPT !.f = setbadness(@, "nodot")]
       ELSE IF here # {} /\ a.x[slot][1] = ino THEN a
       ELSE set

RECURSIVE pass2_dir(_, _, _)
(* The result x says whether the directory had been visited. *)
pass2_dir(f, ino, parent) ==
    LET i == AsInode(f.disk[ino])
        n == i.size
        max == BlocksFor(n) * PerBlock
        read == [k \in 0 .. max - 1 |-> IF k < n THEN UnitAt(f.disk, i, k) ELSE NoEntry]
        Dots(m) == FixDot(FixDot([f |-> m.f, x |-> m.x, n |-> n], ".", ino), "..", parent)
        Visit(a, k) ==
          LET sub == a.x[k][1]
              type == AsInode(a.f.disk[sub]).type
              Clear(g) == [a EXCEPT !.f = setbadness(g, "recov"), !.x[k] = NoEntry]
          IN IF Dead(a.f) \/ sub = 0 \/ a.x[k][2] \in {".", ".."} THEN a
             ELSE CASE type = "file" /\ sub \in DOMAIN a.f.links ->
                         [a EXCEPT !.f.links[sub] = @ + 1]
                    [] type = "dir" /\ sub \in DOMAIN a.f.links ->
                         After(pass2_dir(a.f, sub, ino), LAMBDA r :
                           IF r.x THEN Clear(r.f)
                           ELSE [a EXCEPT !.f = r.f, !.subdirs = @ + 1])
                    [] type \in {"file", "dir"} -> [a EXCEPT !.f = setbadness(@, "fatal")]
                    [] OTHER -> Clear(a.f)
        Update(v, newn) ==
          LET newi == [i EXCEPT !.size = newn, !.links = v.subdirs + 2]
              d == IF v.x = read THEN v.f ELSE sfsck_writedir(v.f, newi, v.x, newn)
              l == After(d, LAMBDA g : IF i.links = newi.links THEN g ELSE setbadness(g, "recov"))
          IN After(l, LAMBDA g : IF newi = i THEN g ELSE diskwrite(g, ino, InodeBlock(newi)))
    IN IF ino \in f.visited THEN Both(f, TRUE)
       ELSE After(Dots(MergeDuplicates([f EXCEPT !.visited = @ \cup {ino}], read, n)), LAMBDA dots :
         After(FoldLeft(Visit, [f |-> dots.f, x |-> dots.x, subdirs |-> 0], InOrder(dots.n)), LAMBDA v :
           Both(IF Dead(v.f) THEN v.f ELSE Update(v, dots.n), FALSE)))

(* Mutant: link counts are looked at and not repaired. *)
inode_adjust_filelinks_not(f) == f

(* Phase 3: the link counts of files.  A file nothing links to fails an    *)
(* assertion.                                                              *)
inode_adjust_filelinks(f) ==
    LET Adjust(g, ino) ==
          LET i == AsInode(g.disk[ino]) IN
          IF Dead(g) \/ g.seen[ino] = "dir" THEN g
          ELSE IF g.links[ino] = 0 THEN setbadness(g, "fatal")
          ELSE IF i.links = g.links[ino] THEN g
          ELSE diskwrite(setbadness(g, "recov"), ino,
                         InodeBlock([i EXCEPT !.links = g.links[ino]]))
    IN FoldLeft(Adjust, f, SetToSortSeq(DOMAIN f.seen, <))

(* main *)
sfsck(d, cut) ==
    LET p == freemap_check(pass1(freemap_setup(d, cut))) IN
    After(pass2_dir(p, ROOT, ROOT).f, LAMBDA q :
      IF Dead(q) THEN q ELSE inode_adjust_filelinks(q))
=============================================================================
