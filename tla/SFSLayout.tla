----------------------------- MODULE SFSLayout -----------------------------
(***************************************************************************)
(* What an SFS volume has on disk (kern/include/kern/sfs.h), as the file   *)
(* system, mksfs and sfsck read it.  A block holds an inode, the free map  *)
(* or PerBlock units.  A unit is a directory entry <<ino, name>>, or one   *)
(* word of file data or of an indirect block, <<word, "">>.  Sizes and     *)
(* positions count units.                                                  *)
(***************************************************************************)
EXTENDS Integers, FiniteSets, FiniteSetsExt, SequencesExt

CONSTANTS
    NBlocks,    \* sb_nblocks
    NDirect,    \* SFS_NDIRECT; there is one indirect block
    PerBlock    \* units in a block: SFS_DBPERIDB, and entries of a directory block

ASSUME LayoutAssumption ==
    /\ NBlocks \in Nat /\ NBlocks > 2
    /\ NDirect \in Nat \ {0}
    /\ PerBlock \in Nat \ {0}

Block == 0 .. NBlocks - 1
SUPER == 0          \* SFS_SUPER_BLOCK
ROOT == 1           \* SFS_ROOTDIR_INO
FREEMAP == 2        \* SFS_FREEMAP_START; the map has one block
Reserved == {SUPER, ROOT, FREEMAP}

(* What a function does with the result of one it has called. *)
After(r, F(_)) == F(r)

Word(w) == <<w, "">>
NoEntry == Word(0)                      \* SFS_NOINO

Units(u) == [holds |-> "units", u |-> u]
Zeros == Units([k \in 0 .. PerBlock - 1 |-> NoEntry])
InodeBlock(i) == [holds |-> "inode", i |-> i]
FreemapBlock(used) == [holds |-> "freemap", used |-> used]
SuperBlock == [holds |-> "super"]

NewInode(type, links) ==
    [type |-> type, size |-> 0, links |-> links,
     direct |-> [k \in 0 .. NDirect - 1 |-> 0], indirect |-> 0]

(* A block read as something it may not be.  Zeros are an inode of type    *)
(* SFS_TYPE_INVAL, and anything else has some other type.  An inode read   *)
(* as words has its size among them, and its first block.                  *)
AsInode(b) ==
    IF b.holds = "inode" THEN b.i
    ELSE NewInode(IF b = Zeros THEN "inval" ELSE "other", 0)

AsUnits(b) ==
    IF b.holds = "units" THEN b.u
    ELSE IF b.holds = "inode"
    THEN [k \in 0 .. PerBlock - 1 |-> Word(IF k = 0 THEN b.i.size ELSE b.i.direct[0])]
    ELSE [k \in 0 .. PerBlock - 1 |-> Word(NBlocks)]

BlocksFor(size) == (size + PerBlock - 1) \div PerBlock
FileBlocks == NDirect + PerBlock        \* the most a file can have

(* The block that the inode i names for block fb of its file, 0 for none.  *)
Pointer(disk, i, fb) ==
    IF fb < NDirect THEN i.direct[fb]
    ELSE IF i.indirect \notin Block \ {0} THEN 0
    ELSE AsUnits(disk[i.indirect])[fb - NDirect][1]

UnitAt(disk, i, pos) ==
    LET b == Pointer(disk, i, pos \div PerBlock) IN
    IF b \in Block \ {0} THEN AsUnits(disk[b])[pos % PerBlock] ELSE NoEntry

Slots(i) == 0 .. i.size - 1
Contents(disk, i) == [pos \in Slots(i) |-> UnitAt(disk, i, pos)]

(* mksfs: an empty root directory. *)
Mksfs ==
    [b \in Block |->
        CASE b = SUPER -> SuperBlock
          [] b = ROOT -> InodeBlock(NewInode("dir", 1))
          [] b = FREEMAP -> FreemapBlock(Reserved)
          [] OTHER -> Zeros]
-----------------------------------------------------------------------------
(* The blocks the inode i refers to, as sequence: a block twice in it is   *)
(* used twice.                                                             *)
BlocksOf(disk, i) ==
    LET data == [k \in 1 .. FileBlocks |-> Pointer(disk, i, k - 1)]
    IN SelectSeq(<<i.indirect>> \o data, LAMBDA b : b # 0)

(* The entries of a directory: the slots in use. *)
Entries(disk, dir) == {k \in Slots(dir) : UnitAt(disk, dir, k)[1] # 0}
FilesIn(disk, dir) ==
    {UnitAt(disk, dir, k)[1] : k \in
        {e \in Entries(disk, dir) : UnitAt(disk, dir, e)[2] \notin {".", ".."}}}

(* How many entries of dir name the inode ino. *)
LinksTo(disk, dir, ino) ==
    Cardinality({k \in Entries(disk, dir) : UnitAt(disk, dir, k)[1] = ino})
=============================================================================
