------------------------------ MODULE ExtentMap ------------------------------
(***************************************************************************)
(* read_allocated_block1 (ext4.c:74-113) on an inode with extents, and     *)
(* ext4fs_get_extent_block (496-531): down the index of the extent tree to *)
(* a leaf, then to the extent of the leaf that covers fileblock.           *)
(*                                                                         *)
(* A node of the tree is a record: whether its magic is right, its depth   *)
(* and its entries, each with the first logical block it covers.  Blocks   *)
(* of the disk are read into one buffer, which starts out as zeros: a node *)
(* without magic.  How much of a block is read is fs->blksz, which nothing *)
(* assigns: ext4fs_mount allocates fs zeroed and sets block_size.          *)
(*                                                                         *)
(* The numbers are small: the 32 bit fileblock and the 48 bit block do not *)
(* overflow the int the result is returned in.                             *)
(***************************************************************************)
EXTENDS Integers, Sequences

CONSTANTS
  FileBlock,      (* the logical blocks asked for                            *)
  Disk,           (* [block number -> node of the tree in that block]        *)
  Tops,           (* the nodes an inode may hold in dir_blocks               *)
  BlkSz           (* EXT2_BLOCK_SIZE, the size of the buffer                 *)

FsBlksz == 0      (* fs->blksz                                               *)

Zeros == [magic |-> FALSE, depth |-> 0, entries |-> <<>>]

(* An entry of an index: block, leaf.  An extent: block, len, start.       *)
IsNode(n) ==
  /\ n.magic \in BOOLEAN /\ n.depth \in Nat
  /\ DOMAIN n.entries = 1..Len(n.entries) /\ Len(n.entries) \in Nat
  /\ \A k \in DOMAIN n.entries :
       /\ n.entries[k].block \in Nat
       /\ n.depth > 0 => n.entries[k].leaf \in DOMAIN Disk
       /\ n.depth = 0 => n.entries[k].len \in Nat \ {0} /\ n.entries[k].start \in Nat

ASSUME TreeAssumption ==
  /\ FileBlock \subseteq Nat /\ BlkSz \in Nat \ {0}
  /\ \A b \in DOMAIN Disk : IsNode(Disk[b])
  /\ \A n \in Tops : IsNode(n)

(* The extents of an inode are in the order of the blocks they cover, none *)
(* twice, and no file has block 0, which is before the superblock.         *)
ASSUME ExtentsAssumption ==
  \A n \in Tops : n.depth = 0 =>
    \A k \in DOMAIN n.entries :
      /\ n.entries[k].start # 0
      /\ \A j \in DOMAIN n.entries :
           j < k => n.entries[j].block + n.entries[j].len <= n.entries[k].block

NoCall == -1
ErrAlloc == -1          (* also "Extent Error"                               *)
ErrTree == -2           (* "invalid extent block"                            *)

VARIABLES
  top,          (* the inode's node                                          *)
  fileblock,    (* the block asked for, or NoCall                            *)
  ext_block,    (* the node the descent has reached                          *)
  ret           (* the last call: its block, its value and whether an        *)
                (* allocation or a read failed in it                         *)

vars == <<top, fileblock, ext_block, ret>>

TypeOK ==
  /\ top \in Tops
  /\ fileblock \in FileBlock \cup {NoCall}
  /\ fileblock = NoCall => ext_block = Zeros       \* the buffer is freed
  /\ ext_block \in Tops \cup { Disk[b] : b \in DOMAIN Disk } \cup {Zeros}
  /\ ret.fileblock \in FileBlock \cup {NoCall}
  /\ ret.val \in Nat \cup {ErrAlloc, ErrTree} /\ ret.failed \in BOOLEAN

Init ==
  /\ top \in Tops
  /\ fileblock = NoCall
  /\ ext_block = Zeros
  /\ ret = [fileblock |-> NoCall, val |-> ErrAlloc, failed |-> FALSE]

ReturnKeepsBuffer(val, failed) ==
  /\ ret' = [fileblock |-> fileblock, val |-> val, failed |-> failed]
  /\ fileblock' = NoCall
  /\ UNCHANGED ext_block

Return(val, failed) ==
  /\ ret' = [fileblock |-> fileblock, val |-> val, failed |-> failed]
  /\ fileblock' = NoCall
  /\ ext_block' = Zeros

Call(fb) ==
  /\ fileblock = NoCall
  /\ fileblock' = fb
  /\ ext_block' = top
  /\ UNCHANGED <<top, ret>>

AllocFails(fb) ==
  /\ fileblock = NoCall
  /\ ret' = [fileblock |-> fb, val |-> ErrAlloc, failed |-> TRUE]
  /\ UNCHANGED <<top, fileblock, ext_block>>

NoMagic ==
  /\ fileblock # NoCall /\ ~ext_block.magic
  /\ Return(ErrTree, FALSE)
  /\ UNCHANGED top

(* The entry before the first one that stops(entry): 0 if it is the first. *)
Before(entries, stops(_)) ==
  LET hits == { k \in DOMAIN entries : stops(entries[k]) }
  IN  IF hits = {} THEN Len(entries)
                   ELSE (CHOOSE k \in hits : \A j \in hits : k <= j) - 1

(* Lines 513-518 go on while fileblock > ei_block, so an entry that starts at *)
(* fileblock is not taken but the one before it.                           *)
IndexEntry == Before(ext_block.entries, LAMBDA e : fileblock <= e.block)

AtIndex == fileblock # NoCall /\ ext_block.magic /\ ext_block.depth > 0

NotInIndex ==
  /\ AtIndex /\ IndexEntry = 0
  /\ Return(ErrTree, FALSE)
  /\ UNCHANGED top

Descend ==
  /\ AtIndex /\ IndexEntry > 0
  /\ ext_block' = IF FsBlksz = BlkSz
                  THEN Disk[ext_block.entries[IndexEntry].leaf] ELSE Zeros
  /\ UNCHANGED <<top, fileblock, ret>>

DescendFails ==
  /\ AtIndex /\ IndexEntry > 0
  /\ Return(ErrTree, TRUE)
  /\ UNCHANGED top

-----------------------------------------------------------------------------
(* Lines 92-112: the last extent that starts at or before fileblock.       *)
LeafEntryAsIndex == Before(ext_block.entries, LAMBDA e : fileblock <= e.block)

LeafEntry == Before(ext_block.entries, LAMBDA e : fileblock < e.block)

AtLeaf == fileblock # NoCall /\ ext_block.magic /\ ext_block.depth = 0

BeforeLeaf ==
  /\ AtLeaf /\ LeafEntry = 0
  /\ Return(ErrAlloc, FALSE)
  /\ UNCHANGED top

InExtent ==
  fileblock - ext_block.entries[LeafEntry].block < ext_block.entries[LeafEntry].len

GapIsError ==
  /\ AtLeaf /\ LeafEntry > 0 /\ ~InExtent
  /\ Return(ErrTree, FALSE)
  /\ UNCHANGED top

Gap ==
  /\ AtLeaf /\ LeafEntry > 0 /\ ~InExtent
  /\ Return(0, FALSE)
  /\ UNCHANGED top

Found ==
  /\ AtLeaf /\ LeafEntry > 0 /\ InExtent
  /\ LET e == ext_block.entries[LeafEntry]
     IN  Return(e.start + (fileblock - e.block), FALSE)
  /\ UNCHANGED top

Next ==
  \/ \E fb \in FileBlock : Call(fb) \/ AllocFails(fb)
  \/ NoMagic \/ NotInIndex \/ Descend \/ DescendFails
  \/ BeforeLeaf \/ Gap \/ Found

Spec == Init /\ [][Next]_vars

-----------------------------------------------------------------------------
(***************************************************************************)
(* The reference: every extent of every leaf under the inode's node, level *)
(* by level, whatever the entries of the index say they cover.             *)
(***************************************************************************)
Leaves(n) == { n.entries[j].leaf : j \in DOMAIN n.entries }
Below(n) == { Disk[b] : b \in DOMAIN Disk \cap Leaves(n) }
Level[k \in Nat] ==
  IF k = 0 THEN {top} ELSE UNION { Below(n) : n \in Level[k - 1] }

Extents == UNION { { n.entries[j] : j \in DOMAIN n.entries } : n \in Level[top.depth] }

Covers(e, fb) == fb \in e.block..(e.block + e.len - 1)

MappedTo(fb, b) == \E e \in Extents : Covers(e, fb) /\ b = e.start + (fb - e.block)

Answered == ret.fileblock # NoCall /\ ~ret.failed

(***************************************************************************)
(* A block that is returned is the one the tree has there, and what is     *)
(* taken for a hole is covered by no extent.                               *)
(***************************************************************************)
ExtentMapped ==
  (Answered /\ ret.val >= 0) =>
     IF ret.val = 0 THEN \A e \in Extents : ~Covers(e, ret.fileblock)
                    ELSE MappedTo(ret.fileblock, ret.val)

(***************************************************************************)
(* Extents in the inode itself answer every block from the first extent    *)
(* on: gaps between and behind them are holes and no errors, which would   *)
(* end a read of the file.  (Before the first extent it is an error.)      *)
(***************************************************************************)
LeafAnswers ==
  (Answered /\ top.magic /\ top.depth = 0
     /\ \E e \in Extents : e.block <= ret.fileblock)
  => ret.val >= 0

(***************************************************************************)
(* "index covers logical blocks from 'block'" and its leaf is the          *)
(* "pointer to the physical block of the next level" (ext4.h:73-75): a     *)
(* block an extent covers is found at every depth of the tree.             *)
(***************************************************************************)
CoveredIsFound ==
  (Answered /\ top.magic /\ \E e \in Extents : Covers(e, ret.fileblock))
  => MappedTo(ret.fileblock, ret.val)
=============================================================================
