------------------------------ MODULE BlockMap ------------------------------
(***************************************************************************)
(* read_allocated_block1 (ext4.c:59-383) on an inode without extents: the  *)
(* physical block of logical block fileblock, found through the direct,    *)
(* single, double and triple indirect pointers.                            *)
(*                                                                         *)
(* The node keeps one buffer per level (indir1_block .. indir3_block) and  *)
(* the number of the block each one holds (indir1_blkno ..).  They are     *)
(* shared by the three depths and live as long as the node, so what one    *)
(* call leaves behind, also when it fails half way, is what the next call  *)
(* trusts.  A call is split where the code may leave: at each level it     *)
(* fails to allocate, hits, reads the device, or fails to read it.         *)
(*                                                                         *)
(* Abstractions.  A block number stands for its sector (block <<           *)
(* log2_blksz); a pointer block is a function from slot to block number.   *)
(* indirN_size is left out: the block size of a mount never changes, so    *)
(* the branches blksz # indirN_size are never taken.                       *)
(***************************************************************************)
EXTENDS Integers

CONSTANTS
  Direct,       (* INDIRECT_BLOCKS, the direct pointers of an inode          *)
  PerBlock,     (* blksz / 4, the pointers of a pointer block                *)
  Block,        (* the numbers a pointer may have, 0 is "no block"           *)
  DirBlocks,    (* inode.b.blocks.dir_blocks                                 *)
  Root,         (* [1..3 -> Block]: indir_block, double_, triple_indir_block *)
  Disk,         (* what each block holds when it is read as a pointer block  *)
  Torn          (* what a read that went wrong may leave in a buffer         *)

Level == 1..3
Slots == 0..(PerBlock - 1)
FileBlocks ==
  0..(Direct + PerBlock + PerBlock * PerBlock + PerBlock * PerBlock * PerBlock - 1)

ASSUME SizesAssumption == Direct \in Nat \ {0} /\ PerBlock \in Nat \ {0}
ASSUME BlockAssumption == Block \subseteq Nat /\ 0 \in Block
ASSUME DiskAssumption ==
  /\ DirBlocks \in [0..(Direct - 1) -> Block]
  /\ Root \in [Level -> Block]
  /\ Disk \in [Block -> [Slots -> Block]]
  /\ Torn \in [Slots -> Block]

Err == -1       (* the error result, and the blkno of a buffer never filled  *)
Null == <<>>    (* a buffer that is not allocated                            *)

VARIABLES
  indir,        (* the node's buffers: [Level -> [blkno, block]]             *)
  call,         (* the call in progress: fileblock and the level it is at    *)
  ret,          (* the last call that returned, its value and whether a      *)
                (* device read failed in it                                  *)
  torn          (* some device read has left other bytes in a buffer         *)

vars == <<indir, call, ret, torn>>

Idle == [fileblock |-> Err, level |-> 0]

(***************************************************************************)
(* Which depth a logical block belongs to, its number within that depth,   *)
(* and the slot it uses in the pointer block of each level.                *)
(***************************************************************************)
Depth(fb) ==
  CASE fb < Direct -> 0
    [] fb >= Direct /\ fb < Direct + PerBlock -> 1
    [] fb >= Direct + PerBlock /\ fb < Direct + PerBlock * (PerBlock + 1) -> 2
    [] OTHER -> 3

RBlock(fb) ==
  CASE Depth(fb) = 1 -> fb - Direct
    [] Depth(fb) = 2 -> fb - (Direct + PerBlock)
    [] OTHER -> fb - (Direct + PerBlock + PerBlock * PerBlock)

SlotLevelsSwapped(fb, level) ==
  CASE level = Depth(fb) -> RBlock(fb) % PerBlock
    [] level = 1 /\ Depth(fb) # 1 -> (RBlock(fb) \div PerBlock) % PerBlock
    [] OTHER -> RBlock(fb) \div (PerBlock * PerBlock)

Slot(fb, level) ==
  CASE level = Depth(fb) -> RBlock(fb) % PerBlock
    [] level = 1 /\ Depth(fb) = 2 -> RBlock(fb) \div PerBlock
    [] level = 1 /\ Depth(fb) = 3 -> RBlock(fb) \div (PerBlock * PerBlock)
    [] OTHER -> (RBlock(fb) \div PerBlock) % PerBlock

(* The pointer block a call wants at its level: the root pointer of its    *)
(* depth, then a slot of the buffer of the level above.                    *)
Wanted(fb, level) ==
  IF level = 1 THEN Root[Depth(fb)]
               ELSE indir[level - 1].block[Slot(fb, level - 1)]

(* What indirN_blkno is compared with.  The third level tests slot         *)
(* rblock / perblock_child of indir2_block without the modulus (line 358): *)
(* past the end of the buffer the value read is anything.                  *)
ProbeInRange(fb) == Depth(fb) = 3 => RBlock(fb) \div PerBlock < PerBlock

Probed(fb, level) ==
  IF level = 3 /\ ~ProbeInRange(fb) THEN Block ELSE {Wanted(fb, level)}

-----------------------------------------------------------------------------

TypeOK ==
  /\ indir \in [Level -> [blkno : Block \cup {Err},
                          block : [Slots -> Block] \cup {Null}]]
  /\ call \in [fileblock : FileBlocks, level : 1..4] \cup {Idle}
  /\ call # Idle => /\ Depth(call.fileblock) > 0
                    /\ call.level <= Depth(call.fileblock) + 1
  /\ ret \in [fileblock : FileBlocks \cup {Err}, val : Block \cup {Err},
              failed : BOOLEAN]
  /\ torn \in BOOLEAN

Init ==
  /\ indir = [l \in Level |-> [blkno |-> Err, block |-> Null]]
  /\ call = Idle
  /\ ret = [fileblock |-> Err, val |-> Err, failed |-> FALSE]
  /\ torn = FALSE

Return(v, failed) ==
  /\ ret' = [fileblock |-> call.fileblock, val |-> v, failed |-> failed]
  /\ call' = Idle

NextLevel == call' = [call EXCEPT !.level = @ + 1]

(* A call for a direct block returns at once.                              *)
CallDirect(fb) ==
  /\ call = Idle
  /\ Depth(fb) = 0
  /\ ret' = [fileblock |-> fb, val |-> DirBlocks[fb], failed |-> FALSE]
  /\ UNCHANGED <<indir, call, torn>>

Call(fb) ==
  /\ call = Idle
  /\ Depth(fb) > 0
  /\ call' = [fileblock |-> fb, level |-> 1]
  /\ UNCHANGED <<indir, ret, torn>>

LoadingPastDepth(level) ==
  /\ call # Idle
  /\ call.level = level

Loading(level) ==
  /\ call # Idle
  /\ call.level = level
  /\ level <= Depth(call.fileblock)

(* zalloc returns NULL for a buffer the node does not have yet.            *)
AllocFails(level) ==
  /\ Loading(level)
  /\ indir[level].block = Null
  /\ Return(Err, FALSE)
  /\ UNCHANGED <<indir, torn>>

HitAnyNonEmpty(level) ==
  /\ Loading(level)
  /\ indir[level].blkno # Err
  /\ NextLevel
  /\ UNCHANGED <<indir, ret, torn>>

Hit(level) ==
  /\ Loading(level)
  /\ indir[level].blkno \in Probed(call.fileblock, level)
  /\ NextLevel
  /\ UNCHANGED <<indir, ret, torn>>

Misses(level) ==
  /\ Loading(level)
  /\ \E p \in Probed(call.fileblock, level) : p # indir[level].blkno

(* vfs_devread returns 1.  That does not say the bytes are the block's:    *)
(* the device may have failed to seek or stopped short unnoticed           *)
(* (phy_disk.c:56-61), and what is in the buffer then gets the number.     *)
Load(level) ==
  /\ Misses(level)
  /\ \/ /\ indir' = [indir EXCEPT ![level] =
                       [blkno |-> Wanted(call.fileblock, level),
                        block |-> Disk[Wanted(call.fileblock, level)]]]
        /\ UNCHANGED torn
     \/ /\ indir' = [indir EXCEPT ![level] =
                       [blkno |-> Wanted(call.fileblock, level), block |-> Torn]]
        /\ torn' = TRUE
  /\ NextLevel
  /\ UNCHANGED ret

(* vfs_devread returns 0.  The buffer is allocated by now, its number      *)
(* stays, and the failed transfer may have overwritten it.  The call for a *)
(* single indirect block returns 0, the others -1.                         *)
LoadFailsNumbered(level) ==
  /\ Misses(level)
  /\ indir' = [indir EXCEPT ![level].blkno = Wanted(call.fileblock, level)]
  /\ Return(IF Depth(call.fileblock) = 1 THEN 0 ELSE Err, TRUE)
  /\ UNCHANGED torn

LoadFails(level) ==
  /\ Misses(level)
  /\ \/ /\ indir' = [indir EXCEPT ![level].block =
                       IF @ = Null THEN [s \in Slots |-> 0] ELSE @]
        /\ UNCHANGED torn
     \/ /\ indir' = [indir EXCEPT ![level].block = Torn]
        /\ torn' = TRUE
  /\ Return(IF Depth(call.fileblock) = 1 THEN 0 ELSE Err, TRUE)

(* Every level is loaded: the slot of the last one is the result.          *)
Lookup ==
  /\ call # Idle
  /\ call.level = Depth(call.fileblock) + 1
  /\ LET last == Depth(call.fileblock)
     IN  Return(indir[last].block[Slot(call.fileblock, last)], FALSE)
  /\ UNCHANGED <<indir, torn>>

Next ==
  \/ \E fb \in FileBlocks : CallDirect(fb) \/ Call(fb)
  \/ \E level \in Level :
       AllocFails(level) \/ Hit(level) \/ Load(level) \/ LoadFails(level)
  \/ Lookup

Spec == Init /\ [][Next]_vars

-----------------------------------------------------------------------------
(***************************************************************************)
(* The reference.  A file's blocks are the direct ones, then the leaves of *)
(* the three trees in order: s1, s2, s3 are the slots on the way down.  A  *)
(* null pointer has no block behind it: whatever it leads to is a hole.    *)
(***************************************************************************)
Entry(b, s) == IF b = 0 THEN 0 ELSE Disk[b][s]

InLayout(fb, b) ==
  \/ fb < Direct /\ b = DirBlocks[fb]
  \/ \E s1 \in Slots :
       /\ fb = Direct + s1
       /\ b = Entry(Root[1], s1)
  \/ \E s1, s2 \in Slots :
       /\ fb = Direct + PerBlock + s1 * PerBlock + s2
       /\ b = Entry(Entry(Root[2], s1), s2)
  \/ \E s1, s2, s3 \in Slots :
       /\ fb = Direct + PerBlock + PerBlock * PerBlock
                + s1 * (PerBlock * PerBlock) + s2 * PerBlock + s3
       /\ b = Entry(Entry(Entry(Root[3], s1), s2), s3)

(* The pointer block of each level on the way to fb as the code takes it:  *)
(* it never tests a pointer for 0 (ext4.c:129-160, 190-246, 278-377), so a *)
(* null one leads to block 0, whose contents are taken for pointers.       *)
Pointer1(fb) == Root[Depth(fb)]
Pointer2(fb) == Disk[Pointer1(fb)][Slot(fb, 1)]
Pointer3(fb) == Disk[Pointer2(fb)][Slot(fb, 2)]

Pointer(fb, level) ==
  CASE level = 1 -> Pointer1(fb)
    [] level = 2 -> Pointer2(fb)
    [] level = 3 -> Pointer3(fb)

(***************************************************************************)
(* A path with a null pointer on it gives the hole it should only where    *)
(* block 0 reads as null pointers.                                         *)
(***************************************************************************)
NullOnPath(fb) == \E level \in 1..Depth(fb) : Pointer(fb, level) = 0

Block0Clear == \A s \in Slots : Disk[0][s] = 0

(***************************************************************************)
(* Safety.  A buffer that has a number holds the block of that number,     *)
(* whatever calls came before and wherever they gave up, unless a device   *)
(* read went wrong: one that failed overwrites a buffer that keeps its old *)
(* number (ext4.c:150-154, 198-202, 239-243 and alike), one that only      *)
(* seemed to succeed numbers other bytes.                                  *)
(***************************************************************************)
BuffersCoherent ==
  \A l \in Level : indir[l].blkno # Err =>
    /\ indir[l].block # Null
    /\ ~torn => indir[l].block = Disk[indir[l].blkno]

(***************************************************************************)
(* A call that returns a block returns the block the file has at that      *)
(* place, for every history of the node's buffers.  The exceptions are the *)
(* code's: a read that went wrong, a failed single indirect read, which    *)
(* returns 0 (line 153), the unreduced probe of the third level, and a     *)
(* null pointer on the way when block 0 does not read as null pointers.    *)
(***************************************************************************)
MappedBlock ==
  (~torn /\ ~ret.failed /\ ret.val # Err /\ ret.fileblock # Err
     /\ ProbeInRange(ret.fileblock)
     /\ (NullOnPath(ret.fileblock) => Block0Clear))
  => InLayout(ret.fileblock, ret.val)

(***************************************************************************)
(* While a call runs, the buffers of the levels it has passed hold the     *)
(* pointer blocks on its own path, though calls of all depths share them.  *)
(***************************************************************************)
OnPath ==
  call # Idle =>
    \A l \in Level : l < call.level =>
      /\ indir[l].blkno # Err
      /\ (~torn /\ (l < 3 \/ ProbeInRange(call.fileblock)))
         => indir[l].blkno = Pointer(call.fileblock, l)

(***************************************************************************)
(* "Tripple indirect." (ext4.c:248): a block of the triple indirect range  *)
(* is found through its own three pointer blocks, like every other block   *)
(* (with no null pointer on the way, which is a matter of its own).        *)
(***************************************************************************)
TripleIndirect ==
  (~torn /\ ~ret.failed /\ ret.val # Err /\ ret.fileblock # Err
     /\ (NullOnPath(ret.fileblock) => Block0Clear))
  => InLayout(ret.fileblock, ret.val)
=============================================================================
