------------------------------- MODULE InodeRead -------------------------------
(***************************************************************************)
(* ext4fs_read_inode and ext4fs_blockgroup (ext4.c:533-580) on top of      *)
(* vfs_devread: the inode of a number is in a slot of the inode table of   *)
(* its block group, which the group's descriptor names.  Both are read     *)
(* before a file is (FileRead): ext4fs_open reads the inode.               *)
(*                                                                         *)
(* A descriptor is its address too: it names the table of its group, and   *)
(* what is read from anywhere else names any block.                        *)
(***************************************************************************)
EXTENDS FileRead

CONSTANTS
  FirstDataBlock,     (* sblock.first_data_block                             *)
  InodesPerGroup,
  InodeSize,          (* fs->inodesz                                         *)
  InodeLen,           (* sizeof (struct ext2_inode)                          *)
  DescSize,           (* sizeof (struct ext2_block_group)                    *)
  Groups,             (* how many block groups there are                     *)
  Tables,             (* inode_table_id of each group                        *)
  AnyTable            (* some blocks that a wrong descriptor may name        *)

DescPerBlock == BlockSize \div DescSize
InodesPerBlock == BlockSize \div InodeSize
InodeCount == Groups * InodesPerGroup

(* Block groups hold whole blocks of inodes (mke2fs rounds them up).       *)
ASSUME InodeAssumption ==
  /\ FirstDataBlock \in Nat
  /\ InodesPerGroup \in Nat \ {0}
  /\ InodeSize \in Nat \ {0} /\ InodeLen \in 0..InodeSize
  /\ DescSize \in 1..BlockSize /\ InodeSize <= BlockSize
  /\ InodesPerGroup % InodesPerBlock = 0
  /\ Groups \in Nat /\ Tables \in [0..(Groups - 1) -> Nat]
  /\ AnyTable \subseteq Nat
  /\ BufSize >= DescSize /\ BufSize >= InodeLen

(* The sizes divide a block, and its sectors the ints, as powers of two    *)
(* do; descriptors and tables lie in a partition of at most 2^32 sectors,  *)
(* an inode number has 32 bits.                                            *)
ASSUME TablesAssumption ==
  /\ BlockSize % DescSize = 0 /\ BlockSize % InodeSize = 0
  /\ (2 * (IntMax + 1)) % SectorsPerBlock = 0
  /\ InodeCount <= 2 * IntMax + 1
  /\ (FirstDataBlock + 2 + Groups \div DescPerBlock) * SectorsPerBlock <= 2 * (IntMax + 1)
  /\ \A g \in 0..(Groups - 1) :
       (Tables[g] + InodesPerGroup \div InodesPerBlock) * SectorsPerBlock <= 2 * (IntMax + 1)

VARIABLE node         (* the inode being read: st, ino, and whether the      *)
                      (* group's descriptor is known to be its descriptor    *)

inodeVars == <<vars, node>>

Closed == [st |-> "closed", ino |-> 0, sure |-> FALSE]

InodeTypeOK ==
  /\ TypeOK
  /\ node \in [st : {"closed", "group", "inode", "open"}, ino : 0..InodeCount,
               sure : BOOLEAN]

InodeInit == Init /\ node = Closed

-----------------------------------------------------------------------------
(* An int divided by an unsigned is an unsigned; by an int, it may leave a *)
(* negative rest.                                                          *)
Rest(a, b) == IF a < 0 THEN -((-a) % b) ELSE a % b

Group(ino) == Unsigned(ino - 1) \div InodesPerGroup
Sector(block) == Wrap(block * SectorsPerBlock)

(* Lines 538-551: descriptor of the group of inode ino.                    *)
ReadGroup(ino) ==
  /\ node.st = "closed" /\ dev.pc = "idle"
  /\ DevCall(Sector(FirstDataBlock + 1 + Group(ino) \div DescPerBlock),
             (Group(ino) % DescPerBlock) * DescSize, DescSize, 0)
  /\ node' = [st |-> "group", ino |-> ino, sure |-> FALSE]
  /\ UNCHANGED <<buf, fvars>>

DescAt(group) ==
  [k \in 0..(DescSize - 1) |->
     (FirstDataBlock + 1) * BlockSize + group * DescSize + k]

(* The groups whose descriptor is in the buffer: at most one.              *)
DescRead ==
  {g \in 0..(Groups - 1) : \A k \in 0..(DescSize - 1) : buf[k] = DescAt(g)[k]}

(* Line 572.  ino is an int: from 2^31 + 1 on, as for number 0, ino - 1 is *)
(* negative, and so may be what is left of it.                             *)
InodeOffsetOneBased(ino) == Rest(Wrap(ino), InodesPerBlock) * InodeSize
InodeOffset(ino) == Rest(Wrap(ino - 1), InodesPerBlock) * InodeSize

ReadSlot(table) ==
  DevCall(Sector(table + (Unsigned(node.ino - 1) % InodesPerGroup) \div InodesPerBlock),
          InodeOffset(node.ino), InodeLen, 0)

(* Lines 566-575.                                                          *)
GroupRead ==
  /\ node.st = "group" /\ dev.pc = "ok"
  /\ \/ \E g \in DescRead : ReadSlot(Tables[g])
     \/ DescRead = {} /\ \E table \in AnyTable : ReadSlot(table)
  /\ node' = [node EXCEPT !.st = "inode", !.sure = DescRead # {}]
  /\ UNCHANGED <<buf, fvars>>

Forget == buf' = [k \in DOMAIN buf |-> Unset] /\ dev' = DevIdle

InodeFound ==
  /\ node.st = "inode" /\ dev.pc = "ok"
  /\ node' = [Closed EXCEPT !.st = "open"]
  /\ Forget /\ UNCHANGED fvars

InodeNotRead ==
  /\ node.st \in {"group", "inode"} /\ dev.pc = "failed"
  /\ node' = Closed
  /\ Forget /\ UNCHANGED fvars

InodeDevice ==
  /\ node.st \in {"group", "inode"}
  /\ DevStep
  /\ UNCHANGED <<fvars, node>>

InodeStep == GroupRead \/ InodeFound \/ InodeNotRead \/ InodeDevice

InodeNext ==
  \/ \E ino \in 0..InodeCount : ReadGroup(ino)
  \/ InodeStep
  \/ node.st = "open" /\ Next /\ UNCHANGED node

InodeSpec ==
  /\ InodeInit /\ [][InodeNext]_inodeVars
  /\ WF_inodeVars(InodeStep \/ (node.st = "open" /\ Onward /\ UNCHANGED node))

-----------------------------------------------------------------------------
(* The reference: inodes are numbered from 1, through one table after the  *)
(* other, and lie there one behind the other.                              *)
SlotOf(ino) ==
  LET group == (ino - 1) \div InodesPerGroup
      index == (ino - 1) % InodesPerGroup
  IN  Tables[group] * BlockSize + index * InodeSize

(***************************************************************************)
(* What is taken for an inode is the inode of that number, whatever block  *)
(* of whatever table its slot is in.  The offset in the block comes from   *)
(* the whole number (line 572) and the block from what is left of it in    *)
(* its group.  That is for the numbers an int can hold (line 554): above   *)
(* them the offset is negative and the bytes are those before the block,   *)
(* and line 563 makes number 0 the largest of all.  Bytes may be wrong     *)
(* where a part_read went wrong, and all of them are when that was the     *)
(* descriptor.                                                             *)
(***************************************************************************)
InodeIsItsSlot ==
  (node.st = "inode" /\ dev.pc = "ok" /\ node.sure
     /\ node.ino - 1 \in 0..IntMax) =>
     \A k \in 0..(InodeLen - 1) : buf[k] \in {SlotOf(node.ino) + k, Garbage, Stray}
=============================================================================
