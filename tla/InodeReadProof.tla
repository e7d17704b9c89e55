---------------------------- MODULE InodeReadProof ----------------------------
(***************************************************************************)
(* Proofs about the reading of inodes and files: no read of the device     *)
(* leaves the partition, what is taken for an inode is the inode of its    *)
(* number, what is delivered are the file's bytes, and the whole keeps,    *)
(* step by step, what FileSpec promises.                                   *)
(***************************************************************************)
EXTENDS InodeRead, FileReadProof

-----------------------------------------------------------------------------
(***************************************************************************)
(* The inode.  Where the number is no int the offset in the block may be   *)
(* negative: the range lies in the block before, and in none at all when   *)
(* the block is the first of the partition.                                *)
(***************************************************************************)
BlockOf(ino) == (Unsigned(ino - 1) % InodesPerGroup) \div InodesPerBlock

GroupOK ==
  node.st = "group" =>
    Serves(Sector(FirstDataBlock + 1 + Group(node.ino) \div DescPerBlock),
           (Group(node.ino) % DescPerBlock) * DescSize, DescSize, 0)

SlotOK ==
  node.st = "inode" =>
    \E table \in AnyTable \cup {Tables[g] : g \in 0..(Groups - 1)} :
      /\ Serves(Sector(table + BlockOf(node.ino)), InodeOffset(node.ino), InodeLen, 0)
      /\ node.sure /\ node.ino # 0 => table = Tables[Group(node.ino)]

NodeOK ==
  /\ node.st # "open" => pc = "idle"
  /\ node.st = "closed" => dev = DevIdle
  /\ node.st = "inode" => dev.pc # "idle"
  /\ node.st \in {"closed", "open"} /\ pc = "idle" => dev = DevIdle /\ Blank
  /\ dev.pc = "head" => dev.offset < SectorSize
  /\ GroupOK /\ SlotOK

Typed ==
  /\ length \in PartLengths
  /\ dev \in [pc : DevPc, sector : Int, offset : Int, len : Nat, to : Nat]
  /\ buf \in [0..(BufSize - 1) -> Int]
  /\ map \in Maps /\ filesize \in FileSizes
  /\ pc \in {"idle", "map", "place", "spill", "done"}
  /\ req \in [pos : 0..MaxPos, len : 0..MaxLen] /\ req.len <= filesize
  /\ i \in 0..Blocks /\ blknr \in Int /\ to \in 0..BufSize
  /\ run = NoRun \/ run \in [start : Int, extent : Nat, skip : 0..(BlockSize - 1),
                             next : Int, to : 0..BufSize]
  /\ result \in -1..MaxLen
  /\ node \in [st : {"closed", "group", "inode", "open"}, ino : 0..InodeCount,
               sure : BOOLEAN]
  /\ DevTypeOK

IInv == Typed /\ ReadOK /\ NodeOK

-----------------------------------------------------------------------------
(* Where descriptors and inodes are.                                       *)
LEMMA Packed ==
  ASSUME NEW p \in Nat \ {0}, NEW n \in Nat \ {0}, p % n = 0
  PROVE  p \div n \in Nat \ {0} /\ p = (p \div n) * n
<1>1. PICK q \in Int : q = p \div n /\ p = q * n /\ q >= 0
  <2>1. p \in Int /\ p >= 0
    OBVIOUS
  <2>2. /\ p \div n \in Int /\ p = (p \div n) * n + (p % n) /\ p \div n >= 0
    BY ONLY <2>1, n \in Nat \ {0}, DivMod
  <2>3. (p \div n) * n \in Int
    BY <2>2, MulMono
  <2> QED BY <2>2, <2>3
<1>2. q # 0
  BY <1>1
<1> QED BY <1>1, <1>2

LEMMA InodeSizes ==
  /\ DescPerBlock \in Nat \ {0} /\ DescSize \in Nat \ {0}
  /\ BlockSize = DescPerBlock * DescSize
  /\ InodesPerBlock \in Nat \ {0} /\ InodeSize \in Nat \ {0}
  /\ BlockSize = InodesPerBlock * InodeSize
  /\ InodesPerGroup \in Nat \ {0} /\ InodesPerGroup \div InodesPerBlock \in Nat
  /\ InodesPerGroup = (InodesPerGroup \div InodesPerBlock) * InodesPerBlock
  /\ InodeLen \in Nat /\ InodeLen <= InodeSize /\ DescSize <= BufSize /\ InodeLen <= BufSize
  /\ Groups \in Nat /\ FirstDataBlock \in Nat /\ InodeCount \in Nat
<1>1. DescSize \in Nat \ {0} /\ InodeSize \in Nat \ {0} /\ BlockSize \in Nat \ {0}
  BY InodeAssumption, BlockSizes
<1>2. DescPerBlock \in Nat \ {0} /\ BlockSize = DescPerBlock * DescSize
  BY <1>1, TablesAssumption, Packed DEF DescPerBlock
<1>3. InodesPerBlock \in Nat \ {0} /\ BlockSize = InodesPerBlock * InodeSize
  BY <1>1, TablesAssumption, Packed DEF InodesPerBlock
<1>4. /\ InodesPerGroup \in Nat \ {0} /\ InodesPerGroup \div InodesPerBlock \in Nat
      /\ InodesPerGroup = (InodesPerGroup \div InodesPerBlock) * InodesPerBlock
  BY <1>3, InodeAssumption, Packed
<1>5. InodeCount \in Nat
  BY <1>4, InodeAssumption, MulMono DEF InodeCount
<1> QED BY <1>1, <1>2, <1>3, <1>4, <1>5, InodeAssumption

LEMMA Sectors ==
  ASSUME NEW b \in Int
  PROVE  Sector(b) \in Int /\ Sector(b) <= IntMax
<1>1. b * SectorsPerBlock \in Int
  BY BlockSizes, MulMono
<1> QED BY <1>1, Wraps DEF Sector

(* The first byte of a block whose sector is an int.                       *)
LEMMA BlockStart ==
  ASSUME NEW b \in Nat, (b + 1) * SectorsPerBlock <= Range2, Sector(b) >= 0
  PROVE  Sector(b) * SectorSize = b * BlockSize
<1>1. PICK x \in Nat : x = b * SectorsPerBlock /\ x + SectorsPerBlock <= Range2
  BY BlockSizes, MulMono
<1>2. IntMax \in Nat /\ Range2 = IntMax + IntMax + 2 /\ SectorsPerBlock \in Nat \ {0}
  BY Sizes, BlockSizes DEF Range2
<1>3. x < Range2
  BY <1>1, <1>2
<1>4. x > IntMax => Wrap(x) = x - Range2
  BY <1>3, Wraps
<1>5. Sector(b) = Wrap(x)
  BY <1>1 DEF Sector
<1>6. x \in 0..IntMax
  BY <1>2, <1>3, <1>4, <1>5
<1>7. Sector(b) = x
  BY <1>5, <1>6, Wraps
<1>8. x * SectorSize = b * BlockSize
  BY <1>1, BlockSizes
<1> QED BY <1>7, <1>8

LEMMA Unsigneds ==
  /\ \A x \in Int : Unsigned(x) \in Nat
  /\ \A x \in 0..(Range2 - 1) : Unsigned(x) = x
<1>1. Range2 \in Nat \ {0}
  BY Sizes DEF Range2
<1>2. \A x : Unsigned(x) = x % Range2
  BY DEF Unsigned, Range2
<1>3. \A x \in Int : x % Range2 \in 0..(Range2 - 1)
  BY <1>1, DivMod
<1>4. ASSUME NEW x \in 0..(Range2 - 1) PROVE x % Range2 = x
  <2>1. 0 \in Int /\ x = 0 * Range2 + x /\ x \in Int
    BY <1>1
  <2> QED BY <1>1, <2>1, DivIs
<1> QED BY <1>1, <1>2, <1>3, <1>4

LEMMA GroupsOf ==
  ASSUME NEW ino \in Int
  PROVE  /\ Group(ino) \in Nat /\ Group(ino) \div DescPerBlock \in Nat
         /\ Group(ino) % DescPerBlock \in 0..(DescPerBlock - 1)
         /\ BlockOf(ino) \in Nat
<1>1. Unsigned(ino - 1) \in Nat
  BY Unsigneds
<1>2. Unsigned(ino - 1) \in Int /\ Unsigned(ino - 1) >= 0
  BY <1>1
<1>3. Group(ino) \in Nat
  <2>1. Unsigned(ino - 1) \div InodesPerGroup \in Int /\ Unsigned(ino - 1) \div InodesPerGroup >= 0
    BY <1>2, InodeSizes, DivMod
  <2> QED BY <2>1 DEF Group
<1>4. Group(ino) \in Int /\ Group(ino) >= 0
  BY <1>3
<1>5. Group(ino) \div DescPerBlock \in Int /\ Group(ino) \div DescPerBlock >= 0
      /\ Group(ino) % DescPerBlock \in 0..(DescPerBlock - 1)
  BY <1>4, InodeSizes, DivMod
<1>6. Unsigned(ino - 1) % InodesPerGroup \in 0..(InodesPerGroup - 1)
  BY <1>2, InodeSizes, DivMod
<1>7. PICK x \in Int : x = Unsigned(ino - 1) % InodesPerGroup /\ x >= 0
  BY <1>6, InodeSizes
<1>8. x \div InodesPerBlock \in Int /\ x \div InodesPerBlock >= 0
  BY <1>7, InodeSizes, DivMod
<1>9. BlockOf(ino) \in Nat
  BY <1>7, <1>8 DEF BlockOf
<1> QED BY <1>3, <1>5, <1>9

(* A number from 1 on is in the group that counting gives.                 *)
LEMMA CountedGroup ==
  ASSUME NEW ino \in 1..InodeCount
  PROVE  /\ Unsigned(ino - 1) = ino - 1 /\ Group(ino) \in 0..(Groups - 1)
         /\ (ino - 1) % InodesPerGroup \in 0..(InodesPerGroup - 1)
         /\ ino - 1 = Group(ino) * InodesPerGroup + ((ino - 1) % InodesPerGroup)
<1>1. PICK c \in Nat : c = ino - 1 /\ c < InodeCount
  BY InodeSizes
<1>2. c \in 0..(Range2 - 1)
  BY <1>1, TablesAssumption, InodeSizes, Sizes DEF Range2
<1>3. Unsigned(c) = c
  BY <1>2, Unsigneds
<1>4. PICK g \in Int, r \in 0..(InodesPerGroup - 1) :
        /\ g = c \div InodesPerGroup /\ r = c % InodesPerGroup
        /\ c = g * InodesPerGroup + r /\ g >= 0
  <2>1. c \in Int /\ c >= 0
    BY <1>1
  <2> QED BY ONLY <2>1, InodeSizes, DivMod
<1>5. g < Groups
  <2>1. g * InodesPerGroup \in Int
    BY InodeSizes, MulMono
  <2>2. g * InodesPerGroup < Groups * InodesPerGroup
    BY <1>1, <1>4, <2>1, InodeSizes DEF InodeCount
  <2> QED BY <2>2, InodeSizes, MulMono
<1>6. Group(ino) = g
  BY <1>1, <1>3, <1>4 DEF Group
<1>7. (ino - 1) % InodesPerGroup = r /\ Unsigned(ino - 1) = c
  BY <1>1, <1>3, <1>4
<1>8. g \in 0..(Groups - 1)
  BY <1>4, <1>5, InodeSizes
<1>9. c = Group(ino) * InodesPerGroup + r
  BY <1>4, <1>6
<1>10. ino - 1 = Group(ino) * InodesPerGroup + ((ino - 1) % InodesPerGroup)
  BY <1>1, <1>7, <1>9, Zenon
<1>11. Unsigned(ino - 1) = ino - 1 /\ Group(ino) \in 0..(Groups - 1)
  BY <1>1, <1>6, <1>7, <1>8
<1>12. (ino - 1) % InodesPerGroup \in 0..(InodesPerGroup - 1)
  BY <1>7
<1> QED BY <1>10, <1>11, <1>12

LEMMA DescBound ==
  ASSUME NEW ino \in Int
  PROVE  Boundary(Sector(FirstDataBlock + 1 + Group(ino) \div DescPerBlock),
                  (Group(ino) % DescPerBlock) * DescSize, DescSize, 0)
         /\ Sector(FirstDataBlock + 1 + Group(ino) \div DescPerBlock) \in Int
         /\ (Group(ino) % DescPerBlock) * DescSize \in Nat
<1>1. PICK r \in 0..(DescPerBlock - 1) : r = Group(ino) % DescPerBlock
  BY GroupsOf
<1>2. /\ r * DescSize \in Nat /\ r * DescSize + DescSize <= BlockSize
  <2>1. /\ DescPerBlock \in Nat /\ DescSize \in Nat \ {0} /\ BlockSize = DescPerBlock * DescSize
        /\ r \in Int /\ r + 1 \in Int /\ r + 1 <= DescPerBlock /\ r >= 0
    BY InodeSizes
  <2>2. (r + 1) * DescSize <= DescPerBlock * DescSize /\ (r + 1) * DescSize = r * DescSize + DescSize
        /\ r * DescSize \in Int /\ r * DescSize >= 0
    BY <2>1, MulMono
  <2> QED BY <2>1, <2>2
<1>3. PICK s \in Int : s = Sector(FirstDataBlock + 1 + Group(ino) \div DescPerBlock) /\ s <= IntMax
  <2>1. FirstDataBlock + 1 + Group(ino) \div DescPerBlock \in Int
    BY GroupsOf, InodeSizes
  <2> QED BY <2>1, Sectors
<1>4. PICK o \in Nat : o = r * DescSize /\ o + DescSize <= BlockSize
  BY <1>2
<1>5. s >= 0 => First(s, o) >= 0
  <2>1. s >= 0 => s * SectorSize >= 0 /\ s * SectorSize \in Int
    BY BlockSizes, MulMono
  <2> QED BY <2>1 DEF First
<1>6. o + DescSize <= BufSize /\ DescSize <= BufSize
  BY <1>4, BlockSizes, InodeSizes
<1>7. Boundary(s, o, DescSize, 0)
  BY <1>3, <1>5, <1>6, InodeSizes DEF Boundary
<1> QED BY <1>1, <1>3, <1>4, <1>7

(* What is left of an index, negative where the index is.                  *)
LEMMA RestOf ==
  ASSUME NEW ino \in 0..InodeCount
  PROVE  Rest(Wrap(ino - 1), InodesPerBlock)
           \in (1 - InodesPerBlock)..(InodesPerBlock - 1)
<1>1. PICK x \in Int : x = Wrap(ino - 1)
  <2>1. ino - 1 \in Int
    BY InodeSizes
  <2> QED BY <2>1, Wraps
<1>2. x % InodesPerBlock \in 0..(InodesPerBlock - 1)
      /\ (-x) % InodesPerBlock \in 0..(InodesPerBlock - 1)
  <2>1. -x \in Int
    BY <1>1
  <2> QED BY <1>1, <2>1, InodeSizes, DivMod
<1> QED BY <1>1, <1>2, InodeSizes DEF Rest

(* The sectors of blocks are a block apart, also where they wrap.          *)
LEMMA BlockSector ==
  ASSUME NEW b \in Int, Sector(b) >= 0
  PROVE  Sector(b) = 0 \/ Sector(b) >= SectorsPerBlock
<1>1. /\ Range2 \in Nat \ {0} /\ IntMax \in Nat /\ SectorsPerBlock \in Nat \ {0}
      /\ Range2 % SectorsPerBlock = 0
  BY Sizes, BlockSizes, TablesAssumption DEF Range2
<1>2. PICK w \in Int : Range2 = w * SectorsPerBlock
  <2>1. /\ Range2 \div SectorsPerBlock \in Int
        /\ Range2 = (Range2 \div SectorsPerBlock) * SectorsPerBlock
                      + (Range2 % SectorsPerBlock)
    BY <1>1, DivMod
  <2>2. (Range2 \div SectorsPerBlock) * SectorsPerBlock \in Int
    BY <1>1, <2>1, MulMono
  <2> QED BY <1>1, <2>1, <2>2
<1>3. PICK x \in Int : x = b * SectorsPerBlock
  BY <1>1, MulMono
<1>4. PICK q \in Int : x = q * Range2 + (x % Range2)
  BY <1>1, <1>3, DivMod
<1>5. Sector(b) = x % Range2
  <2>1. Unsigned(x) = x % Range2 /\ x % Range2 \in 0..(Range2 - 1)
    BY <1>1, <1>3, DivMod DEF Unsigned, Range2
  <2>2. Sector(b) = IF Unsigned(x) <= IntMax THEN Unsigned(x) ELSE Unsigned(x) - Range2
    BY <1>3 DEF Sector, Wrap, Range2
  <2> QED BY <1>1, <2>1, <2>2
<1>6. Sector(b) = (b - q * w) * SectorsPerBlock
  <2>1. q * Range2 = (q * w) * SectorsPerBlock
    BY <1>1, <1>2
  <2>2. (b - q * w) * SectorsPerBlock = b * SectorsPerBlock - (q * w) * SectorsPerBlock
    BY <1>1, <1>2, <1>4
  <2>3. Sector(b) \in Int /\ q * Range2 \in Int
    BY <1>1, <1>4, Sectors, MulMono
  <2> QED BY <1>3, <1>4, <1>5, <2>1, <2>2, <2>3
<1>7. PICK n \in Int : n = b - q * w
  BY <1>2, <1>4
<1>8. CASE n <= 0
  <2>1. n * SectorsPerBlock <= 0 * SectorsPerBlock
    BY <1>1, <1>7, <1>8, MulMono
  <2> QED BY <1>1, <1>6, <1>7, <2>1, Sectors
<1>9. CASE n >= 1
  <2>1. 1 * SectorsPerBlock <= n * SectorsPerBlock
    BY <1>1, <1>7, <1>9, MulMono
  <2> QED BY <1>1, <1>6, <1>7, <2>1
<1> QED BY <1>7, <1>8, <1>9

LEMMA SlotBound ==
  ASSUME NEW ino \in 0..InodeCount, NEW table \in Nat
  PROVE  Boundary(Sector(table + BlockOf(ino)), InodeOffset(ino), InodeLen, 0)
<1>1. PICK s \in Int : /\ s = Sector(table + BlockOf(ino)) /\ s <= IntMax
                       /\ s >= 0 => s = 0 \/ s >= SectorsPerBlock
  <2>1. table + BlockOf(ino) \in Int
    BY GroupsOf, InodeSizes
  <2> QED BY <2>1, Sectors, BlockSector
<1>2. PICK r \in (1 - InodesPerBlock)..(InodesPerBlock - 1) :
        r = Rest(Wrap(ino - 1), InodesPerBlock)
  BY RestOf
<1>3. PICK o \in Int :
        /\ o = r * InodeSize /\ o + InodeSize <= BlockSize /\ o + BlockSize >= 0
        /\ o >= 0 \/ o + InodeSize <= 0
  <2>1. /\ InodesPerBlock \in Nat \ {0} /\ InodeSize \in Nat \ {0}
        /\ BlockSize = InodesPerBlock * InodeSize
        /\ r \in Int /\ r + 1 <= InodesPerBlock /\ -InodesPerBlock <= r
        /\ -InodesPerBlock \in Int
    BY InodeSizes
  <2>2. /\ (r + 1) * InodeSize <= InodesPerBlock * InodeSize
        /\ (-InodesPerBlock) * InodeSize <= r * InodeSize
        /\ (r + 1) * InodeSize = r * InodeSize + InodeSize
        /\ r * InodeSize \in Int /\ (r >= 0 => r * InodeSize >= 0)
        /\ r < 0 => (r + 1) * InodeSize <= 0 * InodeSize
    BY <2>1, MulMono
  <2>3. (-InodesPerBlock) * InodeSize = -BlockSize
    BY <2>1
  <2> QED BY <2>1, <2>2, <2>3, BlockSizes
<1>4. InodeOffset(ino) = o
  BY <1>2, <1>3 DEF InodeOffset
<1>5. s >= 0 => First(s, o) >= 0 \/ (s = 0 /\ o + InodeLen <= 0 /\ o >= -IntMax)
  <2>1. /\ (s >= 0 => s * SectorSize >= 0) /\ s * SectorSize \in Int
        /\ (SectorsPerBlock <= s => SectorsPerBlock * SectorSize <= s * SectorSize)
    BY BlockSizes, MulMono
  <2>2. CASE o >= 0
    BY <1>3, <2>1, <2>2 DEF First
  <2>3. CASE s >= SectorsPerBlock
    BY <1>3, <2>1, <2>3, BlockSizes DEF First
  <2>4. CASE s = 0 /\ o + InodeSize <= 0
    <3>1. BlockSize <= IntMax
      BY BlockSizes, Sizes
    <3> QED BY <1>3, <2>4, <3>1, InodeSizes, BlockSizes, Sizes
  <2> QED BY <1>1, <1>3, <2>2, <2>3, <2>4
<1>6. o + InodeLen <= BufSize /\ InodeLen <= BufSize
  BY <1>3, BlockSizes, InodeSizes
<1> QED BY <1>1, <1>4, <1>5, <1>6, InodeSizes DEF Boundary

LEMMA SlotInt ==
  ASSUME NEW ino \in 0..InodeCount
  PROVE  InodeOffset(ino) \in Int
<1>1. PICK r \in Int : r = Rest(Wrap(ino - 1), InodesPerBlock)
  BY RestOf, InodeSizes
<1>2. r * InodeSize \in Int
  BY InodeSizes, MulMono
<1> QED BY <1>1, <1>2 DEF InodeOffset

-----------------------------------------------------------------------------
(* The steps that read an inode.                                           *)
NodeTyped ==
  node \in [st : {"closed", "group", "inode", "open"}, ino : 0..InodeCount, sure : BOOLEAN]

(* While no read of a file is going on.                                    *)
Quiet ==
  /\ length \in PartLengths /\ map \in Maps /\ filesize \in FileSizes
  /\ pc = "idle" /\ Asks /\ req.len <= filesize
  /\ i \in 0..Blocks /\ blknr \in Int /\ to = 0 /\ run = NoRun
  /\ result \in -1..MaxLen

InodeOK ==
  /\ Kinds /\ buf \in Bytes /\ buf \in Marked
  /\ node.st = "closed" => dev = DevIdle /\ Blank
  /\ node.st = "inode" => dev.pc # "idle"
  /\ dev.pc = "head" => dev.offset < SectorSize
  /\ GroupOK /\ SlotOK

LEMMA Unopened ==
  ASSUME node.st # "open"
  PROVE  IInv <=> NodeTyped /\ Quiet /\ InodeOK
<1>1. ASSUME IInv PROVE NodeTyped /\ Quiet /\ InodeOK
  <2>1. Typed /\ ReadOK /\ NodeOK
    BY <1>1 DEF IInv
  <2>2. pc = "idle"
    BY <2>1 DEF NodeOK
  <2>3. to = 0 /\ run = NoRun
    BY <2>1, <2>2 DEF ReadOK, AtBlock, RunOK
  <2>4. Quiet /\ NodeTyped
    BY <2>1, <2>2, <2>3 DEF Typed, Quiet, NodeTyped, Asks
  <2>5. InodeOK
    BY <2>1, <2>2 DEF Typed, NodeOK, InodeOK, Kinds, Bytes, Marked, DevTypeOK
  <2> QED BY <2>4, <2>5
<1>2. ASSUME NodeTyped, Quiet, InodeOK PROVE IInv
  <2>1. Typed
    <3>1. 0 \in 0..BufSize
      BY BlockSizes
    <3> QED BY <1>2, <3>1 DEF Typed, Quiet, NodeTyped, InodeOK, Asks, Kinds, Bytes, Marked, DevTypeOK
  <2>2. ReadOK
    BY <1>2 DEF Quiet, ReadOK, AtBlock, RunOK, BufOK, DevOK, OverrunOnlyByHole
  <2>3. NodeOK
    BY <1>2 DEF Quiet, InodeOK, NodeOK
  <2> QED BY <2>1, <2>2, <2>3 DEF IInv
<1> QED BY <1>1, <1>2

LEMMA Opened ==
  ASSUME node.st = "open"
  PROVE  IInv <=> NodeTyped /\ LoopOK
<1>1. GroupOK /\ SlotOK
  BY DEF GroupOK, SlotOK
<1>2. Typed <=> NodeTyped /\ LoopTyped
  BY <1>1, MarkedBytes
  DEF Typed, LoopTyped, NodeTyped, DevTypeOK, Kinds, Bytes, Marked, Asks
<1>3. NodeOK <=> IdleOK /\ (dev.pc = "head" => dev.offset < SectorSize)
  BY <1>1 DEF NodeOK, IdleOK
<1>4. ASSUME LoopOK, dev.pc = "head" PROVE dev.offset < SectorSize
  <2>1. dev # DevIdle
    BY <1>4 DEF DevIdle
  <2>2. pc = "spill"
    BY <1>4, <2>1 DEF LoopOK, LoopTyped, ReadOK, DevOK, IdleOK
  <2>3. Serves(run.start, run.skip, run.extent, run.to)
    BY <1>4, <2>2 DEF LoopOK, ReadOK, DevOK
  <2>4. dev.offset \in 1..(SectorSize - 1)
    BY <1>4, <2>3 DEF Serves
  <2> QED BY <2>4, BlockSizes
<1> QED BY <1>2, <1>3, <1>4 DEF IInv, LoopOK

(* The call a step makes.                                                  *)
LEMMA CallServes ==
  ASSUME NEW s, NEW o, NEW l, NEW at, DevCall(s, o, l, at)
  PROVE  /\ Serves(s, o, l, at)' /\ dev'.pc = "check"
         /\ s \in Int /\ o \in Int /\ l \in Nat /\ at \in Nat => Kinds'
BY DEF DevCall, Serves, Moving, Kinds, DevPc

LEMMA QuietKeeps ==
  ASSUME Quiet, UNCHANGED fvars
  PROVE  Quiet'
BY DEF Quiet, fvars, Asks

LEMMA ReadGroupKeeps ==
  ASSUME IInv, NEW ino \in 0..InodeCount, ReadGroup(ino)
  PROVE  IInv'
<1>1. /\ node.st = "closed" /\ UNCHANGED fvars /\ buf' = buf
      /\ node' = [st |-> "group", ino |-> ino, sure |-> FALSE]
      /\ DevCall(Sector(FirstDataBlock + 1 + Group(ino) \div DescPerBlock),
                 (Group(ino) % DescPerBlock) * DescSize, DescSize, 0)
  BY DEF ReadGroup
<1>2. NodeTyped /\ Quiet /\ InodeOK
  BY <1>1, Unopened
<1>3. Quiet'
  BY <1>1, <1>2, QuietKeeps
<1>4. NodeTyped'
  BY <1>1 DEF NodeTyped
<1>5. /\ Serves(Sector(FirstDataBlock + 1 + Group(ino) \div DescPerBlock),
                (Group(ino) % DescPerBlock) * DescSize, DescSize, 0)'
      /\ dev'.pc = "check" /\ Kinds'
  <2>1. ino \in Int
    BY InodeSizes
  <2>2. /\ Sector(FirstDataBlock + 1 + Group(ino) \div DescPerBlock) \in Int
        /\ (Group(ino) % DescPerBlock) * DescSize \in Nat
    BY <2>1, DescBound
  <2>3. /\ (Group(ino) % DescPerBlock) * DescSize \in Int /\ DescSize \in Nat /\ 0 \in Nat
    BY <2>2, InodeSizes
  <2> QED BY <1>1, <2>2, <2>3, CallServes
<1>6. GroupOK'
  <2>1. node'.st = "group" /\ node'.ino = ino
    BY <1>1
  <2> QED BY <1>5, <2>1 DEF GroupOK, Group, DescPerBlock, Sector, Unsigned, Wrap, BlockSize
<1>7. buf \in Marked /\ buf \in Bytes
  BY <1>1, <1>2 DEF InodeOK
<1>8. InodeOK'
  BY <1>1, <1>5, <1>6, <1>7 DEF InodeOK, SlotOK, Marked, Bytes
<1>9. node'.st # "open"
  BY <1>1
<1>10. (node.st # "open" => (IInv <=> NodeTyped /\ Quiet /\ InodeOK))'
  BY Unopened, PTL
<1> QED BY <1>3, <1>4, <1>8, <1>9, <1>10

AnyOf == AnyTable \cup {Tables[g] : g \in 0..(Groups - 1)}

LEMMA AnyNat == AnyOf \subseteq Nat
BY InodeAssumption DEF AnyOf

(* The descriptor that is in the buffer is the one that was asked for.     *)
LEMMA FoundGroup ==
  ASSUME NodeTyped, GroupOK, node.st = "group", dev.pc = "ok", node.ino # 0,
         NEW g \in DescRead
  PROVE  g = Group(node.ino)
<1>1. PICK ino \in 1..InodeCount : ino = node.ino
  BY InodeSizes DEF NodeTyped
<1>2. PICK G \in Nat, d \in Nat, r \in Nat :
        /\ G = Group(ino) /\ d = G \div DescPerBlock /\ r = G % DescPerBlock
        /\ G = d * DescPerBlock + r /\ G < Groups
  <2>1. Group(ino) \in 0..(Groups - 1)
    BY CountedGroup
  <2>2. Group(ino) \in Nat /\ Group(ino) \in Int /\ Group(ino) >= 0 /\ Group(ino) < Groups
    BY <2>1, InodeSizes
  <2>3. /\ Group(ino) \div DescPerBlock \in Int /\ Group(ino) \div DescPerBlock >= 0
        /\ Group(ino) % DescPerBlock \in 0..(DescPerBlock - 1)
        /\ Group(ino) = (Group(ino) \div DescPerBlock) * DescPerBlock
                          + (Group(ino) % DescPerBlock)
    BY ONLY <2>2, InodeSizes, DivMod
  <2>4. Group(ino) \div DescPerBlock \in Nat /\ Group(ino) % DescPerBlock \in Nat
    BY <2>3, InodeSizes
  <2> QED BY <2>2, <2>3, <2>4
<1>3. PICK b \in Nat : b = FirstDataBlock + 1 + d /\ (b + 1) * SectorsPerBlock <= Range2
  <2>1. PICK t \in Int : t = Groups \div DescPerBlock /\ d <= t
    <3>1. PICK t \in Int, u \in Nat : t = Groups \div DescPerBlock /\ u < DescPerBlock
             /\ Groups = t * DescPerBlock + u
      <4>1. Groups \in Int /\ Groups >= 0
        BY InodeSizes
      <4>2. /\ Groups \div DescPerBlock \in Int /\ Groups % DescPerBlock \in 0..(DescPerBlock - 1)
            /\ Groups = (Groups \div DescPerBlock) * DescPerBlock + (Groups % DescPerBlock)
        BY ONLY <4>1, InodeSizes, DivMod
      <4> QED BY <4>2, InodeSizes
    <3>2. d * DescPerBlock \in Int /\ t * DescPerBlock \in Int
          /\ (t + 1) * DescPerBlock = t * DescPerBlock + DescPerBlock
      BY InodeSizes, MulMono
    <3>3. d * DescPerBlock < (t + 1) * DescPerBlock
      BY <1>2, <3>1, <3>2, InodeSizes
    <3>4. d < t + 1
      <4>1. d \in Int /\ t + 1 \in Int
        OBVIOUS
      <4> QED BY ONLY <3>3, <4>1, InodeSizes, MulMono
    <3> QED BY <3>1, <3>4
  <2>2. (FirstDataBlock + 2 + t) * SectorsPerBlock <= Range2
    BY <2>1, TablesAssumption DEF Range2
  <2>3. FirstDataBlock + 1 + d + 1 <= FirstDataBlock + 2 + t
    BY <2>1, InodeSizes
  <2>4. PICK b \in Nat, c \in Nat : b = FirstDataBlock + 1 + d /\ c = FirstDataBlock + 2 + t
                                     /\ b + 1 <= c
    <3>1. FirstDataBlock + 1 + d \in Nat /\ FirstDataBlock + 2 + t \in Nat
      BY <2>1, InodeSizes
    <3> QED BY <2>3, <3>1
  <2>5. (b + 1) * SectorsPerBlock <= c * SectorsPerBlock
        /\ (b + 1) * SectorsPerBlock \in Int /\ c * SectorsPerBlock \in Int
    BY <2>4, BlockSizes, MulMono
  <2>6. c * SectorsPerBlock <= Range2 /\ Range2 \in Int
    BY <2>2, <2>4, Sizes DEF Range2
  <2> QED BY <2>4, <2>5, <2>6
<1>4. Serves(Sector(b), r * DescSize, DescSize, 0)
  BY <1>1, <1>2, <1>3 DEF GroupOK
<1>5. Sector(b) >= 0 /\ Copied(First(Sector(b), r * DescSize), 0, 0 + DescSize)
  BY <1>4 DEF Serves
<1>6. PICK f0 \in Int, bb \in Int, rd \in Int :
        /\ f0 = First(Sector(b), r * DescSize) /\ bb = b * BlockSize /\ rd = r * DescSize
        /\ f0 = bb + rd
  <2>1. Sector(b) * SectorSize = b * BlockSize
    BY <1>3, <1>5, BlockStart
  <2>2. b * BlockSize \in Int /\ r * DescSize \in Int
    BY BlockSizes, InodeSizes, MulMono
  <2> QED BY <2>1, <2>2 DEF First
<1>7. buf[0] \in {f0, Garbage, Stray}
  <2>1. 0 \in 0..((0 + DescSize) - 1)
    BY InodeSizes
  <2>2. buf[0] \in {f0 + (0 - 0), Garbage, Stray}
    BY <1>5, <1>6, <2>1 DEF Copied
  <2> QED BY <2>2
<1>8. PICK e \in Int, gd \in Int : e = (FirstDataBlock + 1) * BlockSize /\ gd = g * DescSize
        /\ e >= 0 /\ gd >= 0 /\ buf[0] = e + gd
  <2>1. g \in Nat /\ buf[0] = DescAt(g)[0]
    BY InodeSizes DEF DescRead
  <2>2. DescAt(g)[0] = (FirstDataBlock + 1) * BlockSize + g * DescSize + 0
    BY InodeSizes DEF DescAt
  <2>3. FirstDataBlock + 1 \in Int /\ FirstDataBlock + 1 >= 0
    BY InodeSizes
  <2>4. /\ (FirstDataBlock + 1) * BlockSize \in Int /\ g * DescSize \in Int
        /\ (FirstDataBlock + 1) * BlockSize >= 0 /\ g * DescSize >= 0
    BY <2>1, <2>3, BlockSizes, InodeSizes, MulMono
  <2> QED BY <2>1, <2>2, <2>4
<1>9. f0 = e + gd
  BY <1>7, <1>8 DEF Garbage, Stray
<1>10. bb = e + d * BlockSize
  <2>1. b * BlockSize = (FirstDataBlock + 1) * BlockSize + d * BlockSize
    BY <1>3, InodeSizes, BlockSizes
  <2> QED BY <1>6, <1>8, <2>1
<1>11. d * BlockSize + r * DescSize = G * DescSize
  <2>1. d * (DescPerBlock * DescSize) + r * DescSize = (d * DescPerBlock + r) * DescSize
    BY InodeSizes
  <2> QED BY <1>2, <2>1, InodeSizes
<1>12. g * DescSize = G * DescSize
  <2>1. d * BlockSize \in Int /\ G * DescSize \in Int
    BY BlockSizes, InodeSizes, MulMono
  <2>2. PICK x \in Int, y \in Int, z \in Int :
          x = d * BlockSize /\ y = G * DescSize /\ z = g * DescSize
    BY <1>8, <2>1
  <2>3. bb = e + x /\ x + rd = y /\ e + z = bb + rd
    BY <1>6, <1>8, <1>9, <1>10, <1>11, <2>2
  <2>4. z = y
    BY ONLY <2>3, bb \in Int, e \in Int, rd \in Int, x \in Int, y \in Int, z \in Int
  <2> QED BY <2>2, <2>4, Zenon
<1>13. g \in Nat
  BY InodeSizes DEF DescRead
<1>14. g = G
  <2>1. g \in Int /\ G \in Int /\ DescSize \in Nat \ {0} /\ 0 \in 0..(DescSize - 1)
    BY <1>13, InodeSizes
  <2>2. g * DescSize = g * DescSize + 0 /\ g * DescSize = G * DescSize + 0 /\ g * DescSize \in Int
    BY <1>12, <2>1, MulMono
  <2>3. (g * DescSize) \div DescSize = g
    BY <2>1, <2>2, DivIs
  <2>4. (g * DescSize) \div DescSize = G
    BY <2>1, <2>2, DivIs
  <2> QED BY <2>3, <2>4
<1> QED BY <1>1, <1>2, <1>14

(* Reading a slot of a table.                                              *)
LEMMA ReadSlotServes ==
  ASSUME NodeTyped, NEW table \in Nat, ReadSlot(table), node'.ino = node.ino
  PROVE  /\ dev'.pc = "check" /\ Kinds'
         /\ Serves(Sector(table + BlockOf(node.ino)), InodeOffset(node.ino), InodeLen, 0)'
<1>1. PICK ino \in 0..InodeCount : ino = node.ino
  BY DEF NodeTyped
<1>2. PICK s \in Int : s = Sector(table + BlockOf(ino))
  <2>1. ino \in Int
    BY InodeSizes
  <2>2. table + BlockOf(ino) \in Int
    BY <2>1, GroupsOf
  <2> QED BY <2>2, Sectors
<1>3. PICK o \in Int : o = InodeOffset(ino)
  BY SlotInt
<1>4. DevCall(s, o, InodeLen, 0)
  BY <1>1, <1>2, <1>3 DEF ReadSlot, BlockOf
<1>5. /\ Serves(s, o, InodeLen, 0)' /\ dev'.pc = "check" /\ Kinds'
  BY <1>4, CallServes, InodeSizes
<1>6. s = Sector(table + BlockOf(node'.ino)) /\ o = InodeOffset(node'.ino)
  BY <1>1, <1>2, <1>3
<1>7. /\ s = Sector(table + BlockOf(node.ino))'
      /\ o = InodeOffset(node.ino)'
  BY <1>6 DEF Sector, BlockOf, InodeOffset, Wrap, Unsigned, InodesPerBlock, BlockSize, Rest
<1> QED BY <1>5, <1>7 DEF Serves, First, Copied, Cursor

LEMMA NextUnopened ==
  (node.st # "open" => (IInv <=> NodeTyped /\ Quiet /\ InodeOK))'
BY Unopened, PTL

LEMMA NextOpened ==
  (node.st = "open" => (IInv <=> NodeTyped /\ LoopOK))'
BY Opened, PTL

LEMMA GroupReadKeeps ==
  ASSUME IInv, GroupRead
  PROVE  IInv'
<1>1. /\ node.st = "group" /\ dev.pc = "ok" /\ buf' = buf /\ UNCHANGED fvars
      /\ node' = [node EXCEPT !.st = "inode", !.sure = DescRead # {}]
  BY DEF GroupRead
<1>2. NodeTyped /\ Quiet /\ InodeOK
  BY <1>1, Unopened
<1>3. node' = [st |-> "inode", ino |-> node.ino, sure |-> DescRead # {}]
      /\ node'.ino = node.ino /\ node'.st = "inode" /\ node'.sure = (DescRead # {})
  BY <1>1, <1>2 DEF NodeTyped
<1>4. PICK table \in AnyOf : /\ ReadSlot(table)
                             /\ DescRead # {} => \E g \in DescRead : table = Tables[g]
  <2>1. CASE \E g \in DescRead : ReadSlot(Tables[g])
    BY <2>1 DEF AnyOf, DescRead
  <2>2. CASE DescRead = {} /\ \E table \in AnyTable : ReadSlot(table)
    BY <2>2 DEF AnyOf
  <2> QED BY <2>1, <2>2 DEF GroupRead
<1>5. /\ dev'.pc = "check" /\ Kinds'
      /\ Serves(Sector(table + BlockOf(node.ino)), InodeOffset(node.ino), InodeLen, 0)'
  BY <1>2, <1>3, <1>4, AnyNat, ReadSlotServes
<1>6. node'.sure /\ node'.ino # 0 => table = Tables[Group(node'.ino)]
  BY <1>1, <1>2, <1>3, <1>4, FoundGroup DEF InodeOK
<1>7. SlotOK'
  <2>1. (Tables[Group(node.ino)])' = Tables[Group(node'.ino)]
    BY DEF Group, Unsigned
  <2>2. table \in AnyTable \cup {Tables[g] : g \in 0..(Groups - 1)}
    BY DEF AnyOf
  <2> QED BY <1>5, <1>6, <2>1, <2>2 DEF SlotOK
<1>8. buf \in Marked /\ buf \in Bytes
  BY <1>1, <1>2 DEF InodeOK
<1>9. InodeOK'
  <2>1. GroupOK'
    BY <1>3 DEF GroupOK
  <2>2. buf' \in Marked /\ buf' \in Bytes
    BY <1>1, <1>8
  <2> QED BY <1>3, <1>5, <1>7, <2>1, <2>2 DEF InodeOK, Marked, Bytes
<1>10. NodeTyped' /\ Quiet'
  <2>1. NodeTyped'
    BY <1>2, <1>3 DEF NodeTyped
  <2> QED BY <1>1, <1>2, <2>1, QuietKeeps
<1> QED BY <1>3, <1>9, <1>10, NextUnopened

LEMMA InodeFoundKeeps ==
  ASSUME IInv, InodeFound
  PROVE  IInv'
<1>1. /\ node.st = "inode" /\ node' = [Closed EXCEPT !.st = "open"] /\ dev' = DevIdle
      /\ buf' = [k \in DOMAIN buf |-> Unset] /\ UNCHANGED fvars
  BY DEF InodeFound, Forget
<1>2. NodeTyped /\ Quiet /\ InodeOK
  BY <1>1, Unopened
<1>3. Quiet'
  BY <1>1, <1>2, QuietKeeps
<1>4. NodeTyped' /\ node'.st = "open"
  <2>1. node' = [st |-> "open", ino |-> 0, sure |-> FALSE]
    BY <1>1 DEF Closed
  <2>2. 0 \in 0..InodeCount
    BY InodeSizes
  <2> QED BY <2>1, <2>2 DEF NodeTyped
<1>5. buf' \in Marked /\ Blank'
  BY <1>1, <1>2 DEF InodeOK, Bytes, Marked, Blank
<1>6. LoopTyped'
  <2>1. 0 \in 0..BufSize
    BY BlockSizes
  <2> QED BY <1>1, <1>3, <1>5, <2>1 DEF LoopTyped, Quiet, Kinds, DevIdle, DevPc, Marked, Asks
<1>7. ReadOK' /\ IdleOK'
  BY <1>1, <1>3, <1>5
  DEF Quiet, ReadOK, AtBlock, RunOK, BufOK, DevOK, OverrunOnlyByHole, IdleOK
<1> QED BY <1>4, <1>6, <1>7, NextOpened DEF LoopOK

LEMMA InodeNotReadKeeps ==
  ASSUME IInv, InodeNotRead
  PROVE  IInv'
<1>1. /\ node.st \in {"group", "inode"} /\ node' = Closed /\ dev' = DevIdle
      /\ buf' = [k \in DOMAIN buf |-> Unset] /\ UNCHANGED fvars
  BY DEF InodeNotRead, Forget
<1>2. NodeTyped /\ Quiet /\ InodeOK
  BY <1>1, Unopened
<1>3. Quiet'
  BY <1>1, <1>2, QuietKeeps
<1>4. NodeTyped' /\ node'.st = "closed"
  BY <1>1, InodeSizes DEF NodeTyped, Closed
<1>5. buf' \in Marked /\ buf' \in Bytes /\ Blank'
  BY <1>1, <1>2, MarkedBytes DEF InodeOK, Bytes, Marked, Blank
<1>6. InodeOK'
  BY <1>1, <1>4, <1>5
  DEF InodeOK, GroupOK, SlotOK, Kinds, DevIdle, DevPc, Marked, Bytes
<1> QED BY <1>3, <1>4, <1>6, NextUnopened

(* Whatever a call is for, vfs_devread returns and keeps to its kinds.     *)
LEMMA DevStepKinds ==
  ASSUME Kinds, buf \in Bytes, dev.pc = "head" => dev.offset < SectorSize, DevStep
  PROVE  /\ Kinds' /\ buf' \in Bytes /\ dev'.pc # "idle"
         /\ dev'.pc = "head" => dev'.offset < SectorSize
<1>1. PICK p \in DevPc, sec \in Int, off \in Int, len \in Nat, mid \in Nat :
        dev = [pc |-> p, sector |-> sec, offset |-> off, len |-> len, to |-> mid]
  BY DEF Kinds
<1>2. SectorSize \in Nat \ {0} /\ SectorSize \in Int
  BY BlockSizes
<1>3. /\ off \div SectorSize \in Int /\ off % SectorSize \in 0..(SectorSize - 1)
      /\ off % SectorSize \in Int /\ off % SectorSize < SectorSize
  <2>1. off \div SectorSize \in Int /\ off % SectorSize \in 0..(SectorSize - 1)
    BY <1>2, DivMod
  <2> QED BY <1>2, <2>1
<1>4. \A n : AlignedPc(n) \in {"ok", "small", "body"}
  BY DEF AlignedPc
<1>5. CASE Check
  <2>1. buf' = buf
    BY <1>5 DEF Check
  <2>2. CASE dev' = [dev EXCEPT !.pc = "failed"]
    <3>1. dev' = [pc |-> "failed", sector |-> sec, offset |-> off, len |-> len, to |-> mid]
      BY <1>1, <2>2
    <3> QED BY <2>1, <3>1 DEF Kinds, DevPc
  <2>3. CASE dev' = [dev EXCEPT
             !.pc = IF dev.offset % SectorSize # 0 THEN "head" ELSE AlignedPc(dev.len),
             !.sector = @ + (dev.offset \div SectorSize),
             !.offset = @ % SectorSize]
    <3>1. PICK q : q = (IF off % SectorSize # 0 THEN "head" ELSE AlignedPc(len))
      OBVIOUS
    <3>2. q \in {"head", "ok", "small", "body"}
      BY <1>4, <3>1
    <3>3. dev' = [pc |-> q, sector |-> sec + (off \div SectorSize),
                  offset |-> off % SectorSize, len |-> len, to |-> mid]
      BY <1>1, <2>3, <3>1
    <3> QED BY <1>3, <2>1, <3>2, <3>3 DEF Kinds, DevPc
  <2> QED BY <1>5, <2>2, <2>3 DEF Check
<1>6. CASE Head
  <2>1. p = "head" /\ off < SectorSize
    BY <1>1, <1>6 DEF Head
  <2>2. PICK n \in Nat : n = Lesser(SectorSize - off, len) /\ n <= len
    BY <1>2, <2>1 DEF Lesser
  <2>3. CASE buf' = buf /\ dev' = [dev EXCEPT !.pc = "failed"]
    <3>1. dev' = [pc |-> "failed", sector |-> sec, offset |-> off, len |-> len, to |-> mid]
      BY <1>1, <2>3
    <3> QED BY <2>3, <3>1 DEF Kinds, DevPc
  <2>4. CASE /\ buf' \in Delivered(n, dev.sector, dev.offset, dev.to)
             /\ dev' = [dev EXCEPT !.pc = AlignedPc(dev.len - n), !.sector = @ + 1,
                                   !.len = @ - n, !.to = @ + n]
    <3>1. buf' \in Bytes
      <4>1. dev.sector \in Int /\ dev.offset \in Int /\ dev.to \in Nat
        BY <1>1
      <4> QED BY <2>4, <4>1, Writes
    <3>2. PICK q : q = AlignedPc(len - n) /\ q \in {"ok", "small", "body"}
      BY <1>4
    <3>3. dev' = [pc |-> q, sector |-> sec + 1, offset |-> off, len |-> len - n,
                  to |-> mid + n]
      BY <1>1, <2>4, <3>2
    <3> QED BY <2>2, <3>1, <3>2, <3>3 DEF Kinds, DevPc
  <2> QED BY <1>1, <1>6, <2>2, <2>3, <2>4 DEF Head
<1>7. CASE Small \/ Tail
  <2>1. PICK q \in {"ok", "failed"} : dev' = [dev EXCEPT !.pc = q]
    BY <1>7 DEF Small, Tail
  <2>2. dev' = [pc |-> q, sector |-> sec, offset |-> off, len |-> len, to |-> mid]
    BY <1>1, <2>1
  <2>3. buf' \in Bytes
    <3>1. dev.sector \in Int /\ dev.len \in Nat /\ dev.to \in Nat /\ 0 \in Int
      BY <1>1
    <3>2. \/ buf' = buf
          \/ buf' \in Delivered(dev.len, dev.sector, 0, dev.to)
                        \cup {Fill(dev.len, dev.to, Garbage)}
      BY <1>7 DEF Small, Tail
    <3> QED BY <3>1, <3>2, Writes
  <2> QED BY <2>1, <2>2, <2>3 DEF Kinds, DevPc
<1>8. CASE Body
  <2>1. PICK n \in Nat : n = len - (len % SectorSize) /\ n <= len /\ n \div SectorSize \in Int
    <3>1. len \in Int /\ len >= 0
      OBVIOUS
    <3>2. PICK d \in Int, r \in 0..(SectorSize - 1) :
            r = len % SectorSize /\ d >= 0 /\ d * SectorSize \in Int /\ d * SectorSize >= 0
              /\ len = d * SectorSize + r
      <4>1. /\ len \div SectorSize \in Int /\ len % SectorSize \in 0..(SectorSize - 1)
            /\ len = (len \div SectorSize) * SectorSize + (len % SectorSize)
            /\ len \div SectorSize >= 0
        BY ONLY <1>2, <3>1, DivMod
      <4> QED BY <1>2, <4>1, MulMono
    <3>3. PICK m \in Nat : m = len - r /\ m <= len
      <4>1. PICK z \in Int : z = d * SectorSize /\ z >= 0 /\ len = z + r
        BY <3>2
      <4> QED BY <1>2, <4>1
    <3>4. m \div SectorSize \in Int
      BY <1>2, DivMod
    <3> QED BY <3>2, <3>3, <3>4
  <2>2. dev.len - (dev.len % SectorSize) = n
    BY <1>1, <2>1
  <2>3. PICK q \in {"ok", "tail", "failed"}, s2 \in Int, l2 \in Nat, t2 \in Nat :
          dev' = [pc |-> q, sector |-> s2, offset |-> off, len |-> l2, to |-> t2]
    <3>1. CASE dev' = [dev EXCEPT !.pc = "failed"]
      BY <1>1, <3>1
    <3>2. CASE dev' = [dev EXCEPT !.pc = IF dev.len = n THEN "ok" ELSE "tail",
                                  !.sector = @ + (n \div SectorSize),
                                  !.len = @ - n, !.to = @ + n]
      <4>1. dev' = [pc |-> IF len = n THEN "ok" ELSE "tail",
                    sector |-> sec + (n \div SectorSize), offset |-> off,
                    len |-> len - n, to |-> mid + n]
        BY <1>1, <3>2
      <4>2. /\ sec + (n \div SectorSize) \in Int /\ len - n \in Nat /\ mid + n \in Nat
            /\ (IF len = n THEN "ok" ELSE "tail") \in {"ok", "tail", "failed"}
        BY <2>1
      <4> QED BY <4>1, <4>2
    <3> QED BY <1>8, <2>2, <3>1, <3>2 DEF Body
  <2>4. buf' \in Bytes
    <3>1. dev.sector \in Int /\ dev.to \in Nat /\ 0 \in Int
      BY <1>1
    <3>2. buf' \in Delivered(n, dev.sector, 0, dev.to) \cup {Fill(n, dev.to, Garbage)}
      BY <1>8, <2>2 DEF Body
    <3> QED BY <3>1, <3>2, Writes
  <2> QED BY <2>3, <2>4 DEF Kinds, DevPc
<1> QED BY <1>5, <1>6, <1>7, <1>8 DEF DevStep

LEMMA InodeDeviceKeeps ==
  ASSUME IInv, InodeDevice
  PROVE  IInv'
<1>1. /\ node.st \in {"group", "inode"} /\ DevStep /\ UNCHANGED fvars /\ node' = node
      /\ length' = length
  BY DEF InodeDevice, fvars
<1>2. NodeTyped /\ Quiet /\ InodeOK
  BY <1>1, Unopened
<1>3. Quiet' /\ NodeTyped'
  BY <1>1, <1>2, QuietKeeps DEF NodeTyped
<1>4. Kinds /\ buf \in Bytes /\ length \in Nat
  BY <1>2, Wholes DEF InodeOK, Quiet
<1>5. /\ Kinds' /\ buf' \in Bytes /\ dev'.pc # "idle"
      /\ dev'.pc = "head" => dev'.offset < SectorSize
  BY <1>1, <1>2, <1>4, DevStepKinds DEF InodeOK
<1>7. CASE node.st = "group"
  <2>1. PICK s \in Int, o \in Nat :
          /\ s = Sector(FirstDataBlock + 1 + Group(node.ino) \div DescPerBlock)
          /\ o = (Group(node.ino) % DescPerBlock) * DescSize
          /\ Boundary(s, o, DescSize, 0)
    <3>1. node.ino \in Int
      BY <1>2, InodeSizes DEF NodeTyped
    <3> QED BY <3>1, DescBound
  <2>2. Serves(s, o, DescSize, 0)
    BY <1>2, <1>7, <2>1 DEF InodeOK, GroupOK
  <2>3. Serves(s, o, DescSize, 0)' /\ Untouched(DescSize, 0)
    BY <1>1, <1>4, <2>1, <2>2, InodeSizes, DevStepServes
  <2>4. GroupOK'
    <3>1. /\ s = Sector(FirstDataBlock + 1 + Group(node.ino) \div DescPerBlock)'
          /\ o = ((Group(node.ino) % DescPerBlock) * DescSize)'
      BY <1>1, <2>1 DEF Group, Sector, Wrap, Unsigned, DescPerBlock, BlockSize
    <3> QED BY <2>3, <3>1 DEF GroupOK, Serves, First, Copied, Cursor
  <2>5. buf' \in Marked
    BY <1>2, <1>7, <2>3 DEF InodeOK, Untouched
  <2>6. InodeOK'
    BY <1>1, <1>5, <1>7, <2>4, <2>5 DEF InodeOK, SlotOK, Marked, Bytes
  <2> QED BY <1>1, <1>3, <1>7, <2>6, NextUnopened
<1>9. CASE node.st = "inode"
  <2>1. PICK ino \in 0..InodeCount : ino = node.ino
    BY <1>2 DEF NodeTyped
  <2>2. PICK table \in AnyOf :
          /\ Serves(Sector(table + BlockOf(ino)), InodeOffset(ino), InodeLen, 0)
          /\ node.sure /\ ino # 0 => table = Tables[Group(ino)]
    BY <1>2, <1>9, <2>1 DEF InodeOK, SlotOK, AnyOf
  <2>3. table \in Nat
    BY AnyNat
  <2>5. PICK s \in Int, o \in Int :
          /\ s = Sector(table + BlockOf(ino)) /\ o = InodeOffset(ino)
          /\ Boundary(s, o, InodeLen, 0)
    <3>1. Sector(table + BlockOf(ino)) \in Int
      <4>1. ino \in Int
        BY InodeSizes
      <4>2. table + BlockOf(ino) \in Int
        BY <2>3, <4>1, GroupsOf
      <4> QED BY <4>2, Sectors
    <3>2. InodeOffset(ino) \in Int
      BY SlotInt
    <3> QED BY <2>3, <3>1, <3>2, SlotBound
  <2>6. Serves(s, o, InodeLen, 0)' /\ Untouched(InodeLen, 0)
    BY <1>1, <1>4, <2>2, <2>5, InodeSizes, DevStepServes
  <2>7. SlotOK'
    <3>1. /\ s = Sector(table + BlockOf(node.ino))' /\ o = InodeOffset(node.ino)'
          /\ Tables[Group(ino)] = (Tables[Group(node.ino)])'
      BY <1>1, <2>1, <2>5
      DEF Group, Sector, BlockOf, InodeOffset, Rest, Wrap, Unsigned, InodesPerBlock, BlockSize
    <3>2. Serves(Sector(table + BlockOf(node.ino)), InodeOffset(node.ino), InodeLen, 0)'
      BY <2>6, <3>1 DEF Serves, First, Copied, Cursor
    <3>3. node'.sure /\ node'.ino # 0 => table = (Tables[Group(node.ino)])'
      BY <1>1, <2>1, <2>2, <3>1
    <3>4. table \in AnyTable \cup {Tables[g] : g \in 0..(Groups - 1)}
      BY DEF AnyOf
    <3> QED BY <3>2, <3>3, <3>4 DEF SlotOK
  <2>8. buf' \in Marked
    BY <1>2, <1>9, <2>6 DEF InodeOK, Untouched
  <2>9. InodeOK'
    BY <1>1, <1>5, <1>9, <2>7, <2>8 DEF InodeOK, GroupOK, Marked, Bytes
  <2> QED BY <1>1, <1>3, <1>9, <2>9, NextUnopened
<1> QED BY <1>1, <1>7, <1>9
-----------------------------------------------------------------------------
LEMMA InodeInitHolds ==
  InodeInit => IInv
<1> SUFFICES ASSUME InodeInit PROVE IInv
  OBVIOUS
<1>1. node.st = "closed" /\ NodeTyped
  <2>1. 0 \in 0..InodeCount
    BY InodeSizes
  <2> QED BY <2>1 DEF InodeInit, Closed, NodeTyped
<1>2. Quiet
  <2>1. /\ 0 \in 0..Blocks /\ 0 \in -1..MaxLen /\ 0 \in 0..MaxPos /\ 0 \in 0..MaxLen
    BY BlockSizes
  <2>2. filesize \in Nat
    BY Wholes DEF InodeInit, Init
  <2> QED BY <2>1, <2>2 DEF InodeInit, Init, Quiet, Asks, NoRead
<1>3. InodeOK
  <2>1. buf \in Marked /\ buf \in Bytes /\ Blank
    BY MarkedBytes DEF InodeInit, Init, Marked, Bytes, Blank
  <2> QED BY <1>1, <2>1 DEF InodeInit, Init, InodeOK, Kinds, DevPc, DevIdle, GroupOK, SlotOK
<1> QED BY <1>1, <1>2, <1>3, Unopened

LEMMA InodeNextKeeps ==
  IInv /\ [InodeNext]_inodeVars => IInv'
<1> SUFFICES ASSUME IInv, [InodeNext]_inodeVars PROVE IInv'
  OBVIOUS
<1>1. CASE \E ino \in 0..InodeCount : ReadGroup(ino)
  BY <1>1, ReadGroupKeeps
<1>2. CASE InodeStep
  BY <1>2, GroupReadKeeps, InodeFoundKeeps, InodeNotReadKeeps, InodeDeviceKeeps
  DEF InodeStep
<1>3. CASE node.st = "open" /\ Next /\ UNCHANGED node
  <2>1. NodeTyped /\ LoopOK
    BY <1>3, Opened
  <2>2. LoopOK'
    BY <1>3, <2>1, NextKeeps
  <2>3. NodeTyped' /\ node'.st = "open"
    BY <1>3, <2>1 DEF NodeTyped
  <2> QED BY <2>2, <2>3, NextOpened
<1>4. CASE UNCHANGED inodeVars
  <2>1. /\ length' = length /\ dev' = dev /\ buf' = buf /\ map' = map /\ filesize' = filesize
        /\ pc' = pc /\ req' = req /\ i' = i /\ blknr' = blknr /\ to' = to /\ run' = run
        /\ result' = result /\ node' = node
    BY <1>4 DEF inodeVars, vars, fvars
  <2>3. Typed' <=> Typed
    BY <2>1 DEF Typed, DevTypeOK, BlockSize
  <2>4. ReadOK' <=> ReadOK
    <3>1. /\ FirstBlock' = FirstBlock /\ BlockCnt' = BlockCnt /\ Begin(i)' = Begin(i)
          /\ \A a : RunFrom(a)' <=> RunFrom(a)
          /\ \A k : FileByte(k)' = FileByte(k)
      BY <2>1, SameRun DEF FirstBlock, BlockCnt, Begin, SkipOf, BlockSize
    <3>2. (AtBlock' <=> AtBlock) /\ (RunOK' <=> RunOK)
      BY <2>1, <3>1 DEF AtBlock, RunOK
    <3>3. BufOK' <=> BufOK
      BY <2>1, <3>1 DEF BufOK, Front, OverrunOnlyByHole
    <3>4. DevOK' <=> DevOK
      BY <2>1 DEF DevOK, Serves, First, Copied, Cursor, Moving
    <3> QED BY <3>2, <3>3, <3>4 DEF ReadOK
  <2>5. NodeOK' <=> NodeOK
    <3>1. GroupOK' <=> GroupOK
      BY <2>1
      DEF GroupOK, Serves, First, Copied, Cursor, Moving, Group, Sector, Wrap, Unsigned,
          DescPerBlock, BlockSize
    <3>2. SlotOK' <=> SlotOK
      <4>1. node' = node
        BY <2>1
      <4>2. ASSUME NEW s, NEW o, NEW l, NEW at
            PROVE  Serves(s, o, l, at)' <=> Serves(s, o, l, at)
        BY <2>1 DEF Serves, First, Copied, Cursor, Moving
      <4>3. /\ \A t : Sector(t)' = Sector(t)
            /\ \A n : BlockOf(n)' = BlockOf(n) /\ InodeOffset(n)' = InodeOffset(n)
                     /\ Group(n)' = Group(n)
        BY DEF Sector, Wrap, Unsigned, BlockOf, InodeOffset, Rest, InodesPerBlock, BlockSize,
               Group
      <4> QED BY <4>1, <4>2, <4>3 DEF SlotOK
    <3> QED BY <2>1, <3>1, <3>2 DEF NodeOK, Blank
  <2> QED BY <2>3, <2>4, <2>5 DEF IInv
<1> QED BY <1>1, <1>2, <1>3, <1>4 DEF InodeNext

-----------------------------------------------------------------------------
(* The places of descriptor, inode and run are kept by every step.         *)
THEOREM Invariance == InodeSpec => []IInv
<1>1. InodeInit => IInv
  BY InodeInitHolds
<1>2. IInv /\ [InodeNext]_inodeVars => IInv'
  BY InodeNextKeeps
<1> QED BY <1>1, <1>2, PTL DEF InodeSpec

(***************************************************************************)
(* Every value keeps to its kind, and no read of the device leaves the     *)
(* partition, also with the negative offsets that numbers which are no     *)
(* ints give (ext4.c:572): fs.c:41 tests the sector alone and the end of   *)
(* the range, never where it begins.                                       *)
(***************************************************************************)
THEOREM InsidePartition == InodeSpec => [](InodeTypeOK /\ InPartition)
<1>1. IInv => InodeTypeOK /\ InPartition
  <2> SUFFICES ASSUME IInv PROVE InodeTypeOK /\ InPartition
    OBVIOUS
  <2>1. InodeTypeOK
    <3>1. TypeOK
      BY DEF IInv, Typed, TypeOK
    <3> QED BY <3>1 DEF IInv, Typed, InodeTypeOK
  <2>2. Kinds /\ length \in Nat
    BY <2>1, Wholes DEF InodeTypeOK, TypeOK, DevTypeOK, Kinds
  <2>3. CASE ~Moving
    BY <2>1, <2>3 DEF InPartition, Asked, Moving
  <2>4. CASE Moving /\ node.st = "open"
    <3>1. LoopOK
      BY <2>4, Opened
    <3>2. pc = "spill" /\ run # NoRun /\ Serves(run.start, run.skip, run.extent, run.to)
      BY <2>4, <3>1 DEF LoopOK, ReadOK, LoopTyped, DevOK, IdleOK, DevIdle, Moving
    <3>3. i \in FirstBlock..BlockCnt
      BY <3>1, <3>2 DEF LoopOK, ReadOK, AtBlock
    <3>4. PICK a \in FirstBlock..BlockCnt : RunFrom(a)
      BY <3>1, <3>2 DEF LoopOK, ReadOK, RunOK
    <3>5. /\ run.start \in Int /\ run.skip \in Int /\ run.extent \in Nat /\ run.to \in Nat
      BY <3>1, <3>2, <3>3, <3>4, RunCovers, BlockSizes DEF LoopOK
    <3> QED BY <2>1, <2>2, <3>2, <3>5, AskedInside
  <2>5. CASE Moving /\ node.st = "group"
    <3>1. Serves(Sector(FirstDataBlock + 1 + Group(node.ino) \div DescPerBlock),
                 (Group(node.ino) % DescPerBlock) * DescSize, DescSize, 0)
      BY <2>5 DEF IInv, NodeOK, GroupOK
    <3>2. node.ino \in Int
      BY <2>1, InodeSizes DEF InodeTypeOK
    <3>3. /\ Sector(FirstDataBlock + 1 + Group(node.ino) \div DescPerBlock) \in Int
          /\ (Group(node.ino) % DescPerBlock) * DescSize \in Nat
      BY <3>2, DescBound
    <3>4. PICK s \in Int, o \in Int :
            /\ s = Sector(FirstDataBlock + 1 + Group(node.ino) \div DescPerBlock)
            /\ o = (Group(node.ino) % DescPerBlock) * DescSize
      BY <3>3
    <3>5. Serves(s, o, DescSize, 0)
      BY <3>1, <3>4
    <3> QED BY <2>1, <2>2, <3>5, InodeSizes, AskedInside
  <2>6. CASE Moving /\ node.st = "inode"
    <3>1. PICK table \in AnyOf :
            Serves(Sector(table + BlockOf(node.ino)), InodeOffset(node.ino), InodeLen, 0)
      BY <2>6 DEF IInv, NodeOK, SlotOK, AnyOf
    <3>2. node.ino \in 0..InodeCount /\ node.ino \in Int
      BY <2>1, InodeSizes DEF InodeTypeOK
    <3>3. Sector(table + BlockOf(node.ino)) \in Int
      <4>1. table + BlockOf(node.ino) \in Int
        BY <3>2, AnyNat, GroupsOf
      <4> QED BY <4>1, Sectors
    <3>4. InodeOffset(node.ino) \in Int
      BY <3>2, SlotInt
    <3> QED BY <2>1, <2>2, <3>1, <3>3, <3>4, InodeSizes, AskedInside
  <2>7. CASE Moving /\ node.st = "closed"
    BY <2>7 DEF IInv, NodeOK, DevIdle, Moving
  <2> QED BY <2>1, <2>3, <2>4, <2>5, <2>6, <2>7 DEF InodeTypeOK
<1> QED BY <1>1, Invariance, PTL

(***************************************************************************)
(* What is taken for an inode is the inode of that number, when that is    *)
(* one an int can hold.                                                    *)
(***************************************************************************)
LEMMA SlotIs ==
  ASSUME IInv
  PROVE  InodeIsItsSlot
<1> SUFFICES ASSUME node.st = "inode", dev.pc = "ok", node.sure,
                    node.ino - 1 \in 0..IntMax, NEW k \in 0..(InodeLen - 1)
             PROVE  buf[k] \in {SlotOf(node.ino) + k, Garbage, Stray}
  BY DEF InodeIsItsSlot
<1>1. PICK ino \in 1..InodeCount : ino = node.ino
  BY InodeSizes, Sizes DEF IInv, Typed
<1>2. node.ino # 0
  BY <1>1, InodeSizes
<1>3. PICK g \in Nat, x \in Nat, t \in Nat :
        /\ g = Group(ino) /\ x = (ino - 1) % InodesPerGroup /\ x < InodesPerGroup
        /\ ino - 1 = g * InodesPerGroup + x /\ t = Tables[g] /\ g \in 0..(Groups - 1)
  <2>1. /\ Group(ino) \in 0..(Groups - 1)
        /\ (ino - 1) % InodesPerGroup \in 0..(InodesPerGroup - 1)
        /\ ino - 1 = Group(ino) * InodesPerGroup + ((ino - 1) % InodesPerGroup)
    BY CountedGroup
  <2>2. Tables[Group(ino)] \in Nat
    BY <2>1, InodeAssumption
  <2>3. Group(ino) \in Nat /\ (ino - 1) % InodesPerGroup \in Nat
        /\ (ino - 1) % InodesPerGroup < InodesPerGroup
    BY <2>1, InodeSizes
  <2> QED BY <2>1, <2>2, <2>3
<1>4. /\ Unsigned(ino - 1) = ino - 1
      /\ (ino - 1) \div InodesPerGroup = g
  <2>1. Unsigned(ino - 1) = ino - 1
    BY CountedGroup
  <2>2. (ino - 1) \div InodesPerGroup = g
    BY <1>3, <2>1 DEF Group
  <2> QED BY <2>1, <2>2
<1>5. PICK b \in Nat, r \in Nat :
        /\ b = x \div InodesPerBlock /\ r = x % InodesPerBlock /\ r < InodesPerBlock
        /\ x = b * InodesPerBlock + r
  <2>1. x \in Int /\ x >= 0
    OBVIOUS
  <2>2. /\ x \div InodesPerBlock \in Int /\ x % InodesPerBlock \in 0..(InodesPerBlock - 1)
        /\ x = (x \div InodesPerBlock) * InodesPerBlock + (x % InodesPerBlock)
        /\ x \div InodesPerBlock >= 0
    BY ONLY <2>1, InodeSizes, DivMod
  <2>3. x \div InodesPerBlock \in Nat /\ x % InodesPerBlock \in Nat
        /\ x % InodesPerBlock < InodesPerBlock
    BY <2>2, InodeSizes
  <2> QED BY <2>2, <2>3
<1>6. BlockOf(ino) = b
  BY <1>3, <1>4, <1>5 DEF BlockOf
<1>7. InodeOffset(ino) = r * InodeSize
  <2>1. PICK q \in Nat : q = InodesPerGroup \div InodesPerBlock /\ InodesPerGroup = q * InodesPerBlock
    BY InodeSizes
  <2>2. (g * q + b) * InodesPerBlock = g * (q * InodesPerBlock) + b * InodesPerBlock
    BY InodeSizes
  <2>3. PICK c \in Int, y \in Int, z \in Int, v \in Int :
          /\ c = g * q + b /\ y = c * InodesPerBlock /\ z = g * InodesPerGroup
          /\ v = b * InodesPerBlock /\ y = z + v
    <3>1. /\ g * q + b \in Int /\ g * InodesPerGroup \in Int /\ b * InodesPerBlock \in Int
          /\ (g * q + b) * InodesPerBlock \in Int
      BY InodeSizes, MulMono
    <3> QED BY <2>1, <2>2, <3>1
  <2>4. ino - 1 = y + r
    <3>1. ino - 1 = z + x /\ x = v + r
      BY <1>3, <1>5, <2>3
    <3> QED BY <2>3, <3>1
  <2>5. PICK n \in Nat : n = ino - 1
    OBVIOUS
  <2>6. n % InodesPerBlock = r
    <3>1. n = c * InodesPerBlock + r
      BY <2>3, <2>4, <2>5
    <3>2. r \in 0..(InodesPerBlock - 1) /\ n \in Int /\ InodesPerBlock \in Nat \ {0}
      BY <1>5, InodeSizes
    <3> QED BY ONLY <3>1, <3>2, c \in Int, DivIs
  <2>7. Rest(Wrap(ino - 1), InodesPerBlock) = r
    <3>1. ~(n < 0) /\ Wrap(ino - 1) = n
      BY <1>1, <2>5, Wraps
    <3> QED BY <2>5, <2>6, <3>1 DEF Rest
  <2> QED BY <2>7 DEF InodeOffset
<1>8. PICK table \in AnyOf :
        /\ Serves(Sector(table + BlockOf(node.ino)), InodeOffset(node.ino), InodeLen, 0)
        /\ table = Tables[Group(node.ino)]
  BY <1>2 DEF IInv, NodeOK, SlotOK, AnyOf
<1>9. Serves(Sector(t + b), r * InodeSize, InodeLen, 0)
  BY <1>1, <1>3, <1>6, <1>7, <1>8
<1>10. Sector(t + b) >= 0 /\ Copied(First(Sector(t + b), r * InodeSize), 0, 0 + InodeLen)
  BY <1>9 DEF Serves
<1>11. Sector(t + b) * SectorSize = (t + b) * BlockSize
  <2>1. PICK q \in Nat : q = InodesPerGroup \div InodesPerBlock
           /\ InodesPerGroup = q * InodesPerBlock /\ (t + q) * SectorsPerBlock <= Range2
    <3>1. (Tables[g] + InodesPerGroup \div InodesPerBlock) * SectorsPerBlock <= 2 * (IntMax + 1)
      BY <1>3, TablesAssumption
    <3> QED BY <1>3, <3>1, InodeSizes DEF Range2
  <2>2. b < q
    <3>1. b * InodesPerBlock \in Int /\ q * InodesPerBlock \in Int
      BY InodeSizes, MulMono
    <3>2. b * InodesPerBlock < q * InodesPerBlock
      BY <1>3, <1>5, <2>1, <3>1, InodeSizes
    <3> QED BY <3>2, InodeSizes, MulMono
  <2>3. (t + b + 1) * SectorsPerBlock <= (t + q) * SectorsPerBlock
        /\ (t + b + 1) * SectorsPerBlock \in Int /\ (t + q) * SectorsPerBlock \in Int
    <3>1. t + b + 1 \in Int /\ t + q \in Int /\ t + b + 1 <= t + q
      BY <2>2
    <3> QED BY <3>1, BlockSizes, MulMono
  <2>4. PICK d \in Nat : d = t + b
    OBVIOUS
  <2>5. (d + 1) * SectorsPerBlock <= Range2
    <3>1. Range2 \in Int /\ d + 1 = t + b + 1
      BY <2>4, Sizes DEF Range2
    <3> QED BY <2>1, <2>3, <3>1
  <2> QED BY <1>10, <2>4, <2>5, BlockStart
<1>12. SlotOf(node.ino) = t * BlockSize + x * InodeSize
  BY <1>1, <1>3, <1>4 DEF SlotOf
<1>13. First(Sector(t + b), r * InodeSize) = SlotOf(node.ino)
       /\ SlotOf(node.ino) \in Int
  <2>1. (t + b) * BlockSize = t * BlockSize + b * (InodesPerBlock * InodeSize)
    BY BlockSizes, InodeSizes
  <2>2. x * InodeSize = b * (InodesPerBlock * InodeSize) + r * InodeSize
    <3>1. (b * InodesPerBlock + r) * InodeSize = b * (InodesPerBlock * InodeSize) + r * InodeSize
      BY InodeSizes
    <3> QED BY <1>5, <3>1
  <2>3. PICK p1 \in Int, p2 \in Int, p3 \in Int :
          /\ p1 = t * BlockSize /\ p2 = b * (InodesPerBlock * InodeSize) /\ p3 = r * InodeSize
    <3>1. t * BlockSize \in Int /\ b * BlockSize \in Int /\ r * InodeSize \in Int
      BY BlockSizes, InodeSizes, MulMono
    <3> QED BY <3>1, InodeSizes
  <2>4. First(Sector(t + b), r * InodeSize) = (p1 + p2) + p3
    BY <1>11, <2>1, <2>3 DEF First
  <2>5. SlotOf(node.ino) = p1 + (p2 + p3)
    BY <1>12, <2>2, <2>3
  <2> QED BY <2>4, <2>5
<1>14. buf[k] \in {First(Sector(t + b), r * InodeSize) + (k - 0), Garbage, Stray}
  <2>1. k \in 0..((0 + InodeLen) - 1)
    BY InodeSizes
  <2> QED BY <1>10, <2>1 DEF Copied
<1>15. k - 0 = k
  BY InodeSizes
<1> QED BY <1>13, <1>14, <1>15

LEMMA FileByteKind ==
  ASSUME map \in Maps, NEW x \in Nat, x < Blocks * BlockSize
  PROVE  FileByte(x) \in Nat \cup {Zero}
<1>1. PICK w \in Nat \ {0} : w = BlockSize
  BY BlockSizes
<1>2. PICK b \in Nat, r \in Nat : b = x \div w /\ r = x % w /\ x = b * w + r
  <2>1. x \in Int /\ x >= 0
    OBVIOUS
  <2>2. /\ x \div w \in Int /\ x % w \in 0..(w - 1) /\ x = (x \div w) * w + (x % w)
        /\ x \div w >= 0
    BY ONLY <2>1, w \in Nat \ {0}, DivMod
  <2> QED BY <2>2
<1>3. b \in 0..(Blocks - 1)
  <2>1. b * w \in Int /\ Blocks * w \in Int
    BY BlockSizes, MulMono
  <2>2. b * w < Blocks * w
    BY <1>1, <1>2, <2>1
  <2>3. b < Blocks
    BY <2>2, BlockSizes, MulMono
  <2> QED BY <2>3, BlockSizes
<1>4. map[b] \in Nat
  BY <1>3, FileAssumption
<1>5. PICK m \in Nat : m = map[b]
  BY <1>4
<1>6. m * w >= 0 /\ m * w \in Int
  BY MulMono
<1>7. FileByte(x) = (IF m = 0 THEN Zero ELSE m * w + r)
  BY <1>1, <1>2, <1>5 DEF FileByte
<1> QED BY <1>6, <1>7

(***************************************************************************)
(* What a read delivers, and what the run it has not read yet stands for.  *)
(***************************************************************************)
LEMMA InLoop ==
  ASSUME IInv, pc # "idle" \/ run # NoRun
  PROVE  LoopOK /\ node.st = "open"
<1>1. node.st = "open"
  BY Unopened DEF Quiet
<1> QED BY <1>1, Opened

LEMMA ContentIs ==
  ASSUME IInv
  PROVE  ReadIsFileContent
<1> SUFFICES ASSUME pc = "map", i >= BlockCnt, run = NoRun, NEW k \in 0..(req.len - 1)
             PROVE  buf[k] \in {FileByte(req.pos + k), Garbage, Stray}
  BY DEF ReadIsFileContent
<1>1. LoopTyped /\ AtBlock /\ BufOK
  BY InLoop DEF LoopOK, ReadOK
<1>2. FirstBlock \in Nat /\ BlockCnt \in Nat /\ req.len \in Nat
  BY <1>1, BlocksOf, BlockSizes DEF LoopTyped, Asks
<1>3. i = BlockCnt /\ i \in FirstBlock..BlockCnt /\ to = Begin(i)
  BY <1>1, <1>2 DEF AtBlock
<1>4. to >= req.len /\ to \in Nat
  BY <1>1, <1>3, Begins, BlockSizes DEF LoopTyped
<1>5. Front = to /\ k \in 0..(Front - 1) /\ k < req.len
  BY <1>2, <1>4 DEF Front
<1> QED BY <1>1, <1>5 DEF BufOK

LEMMA RunIs ==
  ASSUME IInv
  PROVE  RunIsFile
<1> SUFFICES ASSUME run # NoRun
             PROVE  /\ run.start >= 0 => \A k \in 0..(run.extent - 1) :
                         run.start * SectorSize + run.skip + k = FileByte(req.pos + run.to + k)
                    /\ pc \in {"map", "place"} =>
                         \A k \in 0..(run.to - 1) : buf[k] # Unset
  BY DEF RunIsFile
<1>1. LoopTyped /\ AtBlock /\ RunOK /\ BufOK
  BY InLoop DEF LoopOK, ReadOK
<1>2. i \in FirstBlock..BlockCnt
  BY <1>1 DEF AtBlock, RunOK
<1>3. PICK a \in FirstBlock..BlockCnt : RunFrom(a)
  BY <1>1 DEF RunOK
<1>4. /\ run.extent \in Nat /\ run.to \in Nat /\ run.start \in Int
  BY <1>1, <1>2, <1>3, RunCovers
<1>5. ASSUME run.start >= 0, NEW k \in 0..(run.extent - 1)
      PROVE  run.start * SectorSize + run.skip + k = FileByte(req.pos + run.to + k)
  <2>1. First(run.start, run.skip) + k = FileByte(req.pos + run.to + k)
    BY <1>1, <1>2, <1>3, <1>4, <1>5, RunBytes DEF LoopTyped
  <2> QED BY <2>1 DEF First
<1>6. ASSUME pc \in {"map", "place"}, NEW k \in 0..(run.to - 1)
      PROVE  buf[k] # Unset
  <2>1. run.to <= req.len
    <3>1. a < i /\ run.to = Begin(a)
      BY <1>3 DEF RunFrom
    <3>2. FirstBlock \in Nat /\ BlockCnt \in Nat
      BY <1>1, BlocksOf DEF LoopTyped
    <3>3. a < BlockCnt
      BY <1>2, <3>1, <3>2
    <3> QED BY <1>1, <3>1, <3>3, Begins DEF LoopTyped
  <2>2. req.len \in Nat /\ req.pos \in Nat
        /\ req.pos + req.len <= BlockCnt * BlockSize /\ BlockCnt <= Blocks
        /\ BlockCnt \in Nat
    BY <1>1, BlocksOf, BlockSizes DEF LoopTyped, Asks
  <2>3. Front = run.to /\ k \in 0..(Front - 1) /\ k < req.len
    BY <1>4, <2>1, <2>2 DEF Front
  <2>4. buf[k] \in {FileByte(req.pos + k), Garbage, Stray}
    BY <1>1, <1>6, <2>3 DEF BufOK
  <2>5. FileByte(req.pos + k) \in Nat \cup {Zero}
    <3>1. BlockCnt * BlockSize <= Blocks * BlockSize /\ BlockCnt * BlockSize \in Int
          /\ Blocks * BlockSize \in Int
      BY <2>2, BlockSizes, Multiples
    <3>2. PICK x \in Nat : x = req.pos + k /\ x < Blocks * BlockSize
      BY <2>2, <2>3, <3>1
    <3> QED BY <1>1, <3>2, FileByteKind DEF LoopTyped
  <2> QED BY <2>4, <2>5 DEF Unset, Garbage, Stray, Zero
<1> QED BY <1>5, <1>6

(***************************************************************************)
(* A call that succeeds has put the file's bytes into the caller's buffer, *)
(* whatever runs, holes and parts of sectors it was made of: only bytes of *)
(* a device read that went wrong unnoticed may differ.                     *)
(***************************************************************************)
THEOREM ReadsTheFile == InodeSpec => []ReadIsFileContent
<1>1. IInv => ReadIsFileContent
  BY ContentIs DEF IInv, ReadOK
<1> QED BY <1>1, Invariance, PTL

(* The delayed run is always a stretch of the file, and goes to its place. *)
THEOREM DelaysTheFile == InodeSpec => []RunIsFile
<1>1. IInv => RunIsFile
  BY RunIs DEF IInv, ReadOK
<1> QED BY <1>1, Invariance, PTL

(* Nothing behind the request is written but by the zeros of a hole, and   *)
(* then not past the end of its block (479).                               *)
THEOREM StaysInRequest == InodeSpec => []OverrunOnlyByHole
<1>1. IInv => OverrunOnlyByHole
  BY DEF IInv, ReadOK, BufOK
<1> QED BY <1>1, Invariance, PTL

(* What ext4fs_read_inode delivers is the inode of the number asked for,   *)
(* from its slot in the table of its group.                                *)
THEOREM ReadsTheInode == InodeSpec => []InodeIsItsSlot
<1>1. IInv => InodeIsItsSlot
  BY SlotIs
<1> QED BY <1>1, Invariance, PTL
-----------------------------------------------------------------------------
(***************************************************************************)
(* The loop against what a file promises (FileSpec), step by step.         *)
(***************************************************************************)
LEMMA InitPromises ==
  ASSUME InodeInit
  PROVE  Promise!Init
BY DEF InodeInit, Init, Promise!Init, Promise!NoRequest, Promise!None

(* A step that no request or answer shows.                                 *)
LEMMA Hidden ==
  ASSUME map' = map, filesize' = filesize, req' = req, result' = result,
         \/ pc' = pc /\ pc # "done"
         \/ pc \in {"map", "place", "spill"} /\ pc' \in {"map", "place", "spill"}
         \/ pc' = pc /\ buf' = buf
  PROVE  UNCHANGED Promise!vars
<1>1. [x \in 0..(Blocks * BlockSize - 1) |-> FileByte(x)]'
        = [x \in 0..(Blocks * BlockSize - 1) |-> FileByte(x)]
  BY DEF FileByte, BlockSize
<1> QED BY <1>1 DEF Promise!vars

LEMMA ReadAsks ==
  ASSUME IInv, NEW pos \in 0..MaxPos, NEW len \in 0..MaxLen, Read(pos, len)
  PROVE  Promise!Next
<1>1. /\ pc = "idle" /\ pc' = "map" /\ req' = [pos |-> pos, len |-> Lesser(len, filesize)]
      /\ map' = map /\ filesize' = filesize
  BY DEF Read
<1>2. filesize \in Nat
  BY Wholes DEF IInv, Typed
<1>3. Lesser(len, filesize) \in 0..MaxLen /\ Lesser(len, filesize) <= filesize
  BY <1>2, BlockSizes DEF Lesser
<1>4. [x \in 0..(Blocks * BlockSize - 1) |-> FileByte(x)]'
        = [x \in 0..(Blocks * BlockSize - 1) |-> FileByte(x)]
  BY <1>1 DEF FileByte, BlockSize
<1> QED BY <1>1, <1>3, <1>4 DEF Promise!Next, Promise!Ask, Promise!NoRequest, Promise!None

LEMMA FailAnswers ==
  ASSUME pc \in {"map", "place", "spill"}, pc' = "done", result' = -1, req \in [pos : 0..MaxPos, len : 0..MaxLen],
         map' = map, filesize' = filesize
  PROVE  Promise!Next
<1>1. [x \in 0..(Blocks * BlockSize - 1) |-> FileByte(x)]'
        = [x \in 0..(Blocks * BlockSize - 1) |-> FileByte(x)]
  BY DEF FileByte, BlockSize
<1>2. req # [pos |-> 0, len |-> -1]
  BY BlockSizes
<1> QED BY <1>1, <1>2 DEF Promise!Next, Promise!Answer, Promise!NoRequest, Promise!Failed

LEMMA DoneAnswers ==
  ASSUME IInv, Done
  PROVE  Promise!Next
<1>1. /\ pc = "map" /\ i >= BlockCnt /\ run = NoRun /\ pc' = "done" /\ result' = req.len
      /\ buf' = buf /\ map' = map /\ filesize' = filesize /\ req' = req
  BY DEF Done, Return
<1>2. LoopTyped /\ ReadIsFileContent
  BY <1>1, InLoop, ContentIs DEF LoopOK
<1>3. PICK pos \in Nat, len \in Nat :
        /\ req = [pos |-> pos, len |-> len] /\ pos = req.pos /\ len = req.len
        /\ pos <= MaxPos /\ len <= MaxLen
  BY <1>2, BlockSizes DEF LoopTyped, Asks
<1> DEFINE content == [x \in 0..(Blocks * BlockSize - 1) |-> FileByte(x)]
           bytes == [k \in 0..(len - 1) |-> buf[k]]
<1>4. content' = content
  BY <1>1 DEF FileByte, BlockSize
<1>5. bytes \in Promise!Bytes(pos, len)
  <2>1. ASSUME NEW k \in 0..(len - 1)
        PROVE  buf[k] \in {content[pos + k]} \cup {Garbage, Stray} /\ buf[k] \in Int
    <3>1. buf[k] \in {FileByte(pos + k), Garbage, Stray}
      BY <1>1, <1>2, <1>3 DEF ReadIsFileContent
    <3>2. pos + k \in 0..(Blocks * BlockSize - 1)
      <4>1. Blocks * BlockSize \in Int /\ MaxPos + MaxLen <= Blocks * BlockSize
        BY BlockSizes, Multiples
      <4> QED BY <1>3, <4>1, BlockSizes
    <3>3. k \in 0..(BufSize - 1)
      BY <1>3, BlockSizes
    <3>4. buf[k] \in Int
      BY <1>2, <3>3, MarkedBytes DEF LoopTyped, Bytes
    <3> QED BY <3>1, <3>2, <3>4
  <2> QED BY <2>1 DEF Promise!Bytes
<1>6. [k \in 0..(result - 1) |-> buf[k]]' = bytes
  BY <1>1, <1>3
<1>7. result' # -1 /\ req # [pos |-> 0, len |-> -1]
  BY <1>1, <1>3
<1> HIDE DEF content, bytes
<1>8. Promise!Bytes(req.pos, req.len) = Promise!Bytes(pos, len)
  BY <1>3
<1>9. [st |-> "read", bytes |-> bytes] \in [st : {"read"}, bytes : Promise!Bytes(req.pos, req.len)]
  BY <1>5, <1>8
<1> QED
  BY <1>1, <1>4, <1>6, <1>7, <1>9
  DEF Promise!Next, Promise!Answer, Promise!NoRequest, content

LEMMA TakenTakes ==
  ASSUME Taken
  PROVE  Promise!Next
<1>1. /\ pc = "done" /\ pc' = "idle" /\ map' = map /\ filesize' = filesize
  BY DEF Taken
<1>2. [x \in 0..(Blocks * BlockSize - 1) |-> FileByte(x)]'
        = [x \in 0..(Blocks * BlockSize - 1) |-> FileByte(x)]
  BY <1>1 DEF FileByte, BlockSize
<1> QED BY <1>1, <1>2 DEF Promise!Next, Promise!Take, Promise!None

LEMMA StepPromises ==
  ASSUME IInv, [InodeNext]_inodeVars
  PROVE  Promise!Next \/ UNCHANGED Promise!vars
<1>1. CASE UNCHANGED fvars /\ node.st # "open"
  <2>1. pc = "idle" /\ pc' = pc /\ map' = map /\ filesize' = filesize /\ req' = req
        /\ result' = result
    BY <1>1, Unopened DEF Quiet, fvars
  <2> QED BY <2>1, Hidden
<1>2. CASE \E pos \in 0..MaxPos, len \in 0..MaxLen : Read(pos, len)
  BY <1>2, ReadAsks
<1>3. CASE MapBlock
  <2>1. /\ pc = "map" /\ map' = map /\ filesize' = filesize /\ req' = req
        /\ \/ pc' = "place" /\ result' = result
           \/ pc' = "done" /\ result' = -1
    BY <1>3 DEF MapBlock, Return
  <2>2. req \in [pos : 0..MaxPos, len : 0..MaxLen]
    BY DEF IInv, Typed
  <2> QED BY <2>1, <2>2, Hidden, FailAnswers
<1>4. CASE StartRun \/ Extend \/ Hole \/ Spill
  <2>1. /\ pc \in {"map", "place"} /\ map' = map /\ filesize' = filesize /\ req' = req
        /\ pc' \in {"map", "spill"} /\ result' = result
    BY <1>4 DEF StartRun, Extend, Hole, Spill, NextBlock
  <2> QED BY <2>1, Hidden
<1>5. CASE Device
  <2>1. /\ map' = map /\ filesize' = filesize /\ req' = req /\ pc' = pc /\ result' = result
        /\ dev # DevIdle
    BY <1>5 DEF Device, fvars, DevStep, Check, Head, Small, Body, Tail, DevIdle
  <2>2. pc # "done"
    BY <2>1 DEF IInv, ReadOK, DevOK
  <2> QED BY <2>1, <2>2, Hidden
<1>6. CASE Spilled
  <2>1. /\ pc = "spill" /\ map' = map /\ filesize' = filesize /\ req' = req
        /\ \/ pc' \in {"map", "place"} /\ result' = result
           \/ pc' = "done" /\ result' = -1
    BY <1>6 DEF Spilled, Return
  <2>2. req \in [pos : 0..MaxPos, len : 0..MaxLen]
    BY DEF IInv, Typed
  <2> QED BY <2>1, <2>2, Hidden, FailAnswers
<1>7. CASE Done \/ Taken
  BY <1>7, DoneAnswers, TakenTakes
<1>8. CASE UNCHANGED inodeVars
  <2>1. /\ map' = map /\ filesize' = filesize /\ req' = req /\ pc' = pc /\ result' = result
        /\ buf' = buf
    BY <1>8 DEF inodeVars, vars, fvars
  <2> QED BY <2>1, Hidden
<1>9. CASE \/ \E ino \in 0..InodeCount : ReadGroup(ino)
           \/ InodeStep
  BY <1>1, <1>9
  DEF ReadGroup, InodeStep, GroupRead, InodeFound, InodeNotRead, InodeDevice
<1>10. CASE node.st = "open" /\ Next
  BY <1>2, <1>3, <1>4, <1>5, <1>6, <1>7, <1>10 DEF Next, Onward
<1> QED BY <1>8, <1>9, <1>10 DEF InodeNext

(***************************************************************************)
(* The loop with its delayed runs, on top of the parts of vfs_devread,     *)
(* does what a file promises, step by step: every answer is an error or    *)
(* the file's bytes, and answers the request that was made.  (That every   *)
(* request has its answer is left to the model checker.)                   *)
(***************************************************************************)
THEOREM KeepsPromise ==
  InodeSpec => Promise!Init /\ [][Promise!Next]_(Promise!vars)
<1>1. InodeInit => Promise!Init
  BY InitPromises
<1>2. IInv /\ [InodeNext]_inodeVars => [Promise!Next]_(Promise!vars)
  BY StepPromises
<1> QED BY <1>1, <1>2, Invariance, PTL DEF InodeSpec
=============================================================================
