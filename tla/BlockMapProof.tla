--------------------------- MODULE BlockMapProof ---------------------------
(* Theorems about BlockMap, for every number of direct pointers, pointers  *)
(* per block, and content of the partition.                                *)
EXTENDS BlockMap, TLAPS

(* Division with remainder, the form the proofs below use.                 *)
LEMMA DivMod ==
  ASSUME NEW n \in Nat, NEW p \in Nat \ {0}
  PROVE  /\ n \div p \in Nat
         /\ n % p \in 0..(p - 1)
         /\ n = p * (n \div p) + (n % p)
BY SMT

(* A number below the divisor is its own remainder.                        *)
LEMMA ModSmall ==
  ASSUME NEW n \in Nat, NEW p \in Nat \ {0}, n < p
  PROVE  n % p = n /\ n \div p = 0
BY SMT

(* A quotient below a bound.                                               *)
LEMMA DivBound ==
  ASSUME NEW n \in Nat, NEW p \in Nat \ {0}, NEW k \in Nat, n < p * k
  PROVE  n \div p < k
<1> DEFINE q == n \div p
<1>1. q \in Nat /\ p * q <= n
  BY DivMod
<1>2. ASSUME q >= k PROVE FALSE
  <2>1. p * q >= p * k
    BY <1>1, <1>2
  <2> QED BY <2>1, <1>1
<1> QED BY <1>1, <1>2

LEMMA Products ==
  /\ Direct \in Nat \ {0} /\ PerBlock \in Nat \ {0}
  /\ PerBlock * PerBlock \in Nat \ {0}
  /\ PerBlock * PerBlock * PerBlock \in Nat \ {0}
  /\ PerBlock * (PerBlock + 1) = PerBlock * PerBlock + PerBlock
BY SizesAssumption

(* What the depth says of the block number within it.                      *)
LEMMA DepthBounds ==
  ASSUME NEW fb \in FileBlocks
  PROVE  /\ Depth(fb) \in 0..3
         /\ Depth(fb) = 0 => fb < Direct
         /\ Depth(fb) = 1 => RBlock(fb) \in 0..(PerBlock - 1)
         /\ Depth(fb) = 2 => RBlock(fb) \in 0..(PerBlock * PerBlock - 1)
         /\ Depth(fb) = 3 => RBlock(fb) \in 0..(PerBlock * PerBlock * PerBlock - 1)
<1> DEFINE p2 == PerBlock * PerBlock
           p3 == PerBlock * PerBlock * PerBlock
<1>1. /\ fb \in Nat /\ fb < Direct + PerBlock + p2 + p3
      /\ p2 \in Nat /\ p3 \in Nat /\ PerBlock * (PerBlock + 1) = p2 + PerBlock
      /\ Direct \in Nat /\ PerBlock \in Nat
  BY Products DEF FileBlocks
<1> HIDE DEF p2, p3
<1>2. /\ fb < Direct => Depth(fb) = 0
      /\ fb >= Direct /\ fb < Direct + PerBlock => Depth(fb) = 1
      /\ fb >= Direct + PerBlock /\ fb < Direct + PerBlock + p2 => Depth(fb) = 2
      /\ fb >= Direct + PerBlock + p2 => Depth(fb) = 3
  BY <1>1 DEF Depth
<1>3. /\ Depth(fb) = 1 => RBlock(fb) = fb - Direct
      /\ Depth(fb) = 2 => RBlock(fb) = fb - (Direct + PerBlock)
      /\ Depth(fb) = 3 => RBlock(fb) = fb - (Direct + PerBlock + p2)
  BY DEF RBlock, p2
<1>4. /\ Depth(fb) = 0 => fb < Direct
      /\ Depth(fb) = 1 => fb >= Direct /\ fb < Direct + PerBlock
      /\ Depth(fb) = 2 => fb >= Direct + PerBlock /\ fb < Direct + PerBlock + p2
      /\ Depth(fb) = 3 => fb >= Direct + PerBlock + p2
      /\ Depth(fb) \in 0..3
  BY <1>1, <1>2
<1> QED BY <1>1, <1>3, <1>4 DEF p2, p3

(* Every slot a call uses lies in its pointer block.                       *)
LEMMA SlotInRange ==
  ASSUME NEW fb \in FileBlocks, NEW level \in Level, level <= Depth(fb)
  PROVE  Slot(fb, level) \in Slots
<1> DEFINE rb == RBlock(fb)
<1>1. PerBlock \in Nat \ {0} /\ Depth(fb) \in 1..3 /\ rb \in Nat
  BY DepthBounds, Products DEF Level
<1>2. CASE level = Depth(fb)
  <2>1. rb % PerBlock \in 0..(PerBlock - 1)
    BY <1>1, DivMod
  <2>2. Slot(fb, level) = rb % PerBlock
    BY <1>1, <1>2 DEF Slot
  <2> QED BY <2>1, <2>2 DEF Slots
<1>3. CASE level = 1 /\ Depth(fb) = 2
  <2>1. rb < PerBlock * PerBlock
    BY <1>3, DepthBounds, Products
  <2>2. rb \div PerBlock \in Nat /\ rb \div PerBlock < PerBlock
    BY <1>1, <2>1, DivMod, DivBound
  <2> QED BY <1>1, <1>3, <2>2 DEF Slot, Slots
<1>4. CASE level = 1 /\ Depth(fb) = 3
  <2> DEFINE p2 == PerBlock * PerBlock
  <2>1. rb < p2 * PerBlock /\ p2 \in Nat \ {0}
    BY <1>4, DepthBounds, Products
  <2>2. rb \div p2 \in Nat /\ rb \div p2 < PerBlock
    BY <1>1, <2>1, DivMod, DivBound
  <2> QED BY <1>1, <1>4, <2>2 DEF Slot, Slots
<1>5. CASE level = 2 /\ Depth(fb) = 3
  <2>1. (rb \div PerBlock) \in Nat
    BY <1>1, DivMod
  <2>2. (rb \div PerBlock) % PerBlock \in 0..(PerBlock - 1)
    BY <1>1, <2>1, DivMod
  <2> QED BY <1>1, <1>5, <2>2 DEF Slot, Slots
<1> QED BY <1>1, <1>2, <1>3, <1>4, <1>5 DEF Level

(* What a pointer leads to is what the disk holds there, unless it is null *)
(* and block 0 does not read as null pointers.                             *)
LEMMA EntryIsDisk ==
  ASSUME NEW fb \in FileBlocks, NEW level \in Level, level <= Depth(fb),
         NullOnPath(fb) => Block0Clear, NEW s \in Slots
  PROVE  Entry(Pointer(fb, level), s) = Disk[Pointer(fb, level)][s]
<1>1. level \in 1..Depth(fb)
  BY DepthBounds DEF Level
<1>2. CASE Pointer(fb, level) = 0
  <2>1. Block0Clear
    BY <1>1, <1>2 DEF NullOnPath
  <2> QED BY <1>2, <2>1 DEF Block0Clear, Entry
<1>3. CASE Pointer(fb, level) # 0
  BY <1>3 DEF Entry
<1> QED BY <1>2, <1>3

(***************************************************************************)
(* The slots of a path spell the logical block: the block the three        *)
(* pointer blocks of its path lead to is the block of the layout.          *)
(***************************************************************************)
LEMMA PathInLayout1 ==
  ASSUME NEW fb \in FileBlocks, Depth(fb) = 1, NullOnPath(fb) => Block0Clear
  PROVE  InLayout(fb, Disk[Pointer1(fb)][Slot(fb, 1)])
<1> DEFINE s1 == Slot(fb, 1)
<1>1. /\ RBlock(fb) \in 0..(PerBlock - 1) /\ fb \in Nat
      /\ PerBlock \in Nat \ {0} /\ Direct \in Nat \ {0}
  BY DepthBounds, Products DEF FileBlocks
<1>2. s1 \in Slots
  BY SlotInRange DEF Level
<1>3. s1 = RBlock(fb)
  <2>1. s1 = RBlock(fb) % PerBlock
    BY DEF Slot
  <2> QED BY <1>1, <2>1
<1>4. fb = Direct + s1
  BY <1>1, <1>3 DEF RBlock
<1>5. Entry(Root[1], s1) = Disk[Root[1]][s1]
  BY <1>2, EntryIsDisk DEF Pointer, Pointer1, Level
<1> QED BY <1>2, <1>4, <1>5 DEF InLayout, Pointer1

LEMMA PathInLayout2 ==
  ASSUME NEW fb \in FileBlocks, Depth(fb) = 2, NullOnPath(fb) => Block0Clear
  PROVE  InLayout(fb, Disk[Pointer2(fb)][Slot(fb, 2)])
<1> DEFINE s1 == Slot(fb, 1)
           s2 == Slot(fb, 2)
           rb == RBlock(fb)
<1>1. /\ rb \in Nat /\ fb \in Nat
      /\ PerBlock \in Nat \ {0} /\ Direct \in Nat \ {0}
  BY DepthBounds, Products DEF FileBlocks
<1>2. s1 \in Slots /\ s2 \in Slots
  BY SlotInRange DEF Level
<1>3. s1 = rb \div PerBlock /\ s2 = rb % PerBlock
  BY DEF Slot
<1>4. rb = PerBlock * s1 + s2
  BY <1>1, <1>3, DivMod
<1>5. rb = fb - (Direct + PerBlock)
  BY DEF RBlock
<1>6. s1 \in Nat /\ s2 \in Nat
  BY <1>1, <1>2 DEF Slots
<1> HIDE DEF s1, s2, rb
<1>7. fb = Direct + PerBlock + s1 * PerBlock + s2
  BY <1>1, <1>4, <1>5, <1>6
<1>8. /\ Entry(Root[2], s1) = Disk[Root[2]][s1]
      /\ Entry(Disk[Root[2]][s1], s2) = Disk[Disk[Root[2]][s1]][s2]
  BY <1>2, EntryIsDisk DEF Pointer, Pointer1, Pointer2, Level, s1, s2
<1> QED BY <1>2, <1>7, <1>8 DEF InLayout, Pointer1, Pointer2, s1, s2

LEMMA PathInLayout3 ==
  ASSUME NEW fb \in FileBlocks, Depth(fb) = 3, ProbeInRange(fb),
         NullOnPath(fb) => Block0Clear
  PROVE  InLayout(fb, Disk[Pointer3(fb)][Slot(fb, 3)])
<1> DEFINE s1 == Slot(fb, 1)
           s2 == Slot(fb, 2)
           s3 == Slot(fb, 3)
           rb == RBlock(fb)
           q  == rb \div PerBlock
           p2 == PerBlock * PerBlock
<1>1. /\ rb \in Nat /\ fb \in Nat
      /\ PerBlock \in Nat \ {0} /\ Direct \in Nat \ {0} /\ p2 \in Nat \ {0}
  BY DepthBounds, Products DEF FileBlocks
<1>2. s1 \in Slots /\ s2 \in Slots /\ s3 \in Slots
  BY SlotInRange DEF Level
<1>3. s1 = rb \div p2 /\ s2 = q % PerBlock /\ s3 = rb % PerBlock
  BY DEF Slot
<1>4. q \in Nat /\ q < PerBlock /\ rb = PerBlock * q + s3
  BY <1>1, <1>3, DivMod DEF ProbeInRange
<1>5. s2 = q
  BY <1>1, <1>3, <1>4, ModSmall
<1>6. s3 \in 0..(PerBlock - 1)
  BY <1>2 DEF Slots
<1>7. rb < p2
  <2>1. PerBlock * q + PerBlock <= p2
    BY <1>1, <1>4
  <2> QED BY <1>1, <1>4, <1>6, <2>1
<1>8. s1 = 0
  BY <1>1, <1>3, <1>7, ModSmall
<1>9. rb = fb - (Direct + PerBlock + p2)
  BY DEF RBlock
<1>10. s2 \in Nat /\ s3 \in Nat
  BY <1>4, <1>5, <1>6
<1> HIDE DEF s1, s2, s3, rb, q
<1>11. fb = Direct + PerBlock + PerBlock * PerBlock
             + s1 * (PerBlock * PerBlock) + s2 * PerBlock + s3
  BY <1>1, <1>4, <1>5, <1>8, <1>9, <1>10
<1>12. \A level \in Level, s \in Slots :
         Entry(Pointer(fb, level), s) = Disk[Pointer(fb, level)][s]
  BY EntryIsDisk DEF Level
<1>13. /\ Pointer(fb, 1) = Root[3] /\ Pointer(fb, 2) = Disk[Root[3]][s1]
       /\ Pointer(fb, 3) = Disk[Disk[Root[3]][s1]][s2]
  BY DEF Pointer, Pointer1, Pointer2, Pointer3, s1, s2
<1>14. /\ Entry(Root[3], s1) = Disk[Root[3]][s1]
       /\ Entry(Disk[Root[3]][s1], s2) = Disk[Disk[Root[3]][s1]][s2]
       /\ Entry(Disk[Disk[Root[3]][s1]][s2], s3)
            = Disk[Disk[Disk[Root[3]][s1]][s2]][s3]
  BY <1>2, <1>12, <1>13 DEF Level
<1> QED BY <1>2, <1>11, <1>14
        DEF InLayout, Pointer1, Pointer2, Pointer3, s1, s2, s3

-----------------------------------------------------------------------------

IInv == TypeOK /\ BuffersCoherent /\ OnPath /\ MappedBlock

(* The invariant holds initially.                                          *)
LEMMA InitIInv == Init => IInv
<1> SUFFICES ASSUME Init PROVE IInv
  OBVIOUS
<1>1. TypeOK
  BY BlockAssumption DEF Init, TypeOK, Idle, Err, Null
<1>2. BuffersCoherent /\ OnPath
  BY DEF Init, BuffersCoherent, OnPath, Err
<1>3. MappedBlock
  BY DEF Init, MappedBlock, Err
<1> QED BY <1>1, <1>2, <1>3 DEF IInv

(* A block number is not the error value, and an idle call has no level.   *)
LEMMA Distinct ==
  /\ Err \notin Block /\ 0 \in Block
  /\ \A c \in [fileblock : FileBlocks, level : 1..4] : c # Idle
BY BlockAssumption DEF Err, Idle

(* The call in progress, spelled out.                                      *)
LEMMA CallFacts ==
  ASSUME TypeOK, call # Idle
  PROVE  /\ call \in [fileblock : FileBlocks, level : 1..4]
         /\ call.fileblock \in FileBlocks /\ call.level \in 1..4
         /\ call.level <= Depth(call.fileblock) + 1
         /\ Depth(call.fileblock) > 0
BY DEF TypeOK

(* The pointer block wanted next is a block of the partition.              *)
LEMMA WantedIsBlock ==
  ASSUME IInv, NEW level \in Level, Loading(level)
  PROVE  /\ Wanted(call.fileblock, level) \in Block
         /\ Probed(call.fileblock, level) \subseteq Block
<1> DEFINE fb == call.fileblock
<1>1. /\ fb \in FileBlocks /\ level <= Depth(fb) /\ Depth(fb) \in 0..3
      /\ TypeOK /\ call # Idle /\ call.level = level
  BY CallFacts, DepthBounds DEF IInv, Loading
<1>2. CASE level = 1
  <2>1. Depth(fb) \in Level
    BY <1>1, <1>2 DEF Level
  <2>2. Wanted(fb, level) = Root[Depth(fb)]
    BY <1>2 DEF Wanted
  <2>3. Wanted(fb, level) \in Block
    BY <2>1, <2>2, DiskAssumption
  <2> QED BY <2>3 DEF Probed
<1>3. CASE level # 1
  <2>1. level - 1 \in Level /\ level - 1 <= Depth(fb) /\ level - 1 < call.level
    BY <1>1, <1>3 DEF Level
  <2>2. Slot(fb, level - 1) \in Slots
    BY <1>1, <2>1, SlotInRange
  <2>3. indir[level - 1].block \in [Slots -> Block]
    <3>1. indir[level - 1].block # Null
      BY <1>1, <2>1 DEF IInv, OnPath, BuffersCoherent
    <3>2. indir[level - 1].block \in [Slots -> Block] \cup {Null}
      BY <1>1, <2>1 DEF TypeOK
    <3> QED BY <3>1, <3>2
  <2>4. Wanted(fb, level) = indir[level - 1].block[Slot(fb, level - 1)]
    BY <1>3 DEF Wanted
  <2>5. Wanted(fb, level) \in Block
    BY <2>2, <2>3, <2>4
  <2> QED BY <2>5 DEF Probed
<1> QED BY <1>2, <1>3

(* Below an overwritten buffer nothing is promised; otherwise the pointer  *)
(* block wanted next is the one of the path.                               *)
LEMMA WantedOnPath ==
  ASSUME IInv, NEW level \in Level, Loading(level), ~torn
  PROVE  Wanted(call.fileblock, level) = Pointer(call.fileblock, level)
<1> DEFINE fb == call.fileblock
<1>1. TypeOK /\ OnPath /\ BuffersCoherent /\ call # Idle /\ call.level = level
  BY DEF IInv, Loading
<1>2. CASE level = 1
  BY <1>2 DEF Wanted, Pointer, Pointer1
<1>3. CASE level = 2
  <2>1. indir[1].blkno = Pointer1(fb) /\ indir[1].block = Disk[Pointer1(fb)]
    BY <1>1, <1>3 DEF OnPath, BuffersCoherent, Pointer, Level
  <2>2. Wanted(fb, level) = indir[1].block[Slot(fb, 1)]
    BY <1>3 DEF Wanted
  <2> QED BY <1>3, <2>1, <2>2 DEF Pointer, Pointer2
<1>4. CASE level = 3
  <2>1. indir[2].blkno = Pointer2(fb) /\ indir[2].block = Disk[Pointer2(fb)]
    BY <1>1, <1>4 DEF OnPath, BuffersCoherent, Pointer, Level
  <2>2. Wanted(fb, level) = indir[2].block[Slot(fb, 2)]
    BY <1>4 DEF Wanted
  <2> QED BY <1>4, <2>1, <2>2 DEF Pointer, Pointer3
<1> QED BY <1>2, <1>3, <1>4 DEF Level

(* Going down one level with the buffer of this level in order.            *)
LEMMA Descend ==
  ASSUME IInv, NEW level \in Level, Loading(level), NextLevel,
         NEW entry \in [blkno : Block, block : [Slots -> Block]],
         indir' = [indir EXCEPT ![level] = entry],
         torn' \in BOOLEAN, torn => torn',
         ~torn' => entry.block = Disk[entry.blkno],
         ~torn /\ (level < 3 \/ ProbeInRange(call.fileblock))
           => entry.blkno = Pointer(call.fileblock, level),
         UNCHANGED ret
  PROVE  IInv'
<1>1. /\ TypeOK /\ BuffersCoherent /\ OnPath /\ MappedBlock
      /\ call # Idle /\ call.level = level /\ level \in 1..3
      /\ call \in [fileblock : FileBlocks, level : 1..4]
      /\ level <= Depth(call.fileblock) /\ Depth(call.fileblock) \in 0..3
  BY CallFacts, DepthBounds DEF IInv, Loading, Level
<1>2. /\ call' \in [fileblock : FileBlocks, level : 1..4] /\ call' # Idle
      /\ call'.level = level + 1 /\ call'.fileblock = call.fileblock
  BY <1>1, Distinct DEF NextLevel
<1>3. /\ DOMAIN indir = Level
      /\ indir'[level] = entry /\ entry.blkno # Err /\ entry.block # Null
      /\ \A l \in Level : l # level => indir'[l] = indir[l]
  <2>1. DOMAIN indir = Level
    BY <1>1 DEF TypeOK
  <2>2. entry.block # Null
    <3>1. DOMAIN entry.block = Slots /\ 0 \in Slots
      BY SizesAssumption DEF Slots
    <3>2. DOMAIN Null = {}
      BY DEF Null
    <3> QED BY <3>1, <3>2
  <2> QED BY <2>1, <2>2, Distinct
<1>4. TypeOK'
  <2>1. indir' \in [Level -> [blkno : Block \cup {Err},
                             block : [Slots -> Block] \cup {Null}]]
    BY <1>1 DEF TypeOK
  <2>2. call'.level <= Depth(call'.fileblock) + 1
    BY <1>1, <1>2
  <2> QED BY <1>1, <1>2, <2>1, <2>2 DEF TypeOK
<1>5. BuffersCoherent'
  BY <1>1, <1>3 DEF BuffersCoherent
<1>6. OnPath'
  <2> SUFFICES ASSUME NEW l \in Level, l < call'.level
               PROVE  /\ indir'[l].blkno # Err
                      /\ (~torn' /\ (l < 3 \/ ProbeInRange(call.fileblock)))
                         => indir'[l].blkno = Pointer(call.fileblock, l)
    BY <1>2 DEF OnPath
  <2>1. CASE l = level
    BY <1>3, <2>1
  <2>2. CASE l # level
    <3>1. l < call.level
      BY <1>1, <1>2, <2>2 DEF Level
    <3> QED BY <1>1, <1>3, <2>2, <3>1 DEF OnPath
  <2> QED BY <2>1, <2>2
<1>7. MappedBlock'
  BY <1>1 DEF MappedBlock
<1> QED BY <1>4, <1>5, <1>6, <1>7 DEF IInv

(* A buffer that is found in place keeps the invariant.                    *)
LEMMA HitPreserves ==
  ASSUME IInv, NEW level \in Level, Hit(level)
  PROVE  IInv'
<1> DEFINE fb == call.fileblock
           entry == indir[level]
<1>1. /\ TypeOK /\ BuffersCoherent /\ Loading(level) /\ NextLevel
      /\ UNCHANGED <<indir, ret, torn>>
      /\ entry.blkno \in Probed(fb, level)
  BY DEF IInv, Hit
<1>2. entry.blkno \in Block
  BY <1>1, WantedIsBlock
<1>3. /\ entry \in [blkno : Block \cup {Err}, block : [Slots -> Block] \cup {Null}]
      /\ entry.block # Null
      /\ ~torn => entry.block = Disk[entry.blkno]
  BY <1>1, <1>2, Distinct DEF TypeOK, BuffersCoherent
<1>4. entry \in [blkno : Block, block : [Slots -> Block]]
  BY <1>2, <1>3
<1>5. indir' = [indir EXCEPT ![level] = entry]
  BY <1>1 DEF TypeOK
<1>6. ASSUME ~torn, level < 3 \/ ProbeInRange(fb)
      PROVE  entry.blkno = Pointer(fb, level)
  <2>1. entry.blkno = Wanted(fb, level)
    BY <1>1, <1>6 DEF Probed, Level
  <2> QED BY <1>1, <1>6, <2>1, WantedOnPath
<1>7. torn \in BOOLEAN
  BY <1>1 DEF TypeOK
<1> HIDE DEF entry
<1> QED BY <1>1, <1>3, <1>4, <1>5, <1>6, <1>7, Descend

(* So does one that is read from the device.                               *)
LEMMA LoadPreserves ==
  ASSUME IInv, NEW level \in Level, Load(level)
  PROVE  IInv'
<1> DEFINE fb == call.fileblock
           want == Wanted(fb, level)
<1>1. Loading(level) /\ NextLevel /\ UNCHANGED ret
  BY DEF Load, Misses
<1>2. want \in Block /\ torn \in BOOLEAN
  BY <1>1, WantedIsBlock DEF IInv, TypeOK
<1>3. PICK block \in {Disk[want], Torn} :
        /\ indir' = [indir EXCEPT ![level] = [blkno |-> want, block |-> block]]
        /\ torn' \in BOOLEAN /\ (torn => torn')
        /\ ~torn' => block = Disk[want]
  BY <1>2 DEF Load
<1> DEFINE entry == [blkno |-> want, block |-> block]
<1>4. entry \in [blkno : Block, block : [Slots -> Block]]
  BY <1>2, <1>3, DiskAssumption
<1>5. ~torn' => entry.block = Disk[entry.blkno]
  BY <1>3
<1>6. ~torn => entry.blkno = Pointer(fb, level)
  BY <1>1, WantedOnPath
<1>7. indir' = [indir EXCEPT ![level] = entry]
  BY <1>3
<1> HIDE DEF entry
<1> QED BY <1>1, <1>3, <1>4, <1>5, <1>6, <1>7, Descend

(* Starting a call, and answering at once for a direct block.              *)
LEMMA CallPreserves ==
  ASSUME IInv, NEW fb \in FileBlocks, CallDirect(fb) \/ Call(fb)
  PROVE  IInv'
<1>1. /\ TypeOK /\ BuffersCoherent /\ MappedBlock /\ call = Idle
      /\ Depth(fb) \in 0..3
  BY DepthBounds DEF IInv, CallDirect, Call
<1>2. CASE CallDirect(fb)
  <2>1. fb < Direct /\ fb \in Nat
    BY <1>2, DepthBounds, Products DEF CallDirect, FileBlocks
  <2>2. DirBlocks[fb] \in Block
    BY <2>1, DiskAssumption, SizesAssumption
  <2>3. TypeOK'
    BY <1>1, <1>2, <2>2 DEF TypeOK, CallDirect
  <2>4. BuffersCoherent' /\ OnPath'
    BY <1>1, <1>2 DEF BuffersCoherent, OnPath, CallDirect
  <2>5. InLayout(fb, DirBlocks[fb])
    BY <2>1 DEF InLayout
  <2>6. MappedBlock'
    BY <1>2, <2>5 DEF MappedBlock, CallDirect
  <2> QED BY <2>3, <2>4, <2>6 DEF IInv
<1>3. CASE Call(fb)
  <2>1. /\ call' = [fileblock |-> fb, level |-> 1]
        /\ call'.fileblock = fb /\ call'.level = 1 /\ Depth(fb) > 0
        /\ UNCHANGED <<indir, ret, torn>>
    BY <1>3 DEF Call
  <2>2. TypeOK'
    BY <1>1, <2>1 DEF TypeOK
  <2>3. BuffersCoherent' /\ OnPath' /\ MappedBlock'
    BY <1>1, <2>1 DEF BuffersCoherent, OnPath, MappedBlock, Level
  <2> QED BY <2>2, <2>3 DEF IInv
<1> QED BY <1>2, <1>3

(* A call that gives up: no memory, or the device read failed.             *)
LEMMA FailPreserves ==
  ASSUME IInv, NEW level \in Level, AllocFails(level) \/ LoadFails(level)
  PROVE  IInv'
<1>1. /\ TypeOK /\ BuffersCoherent /\ MappedBlock /\ Loading(level)
      /\ call \in [fileblock : FileBlocks, level : 1..4]
      /\ call.fileblock \in FileBlocks
  BY CallFacts DEF IInv, AllocFails, LoadFails, Misses, Loading
<1>2. CASE AllocFails(level)
  <2>1. Return(Err, FALSE) /\ UNCHANGED <<indir, torn>>
    BY <1>2 DEF AllocFails
  <2>2. TypeOK'
    BY <1>1, <2>1 DEF TypeOK, Return
  <2>3. BuffersCoherent' /\ OnPath' /\ MappedBlock'
    BY <1>1, <2>1 DEF BuffersCoherent, OnPath, MappedBlock, Return
  <2> QED BY <2>2, <2>3 DEF IInv
<1>3. CASE LoadFails(level)
  <2> DEFINE v == IF Depth(call.fileblock) = 1 THEN 0 ELSE Err
  <2>1. Return(v, TRUE) /\ v \in Block \cup {Err}
    BY <1>3, Distinct DEF LoadFails
  <2>2. PICK b \in [Slots -> Block] :
          /\ indir' = [indir EXCEPT ![level].block = b]
          /\ ~torn' => ~torn
          /\ torn' \in BOOLEAN
          /\ ~torn' => \/ indir[level].block = Null
                       \/ b = indir[level].block
    <3>1. CASE /\ indir' = [indir EXCEPT ![level].block =
                              IF @ = Null THEN [s \in Slots |-> 0] ELSE @]
               /\ UNCHANGED torn
      <4> DEFINE b == IF indir[level].block = Null THEN [s \in Slots |-> 0]
                                                  ELSE indir[level].block
      <4>1. b \in [Slots -> Block]
        BY <1>1, Distinct DEF TypeOK
      <4>2. indir' = [indir EXCEPT ![level].block = b]
        BY <1>1, <3>1 DEF TypeOK
      <4> QED BY <1>1, <3>1, <4>1, <4>2 DEF TypeOK
    <3>2. CASE indir' = [indir EXCEPT ![level].block = Torn] /\ torn' = TRUE
      BY <3>2, DiskAssumption
    <3> QED BY <1>3, <3>1, <3>2 DEF LoadFails
  <2>3. /\ DOMAIN indir = Level
        /\ \A l \in Level : indir'[l].blkno = indir[l].blkno
        /\ indir'[level].block = b
        /\ \A l \in Level : l # level => indir'[l] = indir[l]
    BY <1>1, <2>2 DEF TypeOK
  <2>4. TypeOK'
    <3>1. indir' \in [Level -> [blkno : Block \cup {Err},
                               block : [Slots -> Block] \cup {Null}]]
      BY <1>1, <2>2 DEF TypeOK
    <3> QED BY <1>1, <2>1, <2>2, <3>1 DEF TypeOK, Return
  <2>5. BuffersCoherent'
    <3>1. b # Null
      BY <2>2, SizesAssumption DEF Slots, Null
    <3> QED BY <1>1, <2>2, <2>3, <3>1 DEF BuffersCoherent
  <2>6. OnPath' /\ MappedBlock'
    BY <2>1 DEF OnPath, MappedBlock, Return
  <2> QED BY <2>4, <2>5, <2>6 DEF IInv
<1> QED BY <1>2, <1>3

(* The end of a call: its last pointer block gives the block.              *)
LEMMA LookupPreserves ==
  ASSUME IInv, Lookup
  PROVE  IInv'
<1> DEFINE fb == call.fileblock
           last == Depth(fb)
           val == indir[last].block[Slot(fb, last)]
<1>1. /\ TypeOK /\ BuffersCoherent /\ OnPath /\ call # Idle
      /\ call.level = last + 1 /\ call.level \in 1..4
      /\ fb \in FileBlocks /\ last \in 0..3
      /\ Return(val, FALSE) /\ UNCHANGED <<indir, torn>>
  BY CallFacts, DepthBounds DEF IInv, Lookup
<1>2. ret' = [fileblock |-> fb, val |-> val, failed |-> FALSE] /\ call' = Idle
  BY <1>1 DEF Return
<1>3. last # 0
  BY <1>1, CallFacts
<1>4. last \in Level /\ Slot(fb, last) \in Slots
  BY <1>1, <1>3, SlotInRange DEF Level
<1>5. indir[last].block # Null /\ indir[last].blkno # Err
  BY <1>1, <1>4 DEF OnPath, BuffersCoherent, Level
<1>6. val \in Block
  <2>1. indir[last].block \in [Slots -> Block]
    BY <1>1, <1>4, <1>5 DEF TypeOK
  <2> QED BY <1>4, <2>1
<1>7. TypeOK'
  BY <1>1, <1>2, <1>6 DEF TypeOK
<1>8. BuffersCoherent' /\ OnPath'
  BY <1>1, <1>2 DEF BuffersCoherent, OnPath
<1>9. ASSUME ~torn, ProbeInRange(fb), NullOnPath(fb) => Block0Clear
      PROVE  InLayout(fb, val)
  <2>1. indir[last].block = Disk[Pointer(fb, last)]
    BY <1>1, <1>4, <1>5, <1>9 DEF OnPath, BuffersCoherent, Level
  <2>2. val = Disk[Pointer(fb, last)][Slot(fb, last)]
    BY <2>1
  <2>3. CASE last = 1
    BY <1>1, <1>9, <2>2, <2>3, PathInLayout1 DEF Pointer
  <2>4. CASE last = 2
    BY <1>1, <1>9, <2>2, <2>4, PathInLayout2 DEF Pointer
  <2>5. CASE last = 3
    BY <1>1, <1>9, <2>2, <2>5, PathInLayout3 DEF Pointer
  <2> QED BY <1>4, <2>3, <2>4, <2>5 DEF Level
<1>10. MappedBlock'
  <2> SUFFICES ASSUME ~torn, ProbeInRange(fb), NullOnPath(fb) => Block0Clear
               PROVE  InLayout(fb, val)
    BY <1>1, <1>2 DEF MappedBlock
  <2> QED BY <1>9
<1> QED BY <1>7, <1>8, <1>10 DEF IInv

(* A step that changes nothing.                                            *)
LEMMA StutterPreserves == IInv /\ UNCHANGED vars => IInv'
BY DEF IInv, vars, TypeOK, BuffersCoherent, OnPath, MappedBlock

(* The invariant is inductive: one case per action of Next.                *)
LEMMA NextIInv == IInv /\ [Next]_vars => IInv'
<1> SUFFICES ASSUME IInv, [Next]_vars PROVE IInv'
  OBVIOUS
<1>1. ASSUME NEW fb \in FileBlocks, CallDirect(fb) \/ Call(fb) PROVE IInv'
  BY <1>1, CallPreserves
<1>2. ASSUME NEW level \in Level, AllocFails(level) \/ LoadFails(level)
      PROVE  IInv'
  BY <1>2, FailPreserves
<1>3. ASSUME NEW level \in Level, Hit(level) PROVE IInv'
  BY <1>3, HitPreserves
<1>4. ASSUME NEW level \in Level, Load(level) PROVE IInv'
  BY <1>4, LoadPreserves
<1>5. CASE Lookup
  BY <1>5, LookupPreserves
<1>6. CASE UNCHANGED vars
  BY <1>6, StutterPreserves
<1> QED BY <1>1, <1>2, <1>3, <1>4, <1>5, <1>6 DEF Next

(* IInv holds in every state of every behaviour.                           *)
THEOREM Invariance == Spec => []IInv
<1>1. Init => IInv
  BY InitIInv
<1>2. IInv /\ [Next]_vars => IInv'
  BY NextIInv
<1> QED BY <1>1, <1>2, PTL DEF Spec

(***************************************************************************)
(* The call in progress, the buffers and the result are of their types, so *)
(* a level is never loaded past the depth of its block (ext4.c:129-382).   *)
(***************************************************************************)
THEOREM TypeCorrect == Spec => []TypeOK
<1>1. IInv => TypeOK
  BY DEF IInv
<1> QED BY <1>1, Invariance, PTL

(***************************************************************************)
(* The buffers shared by the three depths never hold another block than    *)
(* the one they are numbered with, unless a read went wrong.               *)
(***************************************************************************)
THEOREM Coherence == Spec => []BuffersCoherent
<1>1. IInv => BuffersCoherent
  BY DEF IInv
<1> QED BY <1>1, Invariance, PTL

(* The levels a call has passed hold the pointer blocks of its own path.   *)
THEOREM PathKept == Spec => []OnPath
<1>1. IInv => OnPath
  BY DEF IInv
<1> QED BY <1>1, Invariance, PTL

(***************************************************************************)
(* Every call that succeeds returns the block the file's layout has at     *)
(* that place, whatever calls came before it (ext4.c:59-383), outside the  *)
(* exceptions MappedBlock names.  Where a null pointer lies on the way the *)
(* layout has a hole, and the code gives it only if block 0 reads as null  *)
(* pointers.                                                               *)
(***************************************************************************)
THEOREM Correctness == Spec => []MappedBlock
<1>1. IInv => MappedBlock
  BY DEF IInv
<1> QED BY <1>1, Invariance, PTL
=============================================================================
