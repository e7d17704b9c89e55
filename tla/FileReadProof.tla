---------------------------- MODULE FileReadProof ----------------------------
(***************************************************************************)
(* Proofs about vfs_devread and the loop of ext4fs_read_file: what a call  *)
(* of the device delivers (DevStepServes), what the delayed run stands for *)
(* (RunBytes), and that every step of the loop keeps the inductive         *)
(* invariant LoopOK (NextKeeps), from which InodeReadProof takes what a    *)
(* read of a file delivers.                                                *)
(***************************************************************************)
EXTENDS FileRead, TLAPS

(* Division with remainder, and that there is only one.                    *)
LEMMA DivMod ==
  ASSUME NEW n \in Int, NEW p \in Nat \ {0}
  PROVE  /\ n \div p \in Int
         /\ n % p \in 0..(p - 1)
         /\ n = (n \div p) * p + (n % p)
         /\ n >= 0 => n \div p >= 0
BY SMT

LEMMA MulMono ==
  ASSUME NEW a \in Int, NEW b \in Int, NEW p \in Nat \ {0}
  PROVE  /\ a <= b => a * p <= b * p
         /\ a * p < b * p => a < b
         /\ a * p \in Int
         /\ (a + 1) * p = a * p + p
         /\ (a - 1) * p = a * p - p
         /\ a >= 0 => a * p >= 0
<1>1. \A d \in Nat : d * p >= 0 /\ d * p \in Int
  BY SMT
<1>2. ASSUME NEW x \in Int, NEW y \in Int, x <= y PROVE x * p <= y * p
  <2>1. (y - x) * p >= 0
    BY <1>1, <1>2
  <2>2. (y - x) * p = y * p - x * p
    BY SMT
  <2> QED BY <2>1, <2>2
<1>3. a <= b => a * p <= b * p
  BY <1>2
<1>4. b <= a => b * p <= a * p
  BY <1>2
<1>5. a * p \in Int /\ b * p \in Int
  BY SMT
<1>6. a * p < b * p => a < b
  BY <1>4, <1>5
<1>7. (a + 1) * p = a * p + p /\ (a - 1) * p = a * p - p
  BY SMT
<1>8. a >= 0 => a * p >= 0
  BY <1>1
<1> QED BY <1>3, <1>5, <1>6, <1>7, <1>8

LEMMA DivIs ==
  ASSUME NEW n \in Int, NEW p \in Nat \ {0}, NEW q \in Int, NEW r \in 0..(p - 1),
         n = q * p + r
  PROVE  n \div p = q /\ n % p = r
<1> DEFINE d == n \div p
           m == n % p
<1>1. d \in Int /\ m \in 0..(p - 1) /\ n = d * p + m
  BY DivMod
<1> HIDE DEF d, m
<1>2. q * p \in Int /\ d * p \in Int /\ (q + 1) * p = q * p + p /\ (d + 1) * p = d * p + p
  BY <1>1, MulMono
<1>3. q * p < (d + 1) * p /\ d * p < (q + 1) * p
  BY <1>1, <1>2
<1>4. q < d + 1 /\ d < q + 1
  <2>1. q + 1 \in Int /\ d + 1 \in Int
    BY <1>1
  <2> QED BY <1>1, <1>3, <2>1, MulMono
<1>5. q = d
  BY <1>1, <1>4
<1> QED BY <1>1, <1>2, <1>5 DEF d, m

-----------------------------------------------------------------------------
(* What an int makes of a number.                                          *)
Range2 == 2 * (IntMax + 1)

LEMMA Wraps ==
  ASSUME NEW x \in Int
  PROVE  /\ Wrap(x) \in Int /\ Wrap(x) <= IntMax
         /\ x \in 0..IntMax => Wrap(x) = x
         /\ x > IntMax /\ x < Range2 => Wrap(x) = x - Range2
         /\ x < 0 /\ x >= -Range2 => Unsigned(x) = x + Range2
         /\ x < 0 /\ x >= -IntMax - 1 => Wrap(x) = x
<1> DEFINE w == Range2
<1>1. IntMax \in Nat /\ w = IntMax + IntMax + 2
  BY DevAssumption DEF Range2
<1>2. w \in Nat \ {0}
  BY <1>1
<1>3. /\ Unsigned(x) = x % w
      /\ Wrap(x) = IF x % w <= IntMax THEN x % w ELSE (x % w) - w
  BY DEF Unsigned, Wrap, Range2
<1> HIDE DEF w
<1>4. x % w \in 0..(w - 1)
  BY <1>2, DivMod
<1>5. x \in 0..(w - 1) => x % w = x
  <2>1. 0 \in Int /\ x = 0 * w + x
    BY <1>2
  <2> QED BY <1>2, <2>1, DivIs
<1>6. x \in (-w)..(-1) => x % w = x + w
  <2>1. -1 \in Int /\ x = (-1) * w + (x + w)
    BY <1>2
  <2>2. x \in (-w)..(-1) => x + w \in 0..(w - 1)
    BY <1>2
  <2> QED BY <1>2, <2>1, <2>2, DivIs
<1>7. Wrap(x) \in Int /\ Wrap(x) <= IntMax
  BY <1>1, <1>2, <1>3, <1>4
<1>8. x \in 0..IntMax => Wrap(x) = x
  BY <1>1, <1>3, <1>5
<1>9. x > IntMax /\ x < w => Wrap(x) = x - w
  BY <1>1, <1>3, <1>5
<1>10. x < 0 /\ x >= -w => Unsigned(x) = x + w
  BY <1>1, <1>3, <1>6
<1>11. x < 0 /\ x >= -IntMax - 1 => Wrap(x) = x
  BY <1>1, <1>3, <1>6
<1> QED BY <1>7, <1>8, <1>9, <1>10, <1>11 DEF w

(* Sums of ints can be wrapped as they are made.                           *)
LEMMA WrapSum ==
  ASSUME NEW x \in Int, NEW y \in Int
  PROVE  Wrap(Wrap(x) + y) = Wrap(x + y)
<1> DEFINE w == Range2
<1>1. IntMax \in Nat /\ w \in Nat \ {0}
  BY DevAssumption DEF Range2
<1>2. \A z : /\ Unsigned(z) = z % w
             /\ Wrap(z) = IF z % w <= IntMax THEN z % w ELSE (z % w) - w
  BY DEF Unsigned, Wrap, Range2
<1> HIDE DEF w
<1>3. PICK q \in Int : Wrap(x) = x + q * w
  <2> DEFINE d == x \div w
             m == x % w
  <2>1. d \in Int /\ m \in 0..(w - 1) /\ x = d * w + m
    BY <1>1, DivMod
  <2>2. Wrap(x) = m \/ Wrap(x) = m - w
    BY <1>2
  <2> HIDE DEF d, m
  <2>3. m = x + (-d) * w /\ m - w = x + (-d - 1) * w /\ -d \in Int /\ -d - 1 \in Int
    BY <1>1, <2>1
  <2> QED BY <2>2, <2>3
<1>4. \A n \in Int : (n + q * w) % w = n % w
  <2> SUFFICES ASSUME NEW n \in Int PROVE (n + q * w) % w = n % w
    OBVIOUS
  <2>1. n \div w \in Int /\ n % w \in 0..(w - 1) /\ n = (n \div w) * w + (n % w)
    BY <1>1, DivMod
  <2>2. PICK d \in Int, m \in 0..(w - 1) : d = n \div w /\ m = n % w
    BY <2>1
  <2>3. n = d * w + m
    BY <2>1, <2>2
  <2>4. n + q * w = (d + q) * w + m /\ d + q \in Int /\ n + q * w \in Int
    BY <1>1, <2>3
  <2> QED BY <1>1, <2>2, <2>4, DivIs
<1>5. Wrap(x) + y = (x + y) + q * w
  BY <1>1, <1>3
<1>6. (Wrap(x) + y) % w = (x + y) % w
  BY <1>4, <1>5
<1> QED BY <1>2, <1>6

(* Different numbers of one round are different ints.                      *)
LEMMA WrapOnce ==
  ASSUME NEW x \in 0..(Range2 - 1), NEW y \in 0..(Range2 - 1), Wrap(x) = Wrap(y)
  PROVE  x = y
<1>1. IntMax \in Nat /\ Range2 = IntMax + IntMax + 2
  BY DevAssumption DEF Range2
<1>2. /\ x <= IntMax => Wrap(x) = x
      /\ x > IntMax => Wrap(x) = x - Range2
  BY <1>1, Wraps
<1>3. /\ y <= IntMax => Wrap(y) = y
      /\ y > IntMax => Wrap(y) = y - Range2
  BY <1>1, Wraps
<1> QED BY <1>1, <1>2, <1>3

-----------------------------------------------------------------------------
(***************************************************************************)
(* The inductive invariant, from the device up.  A call for len bytes from *)
(* byte offset of sector sector is a call for the bytes from First on; it  *)
(* has got as far as Cursor, and what it delivered are bytes of that place *)
(* or of a part_read that went wrong.                                      *)
(***************************************************************************)
First(sector, offset) == sector * SectorSize + offset
Cursor == dev.sector * SectorSize + (IF dev.pc = "head" THEN dev.offset ELSE 0)

Moving == dev.pc \in {"head", "small", "body", "tail"}

Copied(from, at, end) ==
  \A k \in at..(end - 1) : buf[k] \in {from + (k - at), Garbage, Stray}

Serves(sector, offset, len, at) ==
  LET from == First(sector, offset)
  IN  /\ dev.pc # "idle"
      /\ dev.pc = "check" =>
           dev = [pc |-> "check", sector |-> sector, offset |-> offset, len |-> len,
                  to |-> at]
      /\ Moving =>
           /\ sector >= 0 /\ from >= 0 /\ from + len <= length * SectorSize
           /\ dev.to >= at /\ dev.to + dev.len = at + len
           /\ Cursor = from + (dev.to - at)
           /\ Copied(from, at, dev.to)
      /\ dev.pc = "head" => dev.offset \in 1..(SectorSize - 1)
      /\ dev.pc \in {"small", "tail"} => dev.len \in 1..(SectorSize - 1)
      /\ dev.pc = "body" => dev.len >= SectorSize
      /\ dev.pc = "ok" => sector >= 0 /\ Copied(from, at, at + len)

-----------------------------------------------------------------------------
(* What vfs_devread does with a call.                                      *)
LEMMA Sizes ==
  /\ SectorSize \in Nat \ {0} /\ IntMax \in Nat /\ BufSize \in Nat
  /\ BufSize <= IntMax
BY DevAssumption

(* A sector that holds a byte of a range that fits.                        *)
LEMMA Within ==
  ASSUME NEW s \in Int, NEW n \in Int, NEW l \in Nat,
         s * SectorSize < l * SectorSize, s * SectorSize > -SectorSize
  PROVE  s \in 0..(l - 1)
<1>1. (-1) * SectorSize = -SectorSize
  BY Sizes
<1>2. s < l /\ -1 < s
  BY <1>1, Sizes, MulMono
<1> QED BY <1>2

Kinds == dev \in [pc : DevPc, sector : Int, offset : Int, len : Nat, to : Nat]

LEMMA AskedInside ==
  ASSUME NEW s \in Int, NEW o \in Int, NEW l \in Nat, NEW at \in Nat,
         Kinds, length \in Nat, Serves(s, o, l, at)
  PROVE  InPartition
<1> DEFINE from == First(s, o)
<1>1. /\ dev.sector \in Int /\ dev.offset \in Int /\ dev.len \in Nat /\ dev.to \in Nat
      /\ SectorSize \in Nat \ {0} /\ from \in Int
  BY Sizes DEF Kinds, First
<1>2. CASE dev.pc = "head"
  <2>1. /\ from >= 0 /\ from + l <= length * SectorSize /\ dev.to >= at
        /\ dev.to + dev.len = at + l /\ dev.offset \in 1..(SectorSize - 1)
        /\ dev.sector * SectorSize + dev.offset = from + (dev.to - at)
    BY <1>2 DEF Serves, Moving, Cursor
  <2>2. dev.sector * SectorSize \in Int /\ length * SectorSize \in Int
    BY <1>1, MulMono
  <2> HIDE DEF from
  <2>3. dev.sector * SectorSize < length * SectorSize /\ dev.sector * SectorSize > -SectorSize
    BY <1>1, <2>1, <2>2
  <2>4. dev.sector \in 0..(length - 1)
    BY <1>1, <2>3, Within
  <2> QED BY <1>2, <2>4 DEF InPartition, Asked
<1>3. CASE dev.pc \in {"small", "tail"}
  <2>1. /\ from >= 0 /\ from + l <= length * SectorSize /\ dev.to >= at
        /\ dev.to + dev.len = at + l /\ dev.len \in 1..(SectorSize - 1)
        /\ dev.sector * SectorSize + 0 = from + (dev.to - at)
    BY <1>3 DEF Serves, Moving, Cursor
  <2>2. dev.sector * SectorSize \in Int /\ length * SectorSize \in Int
    BY <1>1, MulMono
  <2> HIDE DEF from
  <2>3. dev.sector * SectorSize < length * SectorSize /\ dev.sector * SectorSize > -SectorSize
    BY <1>1, <2>1, <2>2
  <2>4. dev.sector \in 0..(length - 1)
    BY <1>1, <2>3, Within
  <2> QED BY <1>3, <2>4 DEF InPartition, Asked
<1>4. CASE dev.pc = "body"
  <2>1. /\ from >= 0 /\ from + l <= length * SectorSize /\ dev.to >= at
        /\ dev.to + dev.len = at + l /\ dev.len >= SectorSize
        /\ dev.sector * SectorSize + 0 = from + (dev.to - at)
    BY <1>4 DEF Serves, Moving, Cursor
  <2> DEFINE n == dev.len \div SectorSize
             last == dev.sector + n - 1
  <2>2. /\ dev.sector * SectorSize \in Int /\ length * SectorSize \in Int
    BY <1>1, MulMono
  <2>3. n \in Int /\ n * SectorSize <= dev.len /\ n * SectorSize \in Int
    <3>0. dev.len \in Int
      BY <1>1
    <3>1. n \in Int /\ dev.len % SectorSize \in 0..(SectorSize - 1)
          /\ dev.len = n * SectorSize + (dev.len % SectorSize)
      BY ONLY <3>0, Sizes, DivMod
    <3>2. n * SectorSize \in Int
      BY <1>1, <3>1, MulMono
    <3> QED BY <1>1, <3>1, <3>2
  <2> HIDE DEF from, n
  <2>4. ASSUME NEW x \in dev.sector..last PROVE x \in 0..(length - 1)
    <3>1. /\ x \in Int /\ dev.sector <= x /\ x <= dev.sector + n - 1
          /\ dev.sector + n - 1 \in Int
      BY <1>1, <2>3
    <3>2. dev.sector * SectorSize <= x * SectorSize /\ x * SectorSize \in Int
      BY <1>1, <3>1, MulMono
    <3>3. x * SectorSize <= (dev.sector + n - 1) * SectorSize
      BY <1>1, <3>1, MulMono
    <3>4. (dev.sector + n - 1) * SectorSize = dev.sector * SectorSize + n * SectorSize - SectorSize
      BY <1>1, <2>3
    <3>5. x * SectorSize < length * SectorSize /\ x * SectorSize > -SectorSize
      BY <1>1, <2>1, <2>2, <2>3, <3>2, <3>3, <3>4
    <3> QED BY <3>1, <3>5, Within
  <2>5. Asked = dev.sector..(dev.sector + (dev.len \div SectorSize) - 1)
    BY <1>4 DEF Asked
  <2>6. Asked = dev.sector..last
    BY <2>5 DEF n
  <2> QED BY <2>4, <2>6 DEF InPartition
<1>5. CASE ~Moving
  BY <1>5 DEF InPartition, Asked, Moving
<1> QED BY <1>2, <1>3, <1>4, <1>5 DEF Moving

Bytes == [0..(BufSize - 1) -> Int]
Marked == [0..(BufSize - 1) -> Nat \cup {Unset, Garbage, Zero, Stray}]

(* What a part_read leaves in the buffer, whatever came of it.             *)
LEMMA Writes ==
  ASSUME NEW n \in Nat, NEW s \in Int, NEW o \in Int, NEW at \in Nat, buf \in Bytes,
         buf' \in Delivered(n, s, o, at) \cup {Fill(n, at, Garbage)}
  PROVE  /\ buf' \in Bytes
         /\ \A k \in 0..(BufSize - 1) :
              IF k \in at..(at + n - 1)
              THEN buf'[k] \in {First(s, o) + (k - at), Garbage, Stray}
              ELSE buf'[k] = buf[k]
         /\ First(s, o) >= 0 /\ buf \in Marked => buf' \in Marked
<1>1. s * SectorSize \in Int /\ SectorSize \in Nat
  BY Sizes, MulMono
<1>2. DOMAIN buf = 0..(BufSize - 1) /\ BufSize \in Nat
  BY Sizes DEF Bytes
<1>3. CASE buf' = Copy(n, s, o, at)
  <2>1. buf' = [k \in 0..(BufSize - 1) |->
                  IF k \in at..(at + n - 1) THEN s * SectorSize + o + (k - at) ELSE buf[k]]
    BY <1>2, <1>3 DEF Copy
  <2> QED BY <1>1, <1>2, <2>1 DEF First, Bytes, Marked, Unset, Garbage, Zero, Stray
<1>4. ASSUME NEW m \in {Garbage, Stray}, buf' = Fill(n, at, m)
      PROVE  /\ buf' \in Bytes
             /\ \A k \in 0..(BufSize - 1) :
                  IF k \in at..(at + n - 1)
                  THEN buf'[k] \in {First(s, o) + (k - at), Garbage, Stray}
                  ELSE buf'[k] = buf[k]
             /\ First(s, o) >= 0 /\ buf \in Marked => buf' \in Marked
  <2>1. buf' = [k \in 0..(BufSize - 1) |-> IF k \in at..(at + n - 1) THEN m ELSE buf[k]]
    BY <1>2, <1>4 DEF Fill
  <2> QED BY <1>4, <2>1 DEF Bytes, Marked, Unset, Garbage, Zero, Stray
<1> QED BY <1>3, <1>4 DEF Delivered

(* The call moves on over n bytes.                                         *)
LEMMA CopiedOn ==
  ASSUME NEW from \in Int, NEW at \in Nat, NEW mid \in Nat, NEW end \in Nat,
         at <= mid, mid <= end, end <= BufSize, Copied(from, at, mid),
         \A k \in 0..(BufSize - 1) :
           IF k \in mid..(end - 1)
           THEN buf'[k] \in {from + (mid - at) + (k - mid), Garbage, Stray}
           ELSE buf'[k] = buf[k]
  PROVE  Copied(from, at, end)'
<1> SUFFICES ASSUME NEW k \in at..(end - 1)
             PROVE  buf'[k] \in {from + (k - at), Garbage, Stray}
  BY DEF Copied
<1>1. k \in 0..(BufSize - 1) /\ from + (mid - at) + (k - mid) = from + (k - at)
  BY Sizes
<1>2. CASE k >= mid
  BY <1>1, <1>2
<1>3. CASE k < mid
  BY <1>1, <1>3 DEF Copied
<1> QED BY <1>2, <1>3

(* A range begins in the partition, or ends before its first sector.       *)
Boundary(s, o, l, at) ==
  /\ s <= IntMax
  /\ s >= 0 => First(s, o) >= 0 \/ (s = 0 /\ o + l <= 0 /\ o >= -IntMax)
  /\ o + l <= BufSize /\ at + l <= BufSize

(* The one check of the range (lines 40-44).                               *)
LEMMA CheckedOnce ==
  ASSUME NEW s \in Int, NEW o \in Int, NEW l \in Nat, NEW at \in Nat, length \in Nat,
         Boundary(s, o, l, at),
         ~Outside([pc |-> "check", sector |-> s, offset |-> o, len |-> l, to |-> at])
  PROVE  s >= 0 /\ First(s, o) >= 0 /\ First(s, o) + l <= length * SectorSize
<1> DEFINE x == (o + l - 1) \div SectorSize
           from == First(s, o)
<1>0. SectorSize \in Nat \ {0} /\ IntMax \in Nat /\ BufSize <= IntMax /\ BufSize \in Nat
  BY Sizes
<1>1. /\ s >= 0 /\ Wrap(s + x) >= 0 /\ ~(Wrap(s + x) >= length)
  <2>1. /\ ~(s < 0) /\ ~(Wrap(s + x) < 0) /\ ~(Wrap(s + x) >= length)
    BY DEF Outside
  <2>2. x \in Int
    BY <1>0, DivMod
  <2>3. Wrap(s + x) \in Int
    BY <2>2, Wraps
  <2> QED BY <2>1, <2>3
<1>3. x \in Int /\ x * SectorSize \in Int /\ x * SectorSize <= o + l - 1
      /\ o + l - 1 < x * SectorSize + SectorSize
  <2>1. PICK z \in Int : z = o + l - 1
    OBVIOUS
  <2>2. z \div SectorSize \in Int /\ z % SectorSize \in 0..(SectorSize - 1)
        /\ z = (z \div SectorSize) * SectorSize + (z % SectorSize)
    BY ONLY <1>0, <2>1, DivMod
  <2>3. (z \div SectorSize) * SectorSize \in Int
    BY <1>0, <2>2, MulMono
  <2> QED BY <1>0, <2>1, <2>2, <2>3
<1>2. from >= 0 /\ from \in Int /\ from = s * SectorSize + o /\ s * SectorSize \in Int
  <2>1. from = s * SectorSize + o /\ s * SectorSize \in Int
    BY <1>0, MulMono DEF First
  <2>2. ASSUME s = 0, o + l <= 0, o >= -IntMax PROVE FALSE
    <3>1. x * SectorSize < 0 * SectorSize
      BY <1>0, <1>3, <2>2
    <3>2. x < 0
      BY <1>0, <1>3, <3>1, MulMono
    <3>3. x >= -IntMax - 1
      <4>1. (x + 1) * SectorSize <= (x + 1) * 1
        <5>1. CASE x + 1 = 0
          BY <1>0, <5>1
        <5>2. CASE x + 1 < 0
          <6>1. PICK y \in Nat : y = -(x + 1)
            BY <1>3, <5>2
          <6>2. 1 * y <= SectorSize * y /\ y * SectorSize = SectorSize * y
            <7>1. y \in Nat \ {0}
              BY <1>3, <5>2, <6>1
            <7> QED BY <1>0, <7>1, MulMono
          <6>3. (x + 1) * SectorSize = -(y * SectorSize)
            BY <1>0, <1>3, <6>1
          <6>4. y * SectorSize \in Int
            BY <1>0, <6>1, MulMono
          <6> QED BY <1>3, <6>1, <6>2, <6>3, <6>4
        <5> QED BY <1>3, <3>2, <5>1, <5>2
      <4>2. (x + 1) * SectorSize = x * SectorSize + SectorSize
        BY <1>0, <1>3, MulMono
      <4> QED BY <1>0, <1>3, <2>2, <4>1, <4>2
    <3>4. Wrap(x) = x
      BY <1>0, <1>3, <3>2, <3>3, Wraps
    <3> QED BY <1>1, <1>3, <2>2, <3>2, <3>4
  <2> QED BY <1>1, <2>1, <2>2 DEF Boundary
<1> HIDE DEF x, from
<1>4. x <= IntMax
  <2>1. CASE x <= 0
    BY <1>0, <1>3, <2>1
  <2>2. CASE x > 0
    <3>1. 1 * x <= SectorSize * x /\ SectorSize * x \in Int
      BY <1>0, <1>3, <2>2, MulMono
    <3>2. SectorSize * x = x * SectorSize
      BY <1>0, <1>3
    <3> QED BY <1>0, <1>3, <3>1, <3>2 DEF Boundary
  <2> QED BY <1>3, <2>1, <2>2
<1>5. (s + x + 1) * SectorSize = s * SectorSize + x * SectorSize + SectorSize
  BY <1>0, <1>3
<1>6. from + l - 1 < (s + x + 1) * SectorSize
  BY <1>0, <1>2, <1>3, <1>5
<1>7. s + x >= -1
  <2>1. (-1) * SectorSize < (s + x + 1) * SectorSize
    BY <1>0, <1>2, <1>3, <1>5, <1>6
  <2>2. -1 < s + x + 1
    BY <1>0, <1>3, <2>1, MulMono
  <2> QED BY <1>3, <2>2
<1>8. s + x < length
  <2>1. PICK y \in Int : y = s + x
    BY <1>3
  <2>2. y < Range2 /\ Range2 \in Int /\ Range2 = IntMax + IntMax + 2
    BY <1>0, <1>3, <1>4, <2>1 DEF Range2, Boundary
  <2>3. /\ y \in 0..IntMax => Wrap(y) = y
        /\ y > IntMax /\ y < Range2 => Wrap(y) = y - Range2
        /\ y = -1 => Wrap(y) = -1
    BY <1>0, Wraps
  <2>4. Wrap(y) >= 0 /\ ~(Wrap(y) >= length) /\ y >= -1
    BY <1>1, <1>7, <2>1
  <2>5. y < length
    BY <1>0, <2>2, <2>3, <2>4
  <2> QED BY <2>1, <2>5
<1>9. (s + x + 1) * SectorSize <= length * SectorSize
  BY <1>0, <1>3, <1>8, MulMono
<1> QED BY <1>0, <1>1, <1>2, <1>3, <1>5, <1>6, <1>9 DEF from

Untouched(l, at) ==
  /\ buf' \in Bytes /\ (buf \in Marked => buf' \in Marked)
  /\ \A k \in 0..(BufSize - 1) : k \notin at..(at + l - 1) => buf'[k] = buf[k]

LEMMA PartRead ==
  ASSUME NEW s \in Int, NEW o \in Int, NEW l \in Nat, NEW at \in Nat, NEW n \in Nat,
         NEW end \in Nat, end = dev.to + n,
         Kinds, buf \in Bytes, at + l <= BufSize,
         Serves(s, o, l, at), Moving, n <= dev.len,
         buf' \in Delivered(n, dev.sector, IF dev.pc = "head" THEN dev.offset ELSE 0, dev.to)
                    \cup {Fill(n, dev.to, Garbage)}
  PROVE  Untouched(l, at) /\ Copied(First(s, o), at, end)'
<1> DEFINE from == First(s, o)
<1>1. PICK sec \in Int, off \in Int, mid \in Nat, len \in Nat :
        /\ sec = dev.sector /\ off = (IF dev.pc = "head" THEN dev.offset ELSE 0)
        /\ mid = dev.to /\ len = dev.len
  BY DEF Kinds
<1>2. from \in Int /\ sec * SectorSize \in Int /\ BufSize \in Nat
  BY Sizes, MulMono DEF First
<1>3. /\ from >= 0 /\ mid >= at /\ mid + len = at + l /\ n <= len
      /\ First(sec, off) = from + (mid - at) /\ Copied(from, at, mid)
  <2>1. /\ from >= 0 /\ dev.to >= at /\ dev.to + dev.len = at + l
        /\ Cursor = from + (dev.to - at) /\ Copied(from, at, dev.to)
    BY DEF Serves
  <2>2. First(sec, off) = Cursor
    BY <1>1 DEF First, Cursor
  <2> QED BY <1>1, <2>1, <2>2
<1>4. buf' \in Delivered(n, sec, off, mid) \cup {Fill(n, mid, Garbage)}
  BY <1>1
<1>5. /\ buf' \in Bytes
      /\ \A k \in 0..(BufSize - 1) :
           IF k \in mid..(mid + n - 1)
           THEN buf'[k] \in {First(sec, off) + (k - mid), Garbage, Stray}
           ELSE buf'[k] = buf[k]
      /\ First(sec, off) >= 0 /\ buf \in Marked => buf' \in Marked
  BY <1>4, Writes
<1> HIDE DEF from
<1>6. First(sec, off) >= 0
  BY <1>2, <1>3
<1>7. end = mid + n /\ end <= BufSize /\ mid <= end
  BY <1>1, <1>2, <1>3
<1>8. Copied(from, at, end)'
  <2>1. Copied(from, at, mid)
    BY <1>3
  <2>2. at \in Nat /\ at <= mid
    BY <1>2, <1>3
  <2>3. \A k \in 0..(BufSize - 1) :
          IF k \in mid..(end - 1)
          THEN buf'[k] \in {from + (mid - at) + (k - mid), Garbage, Stray}
          ELSE buf'[k] = buf[k]
    BY <1>3, <1>5, <1>7
  <2> QED BY <1>2, <1>7, <2>1, <2>2, <2>3, CopiedOn
<1>9. ASSUME NEW k \in 0..(BufSize - 1), k \notin at..(at + l - 1) PROVE buf'[k] = buf[k]
  <2>1. k \notin mid..(mid + n - 1)
    BY <1>1, <1>2, <1>3, <1>9
  <2> QED BY <1>5, <2>1
<1> QED BY <1>5, <1>6, <1>8, <1>9 DEF Untouched, from

LEMMA CheckServes ==
  ASSUME NEW s \in Int, NEW o \in Int, NEW l \in Nat, NEW at \in Nat,
         Kinds, buf \in Bytes, length \in Nat, length' = length,
         Boundary(s, o, l, at), Serves(s, o, l, at), Check
  PROVE  Kinds' /\ Serves(s, o, l, at)' /\ Untouched(l, at)
<1> DEFINE from == First(s, o)
<1>1. /\ dev = [pc |-> "check", sector |-> s, offset |-> o, len |-> l, to |-> at]
      /\ buf' = buf
  BY DEF Check, Serves
<1>2. Untouched(l, at)
  BY <1>1 DEF Untouched
<1>3. CASE Outside(dev)
  <2>1. dev' = [pc |-> "failed", sector |-> s, offset |-> o, len |-> l, to |-> at]
    BY <1>1, <1>3 DEF Check
  <2> QED BY <1>2, <2>1 DEF Kinds, DevPc, Serves, Moving
<1>4. CASE ~Outside(dev)
  <2>1. s >= 0 /\ from >= 0 /\ from + l <= length * SectorSize
    BY <1>1, <1>4, CheckedOnce
  <2>2. PICK q \in Int, r \in 0..(SectorSize - 1) :
          q = o \div SectorSize /\ r = o % SectorSize /\ o = q * SectorSize + r
    BY ONLY Sizes, DivMod, o \in Int
  <2>3. dev' = [pc |-> IF r # 0 THEN "head" ELSE AlignedPc(l), sector |-> s + q,
                offset |-> r, len |-> l, to |-> at]
    BY <1>1, <1>4, <2>2 DEF Check
  <2>4. First(s, o) = (s + q) * SectorSize + r /\ from \in Int /\ SectorSize \in Nat \ {0}
    BY Sizes, <2>2 DEF First
  <2>5. AlignedPc(l) \in {"ok", "small", "body"}
        /\ (AlignedPc(l) = "ok" => l = 0)
        /\ (AlignedPc(l) = "small" => l \in 1..(SectorSize - 1))
        /\ (AlignedPc(l) = "body" => l >= SectorSize)
    BY <2>4 DEF AlignedPc
  <2>6. Kinds'
    BY <2>2, <2>3, <2>4, <2>5 DEF Kinds, DevPc
  <2>7. Copied(from, at, at)' /\ (l = 0 => Copied(from, at, at + l)')
    BY DEF Copied
  <2>8. Cursor' = from + (at - at)
    BY <2>2, <2>3, <2>4, <2>5 DEF Cursor
  <2> HIDE DEF from
  <2>9. PICK p \in {"head", "ok", "small", "body"} :
          /\ p = dev'.pc
          /\ p = "head" => r # 0
          /\ p = "ok" => l = 0
          /\ p = "small" => l \in 1..(SectorSize - 1)
          /\ p = "body" => l >= SectorSize
    BY <2>3, <2>5
  <2>10. dev'.to = at /\ dev'.len = l /\ dev'.offset = r
    BY <2>3
  <2>11. Serves(s, o, l, at)'
    BY <2>1, <2>2, <2>4, <2>7, <2>8, <2>9, <2>10 DEF Serves, Moving, from
  <2> QED BY <1>2, <2>6, <2>11
<1> QED BY <1>3, <1>4

(* A part_read that failed and left the buffer alone.                      *)
LEMMA FailServes ==
  ASSUME NEW s \in Int, NEW o \in Int, NEW l \in Nat, NEW at \in Nat,
         Kinds, buf \in Bytes, buf' = buf, dev' = [dev EXCEPT !.pc = "failed"]
  PROVE  Kinds' /\ Serves(s, o, l, at)' /\ Untouched(l, at)
BY DEF Kinds, DevPc, Serves, Moving, Untouched

LEMMA HeadServes ==
  ASSUME NEW s \in Int, NEW o \in Int, NEW l \in Nat, NEW at \in Nat,
         Kinds, buf \in Bytes, length \in Nat, length' = length,
         Boundary(s, o, l, at), Serves(s, o, l, at), Head
  PROVE  Kinds' /\ Serves(s, o, l, at)' /\ Untouched(l, at)
<1> DEFINE from == First(s, o)
<1>1. PICK sec \in Int, off \in Int, mid \in Nat, len \in Nat :
        dev = [pc |-> "head", sector |-> sec, offset |-> off, len |-> len, to |-> mid]
  BY DEF Kinds, Head
<1>2. /\ s >= 0 /\ from >= 0 /\ from + l <= length * SectorSize /\ from \in Int
      /\ mid >= at /\ mid + len = at + l /\ off \in 1..(SectorSize - 1)
      /\ sec * SectorSize + off = from + (mid - at)
  BY <1>1, Sizes DEF Serves, Moving, Cursor, First
<1>3. SectorSize \in Nat \ {0}
  BY Sizes
<1>4. CASE buf' = buf /\ dev' = [dev EXCEPT !.pc = "failed"]
  BY <1>4, FailServes
<1>5. PICK n \in Nat : n = Lesser(SectorSize - off, len) /\ n <= len /\ n <= SectorSize - off
                       /\ (n = len \/ n = SectorSize - off)
  <2>1. SectorSize - off \in Nat
    BY <1>2, <1>3
  <2> QED BY <2>1 DEF Lesser
<1> HIDE DEF from
<1>6. CASE /\ buf' \in Delivered(n, dev.sector, dev.offset, dev.to)
           /\ dev' = [dev EXCEPT !.pc = AlignedPc(dev.len - n), !.sector = @ + 1,
                                 !.len = @ - n, !.to = @ + n]
  <2>1. PICK end \in Nat, rest \in Nat : end = mid + n /\ rest = len - n
    BY <1>5
  <2>2. dev' = [pc |-> AlignedPc(rest), sector |-> sec + 1, offset |-> off,
                len |-> rest, to |-> end]
    BY <1>1, <1>6, <2>1
  <2>3. Untouched(l, at) /\ Copied(from, at, end)'
    <3>1. end = dev.to + n /\ n <= dev.len /\ Moving
      BY <1>1, <1>5, <2>1 DEF Moving
    <3>2. buf' \in Delivered(n, dev.sector, IF dev.pc = "head" THEN dev.offset ELSE 0, dev.to)
                    \cup {Fill(n, dev.to, Garbage)}
      BY <1>1, <1>6
    <3>3. at + l <= BufSize
      BY DEF Boundary
    <3> QED BY <3>1, <3>2, <3>3, PartRead DEF from
  <2>4. AlignedPc(rest) \in {"ok", "small", "body"}
        /\ (AlignedPc(rest) = "ok" => rest = 0)
        /\ (AlignedPc(rest) = "small" => rest \in 1..(SectorSize - 1))
        /\ (AlignedPc(rest) = "body" => rest >= SectorSize)
    BY <1>3, <2>1 DEF AlignedPc
  <2>5. Kinds'
    BY <2>2, <2>4 DEF Kinds, DevPc
  <2>6. CASE rest = 0
    <3>1. end = at + l /\ AlignedPc(rest) = "ok"
      BY <1>2, <1>5, <2>1, <2>6 DEF AlignedPc
    <3>2. Copied(from, at, at + l)'
      BY <2>3, <3>1 DEF Copied
    <3> QED BY <1>2, <2>2, <2>3, <2>5, <3>1, <3>2 DEF Serves, Moving, from
  <2>7. CASE rest # 0
    <3>1. n = SectorSize - off
      BY <1>5, <2>1, <2>7
    <3>2. (sec + 1) * SectorSize + 0 = from + (end - at)
      <4>1. (sec + 1) * SectorSize = sec * SectorSize + SectorSize
            /\ sec * SectorSize \in Int
        BY <1>3, MulMono
      <4> QED BY <1>2, <1>3, <2>1, <3>1, <4>1
    <3>3. AlignedPc(rest) # "ok" /\ end >= at /\ end + rest = at + l
      BY <1>2, <1>5, <2>1, <2>4, <2>7
    <3>4. Cursor' = from + (end - at)
      BY <2>2, <2>4, <3>2 DEF Cursor
    <3> QED BY <1>2, <2>2, <2>3, <2>4, <2>5, <3>3, <3>4 DEF Serves, Moving, from
  <2> QED BY <2>6, <2>7
<1>7. dev.len = len /\ dev.offset = off
  BY <1>1
<1> QED BY <1>4, <1>5, <1>6, <1>7 DEF Head

LEMMA LastServes ==
  ASSUME NEW s \in Int, NEW o \in Int, NEW l \in Nat, NEW at \in Nat,
         Kinds, buf \in Bytes, length' = length,
         Boundary(s, o, l, at), Serves(s, o, l, at), Small \/ Tail
  PROVE  Kinds' /\ Serves(s, o, l, at)' /\ Untouched(l, at)
<1>1. PICK sec \in Int, off \in Int, mid \in Nat, len \in Nat, p \in {"small", "tail"} :
        dev = [pc |-> p, sector |-> sec, offset |-> off, len |-> len, to |-> mid]
  BY DEF Kinds, Small, Tail
<1>2. s >= 0 /\ mid >= at /\ mid + len = at + l
  BY <1>1 DEF Serves, Moving
<1>3. CASE buf' = buf /\ dev' = [dev EXCEPT !.pc = "failed"]
  BY <1>3, FailServes
<1>4. CASE /\ buf' \in Delivered(dev.len, dev.sector, 0, dev.to)
                       \cup {Fill(dev.len, dev.to, Garbage)}
           /\ dev' = [dev EXCEPT !.pc = "ok"]
  <2>1. PICK end \in Nat : end = at + l
    OBVIOUS
  <2>2. Untouched(l, at) /\ Copied(First(s, o), at, end)'
    <3>1. end = dev.to + dev.len /\ dev.len <= dev.len /\ Moving /\ dev.len \in Nat
      BY <1>1, <1>2, <2>1 DEF Moving
    <3>2. buf' \in Delivered(dev.len, dev.sector, IF dev.pc = "head" THEN dev.offset ELSE 0, dev.to)
                    \cup {Fill(dev.len, dev.to, Garbage)}
      BY <1>1, <1>4
    <3>3. PICK n \in Nat : n = dev.len
      BY <3>1
    <3>4. at + l <= BufSize
      BY DEF Boundary
    <3> QED BY <3>1, <3>2, <3>3, <3>4, PartRead
  <2>3. Copied(First(s, o), at, at + l)'
    BY <2>1, <2>2 DEF Copied
  <2>4. dev' = [pc |-> "ok", sector |-> sec, offset |-> off, len |-> len, to |-> mid]
    BY <1>1, <1>4
  <2> QED BY <1>2, <2>2, <2>3, <2>4 DEF Kinds, DevPc, Serves, Moving
<1> QED BY <1>3, <1>4 DEF Small, Tail

LEMMA BodyServes ==
  ASSUME NEW s \in Int, NEW o \in Int, NEW l \in Nat, NEW at \in Nat,
         Kinds, buf \in Bytes, length \in Nat, length' = length,
         Boundary(s, o, l, at), Serves(s, o, l, at), Body
  PROVE  Kinds' /\ Serves(s, o, l, at)' /\ Untouched(l, at)
<1> DEFINE from == First(s, o)
<1>1. PICK sec \in Int, off \in Int, mid \in Nat, len \in Nat :
        dev = [pc |-> "body", sector |-> sec, offset |-> off, len |-> len, to |-> mid]
  BY DEF Kinds, Body
<1>2. /\ s >= 0 /\ from >= 0 /\ from + l <= length * SectorSize /\ from \in Int
      /\ mid >= at /\ mid + len = at + l
      /\ sec * SectorSize = from + (mid - at)
  BY <1>1, Sizes DEF Serves, Moving, Cursor, First
<1>3. SectorSize \in Nat \ {0}
  BY Sizes
<1>4. PICK q \in Int, r \in 0..(SectorSize - 1) :
        q = len \div SectorSize /\ r = len % SectorSize /\ len = q * SectorSize + r
              /\ q * SectorSize \in Int /\ q >= 0
  <2>1. len \in Int /\ len >= 0
    OBVIOUS
  <2>2. /\ len \div SectorSize \in Int /\ len % SectorSize \in 0..(SectorSize - 1)
        /\ len = (len \div SectorSize) * SectorSize + (len % SectorSize)
        /\ len \div SectorSize >= 0
    BY ONLY <2>1, <1>3, DivMod
  <2>3. (len \div SectorSize) * SectorSize \in Int
    BY <1>3, <2>2, MulMono
  <2> QED BY <2>2, <2>3
<1>5. PICK n \in Nat : n = q * SectorSize
  BY <1>3, <1>4, MulMono
<1>6. len - (len % SectorSize) = n /\ n <= len /\ len - n = r
  BY <1>3, <1>4, <1>5
<1>7. n \div SectorSize = q
  <2>1. n = q * SectorSize + 0 /\ 0 \in 0..(SectorSize - 1)
    BY <1>3, <1>4, <1>5
  <2> QED BY <1>3, <1>4, <2>1, DivIs
<1>8. dev.len - (dev.len % SectorSize) = n
  BY <1>1, <1>6
<1> HIDE DEF from
<1>9. PICK end \in Nat : end = mid + n /\ end + r = at + l /\ end >= at
  BY <1>2, <1>5, <1>6
<1>10. ASSUME buf' \in Delivered(n, dev.sector, 0, dev.to) \cup {Fill(n, dev.to, Garbage)}
       PROVE  Untouched(l, at) /\ Copied(from, at, end)'
  <2>1. end = dev.to + n /\ n <= dev.len /\ Moving
    BY <1>1, <1>6, <1>9 DEF Moving
  <2>2. buf' \in Delivered(n, dev.sector, IF dev.pc = "head" THEN dev.offset ELSE 0, dev.to)
                  \cup {Fill(n, dev.to, Garbage)}
    BY <1>1, <1>10
  <2>3. at + l <= BufSize
    BY DEF Boundary
  <2> QED BY <2>1, <2>2, <2>3, PartRead DEF from
<1>11. CASE buf' = Fill(n, dev.to, Garbage) /\ dev' = [dev EXCEPT !.pc = "failed"]
  <2>1. Untouched(l, at)
    BY <1>10, <1>11
  <2>2. dev' = [pc |-> "failed", sector |-> sec, offset |-> off, len |-> len, to |-> mid]
    BY <1>1, <1>11
  <2> QED BY <2>1, <2>2 DEF Kinds, DevPc, Serves, Moving
<1>12. CASE /\ buf' \in Delivered(n, dev.sector, 0, dev.to)
            /\ dev' = [dev EXCEPT !.pc = IF dev.len = n THEN "ok" ELSE "tail",
                                  !.sector = @ + (n \div SectorSize),
                                  !.len = @ - n, !.to = @ + n]
  <2>1. dev' = [pc |-> IF r = 0 THEN "ok" ELSE "tail", sector |-> sec + q,
                offset |-> off, len |-> r, to |-> end]
    <3>1. dev' = [pc |-> IF len = n THEN "ok" ELSE "tail", sector |-> sec + (n \div SectorSize),
                  offset |-> off, len |-> len - n, to |-> mid + n]
      BY <1>1, <1>12
    <3>2. len = n <=> r = 0
      BY <1>3, <1>4, <1>5
    <3> QED BY <1>6, <1>7, <1>9, <3>1, <3>2
  <2>2. Untouched(l, at) /\ Copied(from, at, end)'
    BY <1>10, <1>12
  <2>3. Kinds'
    BY <1>3, <2>1 DEF Kinds, DevPc
  <2>4. CASE r = 0
    <3>1. end = at + l
      BY <1>9, <2>4
    <3>2. Copied(from, at, at + l)'
      BY <2>2, <3>1 DEF Copied
    <3> QED BY <1>2, <2>1, <2>2, <2>3, <2>4, <3>2 DEF Serves, Moving, from
  <2>5. CASE r # 0
    <3>1. (sec + q) * SectorSize + 0 = from + (end - at)
      <4>1. (sec + q) * SectorSize = sec * SectorSize + q * SectorSize
        BY <1>3, <1>4
      <4> QED BY <1>2, <1>3, <1>4, <1>5, <1>9, <4>1
    <3>2. Cursor' = from + (end - at)
      BY <2>1, <2>5, <3>1 DEF Cursor
    <3>3. dev'.pc = "tail" /\ dev'.to = end /\ dev'.len = r /\ r \in 1..(SectorSize - 1)
      BY <1>3, <2>1, <2>5
    <3> QED BY <1>2, <1>9, <2>2, <2>3, <3>2, <3>3 DEF Serves, Moving, from
  <2> QED BY <2>4, <2>5
<1> QED BY <1>8, <1>11, <1>12 DEF Body

(***************************************************************************)
(* Every step of vfs_devread moves the call on, and writes nothing but the *)
(* bytes it was called for.                                                *)
(***************************************************************************)
LEMMA DevStepServes ==
  ASSUME NEW s \in Int, NEW o \in Int, NEW l \in Nat, NEW at \in Nat,
         Kinds, buf \in Bytes, length \in Nat, length' = length,
         Boundary(s, o, l, at), Serves(s, o, l, at), DevStep
  PROVE  Kinds' /\ Serves(s, o, l, at)' /\ Untouched(l, at)
<1>1. CASE Check
  BY <1>1, CheckServes
<1>2. CASE Head
  BY <1>2, HeadServes
<1>3. CASE Small \/ Tail
  BY <1>3, LastServes
<1>4. CASE Body
  BY <1>4, BodyServes
<1> QED BY <1>1, <1>2, <1>3, <1>4 DEF DevStep

-----------------------------------------------------------------------------
(***************************************************************************)
(* The loop.  Block b of the file begins at Begin(b) of the buffer, and    *)
(* Before(b) bytes of the request lie before it; the run goes from some    *)
(* block up to block i, through blocks that follow each other.             *)
(***************************************************************************)
SkipOf(b) == IF b = FirstBlock THEN req.pos % BlockSize ELSE 0
Begin(b) == b * BlockSize + SkipOf(b) - req.pos
Before(b) == Lesser(b * BlockSize, req.pos + req.len) - req.pos

AtBlock ==
  IF pc = "idle" THEN to = 0
  ELSE /\ i \in FirstBlock..BlockCnt /\ to = Begin(i)
       /\ pc = "place" \/ (pc = "spill" /\ i < BlockCnt) =>
            i < BlockCnt /\ blknr = Wrap(map[i] * SectorsPerBlock)

RunFrom(a) ==
  /\ a < i /\ map[a] # 0
  /\ run.start = Wrap(map[a] * SectorsPerBlock)
  /\ run.skip = SkipOf(a) /\ run.to = Begin(a)
  /\ run.extent = Before(i) - Begin(a)
  /\ \A b \in a..(i - 1) : map[b] = map[a] + (b - a)
  /\ i < BlockCnt =>
       run.next = Wrap(map[i - 1] * SectorsPerBlock
                         + (BlockSize - SkipOf(i - 1)) \div SectorSize)

RunOK ==
  /\ pc = "idle" => run = NoRun
  /\ run # NoRun => \E a \in FirstBlock..BlockCnt : RunFrom(a)

Blank == \A k \in DOMAIN buf : buf[k] = Unset

(* The bytes up to here have been delivered, or belong to the run.         *)
Front == IF run = NoRun THEN to ELSE run.to

BufOK ==
  /\ pc \in {"map", "place", "spill"} =>
       \A k \in 0..(Front - 1) :
         k < req.len => buf[k] \in {FileByte(req.pos + k), Garbage, Stray}
  /\ OverrunOnlyByHole

DevOK ==
  /\ pc = "spill" =>
       run # NoRun /\ Serves(run.start, run.skip, run.extent, run.to)
  /\ pc \in {"map", "place", "done"} => dev = DevIdle

ReadOK == AtBlock /\ RunOK /\ BufOK /\ DevOK

-----------------------------------------------------------------------------
(* The blocks of a request.                                                *)
Asks == req \in [pos : 0..MaxPos, len : 0..MaxLen]

LEMMA BlockSizes ==
  /\ BlockSize \in Nat \ {0} /\ SectorsPerBlock \in Nat \ {0}
  /\ SectorSize \in Nat \ {0} /\ BlockSize = SectorsPerBlock * SectorSize
  /\ BufSize \in Nat /\ MaxLen \in Nat /\ MaxPos \in Nat /\ Blocks \in Nat
  /\ MaxLen + BlockSize <= BufSize /\ MaxPos + MaxLen <= Blocks * BlockSize
<1>1. /\ SectorsPerBlock \in Nat \ {0} /\ SectorSize \in Nat \ {0}
      /\ BlockSize = SectorsPerBlock * SectorSize
  BY DevAssumption, FileAssumption DEF BlockSize
<1>2. SectorsPerBlock * SectorSize \in Nat \ {0}
  <2>1. 1 * SectorSize <= SectorsPerBlock * SectorSize /\ SectorsPerBlock * SectorSize \in Int
    BY <1>1, MulMono
  <2> QED BY <1>1, <2>1
<1> QED BY <1>1, <1>2, DevAssumption, FileAssumption

LEMMA BlocksOf ==
  ASSUME Asks
  PROVE  /\ FirstBlock \in Nat /\ BlockCnt \in Nat
         /\ FirstBlock <= BlockCnt /\ BlockCnt <= Blocks
         /\ req.pos % BlockSize \in 0..(BlockSize - 1)
         /\ req.pos = FirstBlock * BlockSize + (req.pos % BlockSize)
         /\ FirstBlock * BlockSize \in Nat /\ BlockCnt * BlockSize \in Nat
         /\ req.pos + req.len <= BlockCnt * BlockSize
         /\ BlockCnt * BlockSize - BlockSize < req.pos + req.len
<1>1. PICK pos \in Nat, len \in Nat :
        /\ pos = req.pos /\ len = req.len /\ pos <= MaxPos /\ len <= MaxLen
  BY BlockSizes DEF Asks
<1>2. PICK w \in Nat \ {0} : w = BlockSize
  BY BlockSizes
<1>3. PICK f \in Int : f = pos \div w /\ f >= 0 /\ pos % w \in 0..(w - 1)
                      /\ pos = f * w + (pos % w) /\ f * w \in Nat
  <2>1. pos \in Int /\ pos >= 0
    OBVIOUS
  <2>2. /\ pos \div w \in Int /\ pos % w \in 0..(w - 1)
        /\ pos = (pos \div w) * w + (pos % w) /\ pos \div w >= 0
    BY ONLY <2>1, w \in Nat \ {0}, DivMod
  <2>3. (pos \div w) * w \in Int /\ (pos \div w) * w >= 0
    BY <2>2, MulMono
  <2> QED BY <2>2, <2>3
<1>4. PICK c \in Int : c = (len + pos + w - 1) \div w /\ c * w \in Int
                       /\ c * w <= len + pos + w - 1 /\ len + pos + w - 1 < c * w + w
                       /\ c >= 0 /\ c * w >= 0
  <2>1. PICK z \in Nat : z = len + pos + w - 1
    OBVIOUS
  <2>2. z \in Int /\ z >= 0
    OBVIOUS
  <2>3. /\ z \div w \in Int /\ z % w \in 0..(w - 1)
        /\ z = (z \div w) * w + (z % w) /\ z \div w >= 0
    BY ONLY <2>2, w \in Nat \ {0}, DivMod
  <2>4. (z \div w) * w \in Int /\ (z \div w) * w >= 0
    BY <2>3, MulMono
  <2>5. z \div w = (len + pos + w - 1) \div w
    BY <2>1
  <2> QED BY <2>1, <2>3, <2>4, <2>5
<1>5. f <= c
  <2>1. (c + 1) * w = c * w + w
    BY <1>4
  <2>2. f * w < (c + 1) * w
    BY <1>3, <1>4, <2>1
  <2>3. f < c + 1
    BY <1>3, <1>4, <2>2, MulMono
  <2> QED BY <1>3, <1>4, <2>3
<1>6. c <= Blocks
  <2>1. (c - 1) * w = c * w - w /\ Blocks * w \in Int
    BY <1>4, BlockSizes, MulMono
  <2>2. (c - 1) * w < Blocks * w
    BY <1>1, <1>2, <1>4, <2>1, BlockSizes
  <2>3. c - 1 < Blocks
    BY <1>4, <2>2, BlockSizes, MulMono
  <2> QED BY <1>4, <2>3, BlockSizes
<1>7. FirstBlock = f /\ BlockCnt = c /\ req.pos % BlockSize = pos % w
  BY <1>1, <1>2, <1>3, <1>4 DEF FirstBlock, BlockCnt
<1>8. /\ req.pos = f * w + (req.pos % BlockSize) /\ req.pos % BlockSize \in 0..(w - 1)
      /\ req.pos + req.len <= c * w /\ c * w - w < req.pos + req.len
      /\ f * w \in Nat /\ c * w \in Nat
  <2>1. PICK fw \in Nat, cw \in Nat :
          /\ fw = f * w /\ cw = c * w /\ pos = fw + (pos % w)
          /\ cw <= len + pos + w - 1 /\ len + pos + w - 1 < cw + w
    BY <1>3, <1>4
  <2>2. pos + len <= cw /\ cw - w < pos + len
    BY <2>1
  <2> QED BY <1>1, <1>3, <1>7, <2>1, <2>2
<1> QED BY <1>2, <1>3, <1>4, <1>5, <1>6, <1>7, <1>8

LEMMA Multiples ==
  ASSUME NEW b \in Int
  PROVE  /\ b * BlockSize \in Int
         /\ (b + 1) * BlockSize = b * BlockSize + BlockSize
         /\ (b - 1) * BlockSize = b * BlockSize - BlockSize
         /\ \A c \in Int : b <= c => b * BlockSize <= c * BlockSize
<1>1. PICK w \in Nat \ {0} : w = BlockSize
  BY BlockSizes
<1>2. /\ b * w \in Int /\ (b + 1) * w = b * w + w /\ (b - 1) * w = b * w - w
      /\ \A c \in Int : b <= c => b * w <= c * w
  BY MulMono
<1> QED BY <1>1, <1>2

LEMMA Begins ==
  ASSUME Asks, NEW b \in FirstBlock..BlockCnt
  PROVE  /\ SkipOf(b) \in 0..(BlockSize - 1)
         /\ Begin(b) \in 0..BufSize
         /\ b = FirstBlock => Begin(b) = 0
         /\ b > FirstBlock => SkipOf(b) = 0 /\ Begin(b) = b * BlockSize - req.pos
         /\ req.pos + Begin(b) = b * BlockSize + SkipOf(b)
         /\ b < BlockCnt => Begin(b) <= req.len
         /\ b < BlockCnt => Begin(b + 1) = Begin(b) + (BlockSize - SkipOf(b))
         /\ b = BlockCnt => Begin(b) >= req.len
<1>1. PICK pos \in Nat, len \in Nat :
        /\ pos = req.pos /\ len = req.len /\ pos <= MaxPos /\ len <= MaxLen
  BY BlockSizes DEF Asks
<1>2. PICK w \in Nat \ {0}, f \in Nat, c \in Nat, sk \in Nat :
        /\ w = BlockSize /\ f = FirstBlock /\ c = BlockCnt /\ sk = req.pos % BlockSize
  <2>1. BlockSize \in Nat \ {0} /\ FirstBlock \in Nat /\ BlockCnt \in Nat
    BY BlocksOf, BlockSizes
  <2>2. req.pos % BlockSize \in Nat
    BY <2>1, BlocksOf
  <2> QED BY <2>1, <2>2
<1>3. /\ f <= c /\ sk < w /\ pos = f * w + sk /\ f * w \in Nat /\ c * w \in Nat
      /\ pos + len <= c * w /\ c * w - w < pos + len
  BY <1>1, <1>2, BlocksOf
<1>4. /\ b \in Int /\ f <= b /\ b <= c /\ b * w \in Int /\ (b + 1) * w = b * w + w
      /\ f * w <= b * w /\ b * w <= c * w
      /\ (b > f => f * w + w <= b * w)
      /\ (b < c => b * w + w <= c * w)
  <2>1. b \in Int /\ f <= b /\ b <= c
    BY <1>2
  <2>2. /\ b * w \in Int /\ (b + 1) * w = b * w + w /\ (f + 1) * w = f * w + w
        /\ f * w <= b * w /\ b * w <= c * w
        /\ (f + 1 <= b => (f + 1) * w <= b * w)
        /\ (b + 1 <= c => (b + 1) * w <= c * w)
    BY <2>1, MulMono
  <2> QED BY <2>1, <2>2
<1>5. PICK fw \in Int, bw \in Int, cw \in Int, nw \in Int :
        /\ fw = f * w /\ bw = b * w /\ cw = c * w /\ nw = (b + 1) * w
        /\ pos = fw + sk /\ pos + len <= cw /\ cw - w < pos + len
        /\ nw = bw + w /\ fw <= bw /\ bw <= cw
        /\ (b > f => fw + w <= bw) /\ (b < c => bw + w <= cw)
  <2>1. f * w \in Int /\ b * w \in Int /\ c * w \in Int /\ (b + 1) * w \in Int
    BY <1>3, <1>4
  <2> QED BY <1>3, <1>4, <2>1
<1>6. PICK s0 \in Nat, b0 \in Int, b1 \in Int :
        /\ s0 = SkipOf(b) /\ b0 = Begin(b) /\ b1 = Begin(b + 1)
        /\ s0 = (IF b = f THEN sk ELSE 0) /\ b0 = bw + s0 - pos /\ b1 = nw - pos
  <2>1. SkipOf(b) = (IF b = f THEN sk ELSE 0) /\ Begin(b) = bw + SkipOf(b) - pos
    BY <1>1, <1>2, <1>5 DEF SkipOf, Begin
  <2>2. b + 1 # f
    BY <1>4
  <2>3. SkipOf(b + 1) = 0 /\ Begin(b + 1) = nw + SkipOf(b + 1) - pos
    BY <1>1, <1>2, <1>5, <2>2 DEF SkipOf, Begin
  <2>4. SkipOf(b) \in Nat /\ Begin(b) \in Int /\ Begin(b + 1) \in Int
    BY <2>1, <2>3
  <2>5. Begin(b + 1) = nw - pos
    BY <2>3
  <2> QED BY <2>1, <2>4, <2>5
<1>7. w + MaxLen <= BufSize /\ MaxLen \in Nat /\ BufSize \in Nat
  BY <1>2, BlockSizes
<1>8. /\ s0 \in 0..(w - 1)
      /\ b0 \in 0..BufSize
      /\ b = f => b0 = 0
      /\ b > f => s0 = 0 /\ b0 = bw - pos
      /\ pos + b0 = bw + s0
      /\ b < c => b0 <= len
      /\ b < c => b1 = b0 + (w - s0)
      /\ b = c => b0 >= len
  <2>1. CASE b = f
    BY <1>1, <1>3, <1>4, <1>5, <1>6, <1>7, <2>1
  <2>2. CASE b > f
    BY <1>1, <1>3, <1>4, <1>5, <1>6, <1>7, <2>2
  <2> QED BY <1>4, <2>1, <2>2
<1> QED BY <1>1, <1>2, <1>5, <1>6, <1>8

LEMMA Befores ==
  ASSUME Asks, NEW b \in FirstBlock..BlockCnt
  PROVE  /\ Before(b) \in Int /\ Before(b) <= req.len
         /\ b > FirstBlock /\ b < BlockCnt => Before(b) = Begin(b)
         /\ b < BlockCnt => Before(b) = b * BlockSize - req.pos
         /\ b = BlockCnt => Before(b) = req.len
<1>1. PICK pos \in Nat, len \in Nat : pos = req.pos /\ len = req.len
  BY BlockSizes DEF Asks
<1>2. /\ BlockSize \in Nat \ {0} /\ FirstBlock \in Nat /\ BlockCnt \in Nat
      /\ BlockCnt * BlockSize \in Nat /\ pos + len <= BlockCnt * BlockSize
      /\ BlockCnt * BlockSize - BlockSize < pos + len
  BY <1>1, BlocksOf, BlockSizes
<1>3. /\ b \in Int /\ b * BlockSize \in Int
      /\ b < BlockCnt => b * BlockSize + BlockSize <= BlockCnt * BlockSize
  <2>1. b \in Int
    BY <1>2
  <2>2. /\ b * BlockSize \in Int /\ (b + 1) * BlockSize = b * BlockSize + BlockSize
        /\ (b + 1 <= BlockCnt => (b + 1) * BlockSize <= BlockCnt * BlockSize)
    BY <1>2, <2>1, MulMono
  <2> QED BY <1>2, <2>1, <2>2
<1>4. PICK bw \in Int, cw \in Int, w \in Nat :
        bw = b * BlockSize /\ cw = BlockCnt * BlockSize /\ w = BlockSize
  BY <1>2, <1>3
<1>5. Before(b) = (IF bw <= pos + len THEN bw ELSE pos + len) - pos
  BY <1>1, <1>4 DEF Before, Lesser
<1>6. b < BlockCnt => bw <= pos + len
  BY <1>2, <1>3, <1>4
<1>7. b = BlockCnt => bw = cw /\ bw >= pos + len
  BY <1>2, <1>3, <1>4
<1>8. /\ Before(b) \in Int /\ Before(b) <= len
      /\ b < BlockCnt => Before(b) = bw - pos
      /\ b = BlockCnt => Before(b) = len
  BY <1>5, <1>6, <1>7
<1>9. b > FirstBlock => Begin(b) = bw - pos
  BY <1>1, <1>4, Begins
<1> QED BY <1>1, <1>4, <1>8, <1>9

LEMMA EndOfBlock ==
  ASSUME Asks, i \in FirstBlock..BlockCnt, i < BlockCnt
  PROVE  /\ SkipFirst = SkipOf(i)
         /\ BlockEnd = Before(i + 1) - Begin(i)
         /\ BlockEnd \in Nat
         /\ i + 1 < BlockCnt => BlockEnd = BlockSize - SkipOf(i)
<1>1. PICK total \in Nat : total = req.len + req.pos
  BY BlockSizes DEF Asks
<1>2. PICK w \in Nat \ {0}, c \in Nat, f \in Nat :
        w = BlockSize /\ c = BlockCnt /\ f = FirstBlock
  BY BlocksOf, BlockSizes
<1>3. SkipFirst = SkipOf(i)
  BY DEF SkipFirst, SkipOf
<1>4. PICK s0 \in 0..(w - 1), b0 \in Nat, b1 \in Int :
        /\ s0 = SkipOf(i) /\ b0 = Begin(i) /\ b1 = Begin(i + 1)
        /\ b1 = b0 + (w - s0) /\ b0 <= req.len
  <2>1. /\ SkipOf(i) \in 0..(BlockSize - 1) /\ Begin(i) \in 0..BufSize /\ Begin(i) <= req.len
        /\ Begin(i + 1) = Begin(i) + (BlockSize - SkipOf(i))
    BY Begins
  <2>2. Begin(i + 1) \in Int /\ Begin(i) \in Nat
    BY <1>2, <2>1, BlockSizes
  <2> QED BY <1>2, <2>1, <2>2
<1>5. PICK len \in Nat : len = req.len
  BY BlockSizes DEF Asks
<1>6. i \in Nat /\ i + 1 \in FirstBlock..BlockCnt /\ i + 1 > FirstBlock
  BY <1>2
<1>7. /\ i + 1 < c => Before(i + 1) = b1
      /\ i + 1 = c => Before(i + 1) = len
  BY <1>2, <1>4, <1>5, <1>6, Befores
<1>8. BlockEnd = (IF i = c - 1 /\ total % w # 0 THEN total % w ELSE w) - s0
  BY <1>1, <1>2, <1>3, <1>4 DEF BlockEnd
<1>9. CASE i + 1 < c
  <2>1. BlockEnd = w - s0
    BY <1>2, <1>6, <1>8, <1>9
  <2> QED BY <1>2, <1>3, <1>4, <1>7, <1>9, <2>1
<1>10. CASE i + 1 = c
  <2>1. PICK cw \in Int, bw \in Int :
          /\ cw = c * w /\ bw = i * w /\ cw = bw + w /\ total <= cw /\ cw - w < total
          /\ req.pos + b0 = bw + s0
    <3>1. c * w \in Int /\ i * w \in Int /\ (i + 1) * w = i * w + w
      BY <1>6, MulMono
    <3>2. req.pos + req.len <= c * w /\ c * w - w < req.pos + req.len
      BY <1>2, BlocksOf
    <3>3. req.pos + b0 = i * w + s0
      BY <1>2, <1>4, Begins
    <3>4. req.pos + req.len = total
      BY <1>1, <1>5, BlockSizes DEF Asks
    <3> QED BY <1>1, <1>2, <1>10, <3>1, <3>2, <3>3, <3>4
  <2>2. total = len + req.pos /\ req.pos \in Nat
    BY <1>1, <1>5, BlockSizes DEF Asks
  <2>3. CASE total = cw
    <3>1. total % w = 0
      <4>1. total = c * w + 0 /\ 0 \in 0..(w - 1)
        BY <2>1, <2>3
      <4> QED BY <4>1, DivIs
    <3>2. BlockEnd = w - s0
      BY <1>8, <3>1
    <3>3. len - b0 = w - s0
      BY <1>4, <2>1, <2>2, <2>3
    <3> QED BY <1>2, <1>3, <1>4, <1>7, <1>10, <3>2, <3>3
  <2>4. CASE total # cw
    <3>1. total - bw \in 1..(w - 1)
      BY <2>1, <2>4
    <3>2. total % w = total - bw
      <4>1. total - bw \in 0..(w - 1)
        BY <3>1
      <4>2. PICK r \in 0..(w - 1) : r = total - bw
        BY <4>1
      <4>3. total = bw + r
        BY <4>2
      <4>4. total = i * w + r
        BY <2>1, <4>3
      <4>5. i \in Int /\ w \in Nat \ {0} /\ total \in Int
        BY <1>6
      <4>6. total % w = r
        BY <4>4, <4>5, DivIs
      <4> QED BY <4>2, <4>6
    <3>3. BlockEnd = (total - bw) - s0
      BY <1>2, <1>6, <1>8, <1>10, <3>1, <3>2
    <3>4. len - b0 = (total - bw) - s0
      <4>1. PICK pos \in Nat : pos = req.pos
        BY <2>2
      <4>2. pos + b0 = bw + s0 /\ total = len + pos /\ s0 \in Nat
        BY <1>4, <2>1, <2>2, <4>1
      <4> QED BY <4>2
    <3>5. len - b0 \in Nat
      BY <1>4, <1>5
    <3> QED BY <1>2, <1>3, <1>4, <1>7, <1>10, <3>3, <3>4, <3>5
  <2> QED BY <2>3, <2>4
<1> QED BY <1>2, <1>6, <1>9, <1>10

LEMMA MapBounds ==
  ASSUME map \in Maps, NEW b \in 0..(Blocks - 1)
  PROVE  /\ map[b] \in Nat /\ map[b] * SectorsPerBlock \in Nat
         /\ map[b] * SectorsPerBlock + SectorsPerBlock <= Range2
         /\ map[b] = 0 <=> Wrap(map[b] * SectorsPerBlock) = 0
         /\ map[b] * SectorsPerBlock \in 0..(Range2 - 1)
<1>1. SectorsPerBlock \in Nat \ {0} /\ IntMax \in Nat /\ Range2 = IntMax + IntMax + 2
  BY BlockSizes, Sizes DEF Range2
<1>2. PICK m \in Nat : m = map[b]
  BY FileAssumption
<1>3. (m + 1) * SectorsPerBlock <= Range2
  BY <1>2, MapsAssumption DEF Range2
<1>4. PICK x \in Nat : x = m * SectorsPerBlock /\ (m + 1) * SectorsPerBlock = x + SectorsPerBlock
  BY <1>1, <1>2, MulMono
<1>5. x + SectorsPerBlock <= Range2 /\ x \in 0..(Range2 - 1)
  BY <1>1, <1>3, <1>4
<1>6. m = 0 <=> x = 0
  <2>1. 0 * SectorsPerBlock = 0
    BY <1>1
  <2>2. m >= 1 => 1 * SectorsPerBlock <= m * SectorsPerBlock
    BY <1>1, MulMono
  <2> QED BY <1>1, <1>4, <2>1, <2>2
<1>7. x = 0 <=> Wrap(x) = 0
  <2>1. x \in 0..IntMax => Wrap(x) = x
    BY Wraps
  <2>2. x > IntMax => Wrap(x) = x - Range2
    BY <1>1, <1>5, Wraps
  <2> QED BY <1>1, <1>5, <2>1, <2>2
<1> QED BY <1>2, <1>4, <1>5, <1>6, <1>7

(* The sector of a block that is an int at all.                            *)
LEMMA WholeSector ==
  ASSUME map \in Maps, NEW b \in 0..(Blocks - 1), Wrap(map[b] * SectorsPerBlock) >= 0
  PROVE  Wrap(map[b] * SectorsPerBlock) * SectorSize = map[b] * BlockSize
<1>1. PICK m \in Nat, x \in 0..(Range2 - 1) : m = map[b] /\ x = m * SectorsPerBlock
  BY MapBounds
<1>2. IntMax \in Nat /\ Range2 = IntMax + IntMax + 2
  BY Sizes DEF Range2
<1>3. x > IntMax => Wrap(x) = x - Range2
  BY <1>2, Wraps
<1>4. x \in 0..IntMax
  BY <1>1, <1>2, <1>3
<1>5. Wrap(x) = x
  BY <1>2, <1>4, Wraps
<1>6. (m * SectorsPerBlock) * SectorSize = m * (SectorsPerBlock * SectorSize)
  BY BlockSizes
<1>7. x * SectorSize = m * BlockSize
  BY <1>1, <1>6, BlockSizes
<1> QED BY <1>1, <1>5, <1>7

LEMMA RunBytes ==
  ASSUME Asks, map \in Maps, i \in FirstBlock..BlockCnt, NEW a \in FirstBlock..BlockCnt,
         RunFrom(a), run.start >= 0, run.extent \in Nat,
         NEW k \in 0..(run.extent - 1)
  PROVE  First(run.start, run.skip) + k = FileByte(req.pos + run.to + k)
<1>1. /\ a < i /\ map[a] # 0 /\ run.start = Wrap(map[a] * SectorsPerBlock)
      /\ run.skip = SkipOf(a) /\ run.to = Begin(a) /\ run.extent = Before(i) - Begin(a)
      /\ \A b \in a..(i - 1) : map[b] = map[a] + (b - a)
  BY DEF RunFrom
<1>2. PICK w \in Nat \ {0}, aw \in Int, iw \in Int, pos \in Nat, s0 \in Nat, b0 \in Nat :
        /\ w = BlockSize /\ aw = a * w /\ iw = i * w /\ pos = req.pos
        /\ s0 = SkipOf(a) /\ b0 = Begin(a) /\ pos + b0 = aw + s0
  <2>1. BlockSize \in Nat \ {0} /\ a * BlockSize \in Int /\ i * BlockSize \in Int /\ req.pos \in Nat
    BY BlockSizes, BlocksOf, MulMono DEF Asks
  <2>2. SkipOf(a) \in Nat /\ Begin(a) \in Nat /\ req.pos + Begin(a) = a * BlockSize + SkipOf(a)
    BY <2>1, Begins, BlockSizes
  <2> QED BY <2>1, <2>2
<1>3. PICK x \in Nat : x = pos + b0 + k
  BY <1>2
<1>4. Before(i) \in Int /\ Before(i) <= iw - pos
  <2>1. Before(i) = Lesser(iw, pos + req.len) - pos /\ req.len \in Nat
    BY <1>2, BlockSizes DEF Before, Asks
  <2> QED BY <2>1 DEF Lesser
<1>5. x < iw /\ x = aw + (s0 + k) /\ k \in Nat
  BY <1>1, <1>2, <1>3, <1>4
<1>6. PICK b \in Int, r \in 0..(w - 1) : b = x \div w /\ r = x % w /\ x = b * w + r
  BY ONLY x \in Nat, w \in Nat \ {0}, DivMod
<1>7. a \in Nat /\ i \in Nat /\ i <= Blocks /\ Blocks \in Nat
  BY BlocksOf, BlockSizes
<1>8. b \in a..(i - 1)
  <2>1. PICK bw \in Int : bw = b * w /\ (b + 1) * w = bw + w
    BY <1>6, MulMono
  <2>2. bw < iw /\ aw < bw + w
    <3>1. x = bw + r
      BY <1>6, <2>1
    <3> QED BY <1>5, <3>1
  <2>3. b < i
    BY <1>2, <1>7, <2>1, <2>2, MulMono
  <2>4. a < b + 1
    BY <1>2, <1>7, <2>1, <2>2, MulMono
  <2> QED BY <1>6, <1>7, <2>3, <2>4
<1>9. PICK m \in Nat : m = map[a] /\ m # 0
  <2>1. a \in 0..(Blocks - 1)
    BY <1>1, <1>7
  <2> QED BY <1>1, <2>1, MapBounds
<1>10. map[b] = m + (b - a) /\ map[b] # 0
  BY <1>1, <1>7, <1>8, <1>9
<1>11. FileByte(x) = (m + (b - a)) * w + r
  BY <1>2, <1>6, <1>10 DEF FileByte
<1>12. (m + (b - a)) * w + r = m * w + x - aw
  <2>1. (m + (b - a)) * w = m * w + b * w - a * w
    BY <1>6, <1>7
  <2> QED BY <1>2, <1>6, <1>7, <2>1
<1>13. run.start * SectorSize = m * w
  <2>1. a \in 0..(Blocks - 1)
    BY <1>1, <1>7
  <2> QED BY <1>1, <1>2, <1>9, <2>1, WholeSector
<1>14. First(run.start, run.skip) + k = m * w + s0 + k
  BY <1>1, <1>2, <1>13 DEF First
<1>15. m * w + x - aw = m * w + s0 + k /\ m * w \in Int
  BY <1>2, <1>5
<1>16. req.pos + run.to + k = x
  BY <1>1, <1>2, <1>3
<1> QED BY <1>11, <1>12, <1>14, <1>15, <1>16

-----------------------------------------------------------------------------
(* The loop of ext4fs_read_file, for an inode that is open.                *)
LoopTyped ==
  /\ length \in PartLengths /\ Kinds /\ buf \in Marked
  /\ map \in Maps /\ filesize \in FileSizes
  /\ pc \in {"idle", "map", "place", "spill", "done"}
  /\ Asks /\ req.len <= filesize
  /\ i \in 0..Blocks /\ blknr \in Int /\ to \in 0..BufSize
  /\ run = NoRun \/ run \in [start : Int, extent : Nat, skip : 0..(BlockSize - 1),
                             next : Int, to : 0..BufSize]
  /\ result \in -1..MaxLen

IdleOK == pc = "idle" => dev = DevIdle /\ Blank

LoopOK == LoopTyped /\ ReadOK /\ IdleOK

LEMMA Wholes ==
  /\ length \in PartLengths => length \in Nat
  /\ filesize \in FileSizes => filesize \in Nat
  /\ map \in Maps => map \in [0..(Blocks - 1) -> Nat]
BY DevAssumption, FileAssumption

BlocksFit ==
  /\ FirstBlock \in Nat /\ BlockCnt \in Nat
  /\ FirstBlock <= BlockCnt /\ BlockCnt <= Blocks
  /\ Begin(FirstBlock) = 0

(* The blocks of the request a step leaves.                                *)
LEMMA NextBlocks == Asks' => BlocksFit'
<1>1. Asks => BlocksFit
  BY BlocksOf, Begins DEF BlocksFit
<1> QED BY <1>1, PTL

LEMMA ReadKeeps ==
  ASSUME LoopOK, NEW pos \in 0..MaxPos, NEW len \in 0..MaxLen, Read(pos, len)
  PROVE  LoopOK'
<1>1. /\ pc = "idle" /\ pc' = "map" /\ i' = pos \div BlockSize
      /\ req' = [pos |-> pos, len |-> Lesser(len, filesize)]
      /\ dev' = dev /\ buf' = buf /\ length' = length /\ map' = map
      /\ filesize' = filesize /\ blknr' = blknr /\ to' = to /\ run' = run
      /\ result' = result
  BY DEF Read
<1>2. /\ dev = DevIdle /\ Blank /\ run = NoRun /\ to = 0 /\ filesize \in Nat
  BY <1>1, Wholes DEF LoopOK, LoopTyped, ReadOK, IdleOK, RunOK, AtBlock
<1>3. Lesser(len, filesize) \in 0..MaxLen /\ Lesser(len, filesize) <= filesize
  BY <1>2, BlockSizes DEF Lesser
<1>4. Asks' /\ req'.len <= filesize'
  BY <1>1, <1>3 DEF Asks
<1>5. /\ FirstBlock' \in Nat /\ BlockCnt' \in Nat /\ FirstBlock' <= BlockCnt'
      /\ BlockCnt' <= Blocks /\ Begin(FirstBlock)' = 0 /\ Blocks \in Nat
  BY <1>4, NextBlocks, BlockSizes DEF BlocksFit
<1>6. i' = FirstBlock' /\ i' \in (FirstBlock..BlockCnt)' /\ i' \in 0..Blocks
  <2>1. i' = FirstBlock'
    BY <1>1 DEF FirstBlock, BlockSize
  <2> QED BY <1>5, <2>1
<1>7. to' = Begin(i)'
  <2>1. Begin(i)' = Begin(FirstBlock)'
    BY <1>6 DEF Begin, SkipOf
  <2> QED BY <1>1, <1>2, <1>5, <2>1
<1>8. LoopTyped'
  BY <1>1, <1>4, <1>6 DEF LoopOK, LoopTyped, Kinds, Marked
<1>9. AtBlock'
  BY <1>1, <1>6, <1>7 DEF AtBlock
<1>10. BufOK'
  <2>1. Front' = 0
    BY <1>1, <1>2 DEF Front
  <2>2. OverrunOnlyByHole'
    BY <1>1, <1>2 DEF OverrunOnlyByHole, Blank
  <2> QED BY <2>1, <2>2 DEF BufOK
<1>11. RunOK' /\ DevOK' /\ IdleOK'
  BY <1>1, <1>2 DEF RunOK, DevOK, IdleOK
<1> QED BY <1>8, <1>9, <1>10, <1>11 DEF LoopOK, ReadOK

(* Nothing but the loop's place in the code changes.                       *)
LEMMA SameRun ==
  ASSUME req' = req, map' = map, i' = i, run' = run, NEW a
  PROVE  /\ RunFrom(a)' <=> RunFrom(a)
         /\ FirstBlock' = FirstBlock /\ BlockCnt' = BlockCnt
         /\ Begin(a)' = Begin(a) /\ Before(a)' = Before(a) /\ FileByte(a)' = FileByte(a)
BY DEF RunFrom, SkipOf, Begin, Before, FirstBlock, BlockCnt, FileByte

LEMMA MapBlockKeeps ==
  ASSUME LoopOK, MapBlock
  PROVE  LoopOK'
<1>1. /\ pc = "map" /\ i < BlockCnt /\ dev' = dev /\ buf' = buf /\ length' = length
      /\ map' = map /\ filesize' = filesize /\ req' = req /\ i' = i /\ to' = to
      /\ run' = run
      /\ \/ blknr' = Wrap(map[i] * SectorsPerBlock) /\ pc' = "place" /\ result' = result
         \/ blknr' = blknr /\ pc' = "done" /\ result' = -1
  BY DEF MapBlock, Return
<1>2. LoopTyped /\ AtBlock /\ RunOK /\ BufOK /\ DevOK
  BY DEF LoopOK, ReadOK
<1>3. i \in FirstBlock..BlockCnt /\ to = Begin(i) /\ dev = DevIdle
  BY <1>1, <1>2 DEF AtBlock, DevOK
<1>4. i \in 0..(Blocks - 1)
  <2>1. FirstBlock \in Nat /\ BlockCnt \in Nat /\ BlockCnt <= Blocks /\ Blocks \in Nat
    BY <1>2, BlocksOf, BlockSizes DEF LoopTyped
  <2> QED BY <1>1, <1>3, <2>1
<1>5. Wrap(map[i] * SectorsPerBlock) \in Int
  <2>1. map[i] * SectorsPerBlock \in Int
    BY <1>2, <1>4, MapBounds DEF LoopTyped
  <2> QED BY <2>1, Wraps
<1>6. /\ FirstBlock' = FirstBlock /\ BlockCnt' = BlockCnt /\ Begin(i)' = Begin(i)
      /\ \A a : RunFrom(a)' <=> RunFrom(a)
      /\ \A k : FileByte(k)' = FileByte(k)
  BY <1>1, SameRun
<1>7. LoopTyped'
  BY <1>1, <1>2, <1>5, BlockSizes, SMTT(30) DEF LoopTyped, Kinds, Marked, Asks
<1>8. AtBlock'
  BY <1>1, <1>3, <1>6 DEF AtBlock
<1>9. RunOK'
  BY <1>1, <1>2, <1>6 DEF RunOK
<1>10. BufOK'
  BY <1>1, <1>2, <1>6 DEF BufOK, Front, OverrunOnlyByHole
<1>11. DevOK' /\ IdleOK'
  BY <1>1, <1>3 DEF DevOK, IdleOK
<1> QED BY <1>7, <1>8, <1>9, <1>10, <1>11 DEF LoopOK, ReadOK

LEMMA DoneKeeps ==
  ASSUME LoopOK, Done
  PROVE  LoopOK'
<1>1. /\ pc = "map" /\ run = NoRun /\ pc' = "done" /\ result' = req.len
      /\ dev' = dev /\ buf' = buf /\ length' = length
      /\ map' = map /\ filesize' = filesize /\ req' = req /\ i' = i /\ blknr' = blknr
      /\ to' = to /\ run' = run
  BY DEF Done, Return
<1>2. LoopTyped /\ AtBlock /\ RunOK /\ BufOK /\ DevOK
  BY DEF LoopOK, ReadOK
<1>3. req.len \in -1..MaxLen
  BY <1>2, BlockSizes DEF LoopTyped, Asks
<1>4. /\ FirstBlock' = FirstBlock /\ BlockCnt' = BlockCnt /\ Begin(i)' = Begin(i)
  BY <1>1, SameRun
<1>5. LoopTyped'
  BY <1>1, <1>2, <1>3 DEF LoopTyped, Kinds, Marked, Asks
<1>6. AtBlock' /\ RunOK' /\ DevOK' /\ IdleOK'
  BY <1>1, <1>2, <1>4 DEF AtBlock, RunOK, DevOK, IdleOK
<1>7. BufOK'
  BY <1>1, <1>2, <1>4 DEF BufOK, OverrunOnlyByHole
<1> QED BY <1>5, <1>6, <1>7 DEF LoopOK, ReadOK

LEMMA TakenKeeps ==
  ASSUME LoopOK, Taken
  PROVE  LoopOK'
<1>1. /\ pc = "done" /\ pc' = "idle" /\ req' = NoRead /\ i' = 0 /\ blknr' = 0 /\ to' = 0
      /\ run' = NoRun /\ result' = 0 /\ buf' = [k \in DOMAIN buf |-> Unset]
      /\ dev' = dev /\ length' = length /\ map' = map /\ filesize' = filesize
  BY DEF Taken
<1>2. LoopTyped /\ dev = DevIdle
  BY <1>1 DEF LoopOK, ReadOK, DevOK
<1>3. filesize \in Nat
  BY <1>2, Wholes DEF LoopTyped
<1>4. buf' \in Marked /\ Blank'
  BY <1>1, <1>2 DEF LoopTyped, Marked, Blank
<1>5. LoopTyped'
  BY <1>1, <1>2, <1>3, <1>4, BlockSizes DEF LoopTyped, Kinds, Asks, NoRead
<1>6. AtBlock' /\ RunOK' /\ DevOK' /\ IdleOK' /\ BufOK'
  BY <1>1, <1>2, <1>4 DEF AtBlock, RunOK, DevOK, IdleOK, BufOK, OverrunOnlyByHole
<1> QED BY <1>5, <1>6 DEF LoopOK, ReadOK

-----------------------------------------------------------------------------
(* On to the next block, what became of block i aside.                     *)
LEMMA NextBlockKeeps ==
  ASSUME LoopOK, pc = "place", NextBlock, req' = req, map' = map, filesize' = filesize
  PROVE  /\ i \in FirstBlock..BlockCnt /\ i < BlockCnt /\ i \in 0..(Blocks - 1)
         /\ i + 1 \in FirstBlock..BlockCnt /\ i + 1 \in 0..Blocks
         /\ to = Begin(i) /\ to' = Begin(i + 1) /\ to' \in 0..BufSize
         /\ blknr = Wrap(map[i] * SectorsPerBlock) /\ dev = DevIdle
         /\ (blknr = 0 <=> map[i] = 0)
         /\ AtBlock'
<1>1. /\ i' = i + 1 /\ to' = to + (BlockSize - SkipFirst) /\ pc' = "map"
  BY DEF NextBlock
<1>2. LoopTyped /\ AtBlock /\ DevOK
  BY DEF LoopOK, ReadOK
<1>3. i \in FirstBlock..BlockCnt /\ i < BlockCnt /\ to = Begin(i) /\ dev = DevIdle
      /\ blknr = Wrap(map[i] * SectorsPerBlock)
  BY <1>2 DEF AtBlock, DevOK
<1>4. FirstBlock \in Nat /\ BlockCnt \in Nat /\ BlockCnt <= Blocks /\ Blocks \in Nat
  BY <1>2, BlocksOf, BlockSizes DEF LoopTyped
<1>5. i \in 0..(Blocks - 1) /\ i + 1 \in FirstBlock..BlockCnt /\ i + 1 \in 0..Blocks
  BY <1>3, <1>4
<1>6. Begin(i + 1) = Begin(i) + (BlockSize - SkipOf(i)) /\ SkipFirst = SkipOf(i)
  BY <1>2, <1>3, Begins DEF LoopTyped, SkipFirst, SkipOf
<1>7. to' = Begin(i + 1) /\ Begin(i + 1) \in 0..BufSize
  BY <1>1, <1>2, <1>3, <1>5, <1>6, Begins DEF LoopTyped
<1>8. blknr = 0 <=> map[i] = 0
  BY <1>2, <1>3, <1>5, MapBounds DEF LoopTyped
<1>9. /\ FirstBlock' = FirstBlock /\ BlockCnt' = BlockCnt
      /\ Begin(i)' = Begin(i + 1)
  BY <1>1 DEF FirstBlock, BlockCnt, Begin, SkipOf, BlockSize
<1>10. AtBlock'
  BY <1>1, <1>5, <1>7, <1>9 DEF AtBlock
<1> QED BY <1>3, <1>5, <1>7, <1>8, <1>10

LEMMA StartRunKeeps ==
  ASSUME LoopOK, StartRun
  PROVE  LoopOK'
<1>1. /\ pc = "place" /\ blknr # 0 /\ run = NoRun /\ run' = NewRun /\ NextBlock
      /\ dev' = dev /\ buf' = buf /\ length' = length /\ map' = map
      /\ filesize' = filesize /\ req' = req /\ blknr' = blknr /\ result' = result
  BY DEF StartRun
<1>2. LoopTyped /\ AtBlock /\ RunOK /\ BufOK /\ DevOK
  BY DEF LoopOK, ReadOK
<1>3. /\ i \in FirstBlock..BlockCnt /\ i < BlockCnt /\ i \in 0..(Blocks - 1)
      /\ i + 1 \in FirstBlock..BlockCnt /\ i + 1 \in 0..Blocks
      /\ to = Begin(i) /\ to' \in 0..BufSize
      /\ blknr = Wrap(map[i] * SectorsPerBlock) /\ dev = DevIdle /\ map[i] # 0
      /\ AtBlock' /\ i' = i + 1 /\ pc' = "map"
  BY <1>1, <1>2, NextBlockKeeps DEF NextBlock
<1>4. /\ SkipFirst = SkipOf(i) /\ BlockEnd = Before(i + 1) - Begin(i) /\ BlockEnd \in Nat
      /\ i + 1 < BlockCnt => BlockEnd = BlockSize - SkipOf(i)
      /\ SkipOf(i) \in 0..(BlockSize - 1)
  BY <1>2, <1>3, EndOfBlock, Begins DEF LoopTyped
<1>5. BlockEnd \div SectorSize \in Int
  <2>1. BlockEnd \in Int
    BY <1>4
  <2> QED BY <2>1, BlockSizes, DivMod
<1>6. Wrap(blknr + (BlockEnd \div SectorSize)) \in Int
  <2>1. blknr + (BlockEnd \div SectorSize) \in Int
    BY <1>2, <1>5 DEF LoopTyped
  <2> QED BY <2>1, Wraps
<1>7. run' = [start |-> blknr, extent |-> BlockEnd, skip |-> SkipOf(i),
              next |-> Wrap(blknr + (BlockEnd \div SectorSize)), to |-> to]
  BY <1>1, <1>4 DEF NewRun
<1>8. run' \in [start : Int, extent : Nat, skip : 0..(BlockSize - 1),
                next : Int, to : 0..BufSize]
  BY <1>2, <1>4, <1>6, <1>7 DEF LoopTyped
<1>9. i + 1 < BlockCnt => Wrap(blknr + (BlockEnd \div SectorSize)) =
         Wrap(map[i] * SectorsPerBlock + (BlockSize - SkipOf(i)) \div SectorSize)
  <2>1. map[i] * SectorsPerBlock \in Int
    BY <1>2, <1>3, MapBounds DEF LoopTyped
  <2>2. Wrap(blknr + (BlockEnd \div SectorSize))
          = Wrap(map[i] * SectorsPerBlock + BlockEnd \div SectorSize)
    BY <1>3, <1>5, <2>1, WrapSum
  <2> QED BY <1>4, <2>2
<1>10. FirstBlock \in Nat /\ BlockCnt \in Nat
  BY <1>2, BlocksOf DEF LoopTyped
<1>11. PICK a \in Nat : a = i
  BY <1>3, <1>10
<1>12. /\ FirstBlock' = FirstBlock /\ BlockCnt' = BlockCnt
       /\ Before(i)' = Before(i + 1) /\ Begin(a)' = Begin(a) /\ SkipOf(a)' = SkipOf(a)
  BY <1>1, <1>3 DEF FirstBlock, BlockCnt, BlockSize, Before, Begin, SkipOf
<1>13. RunFrom(a)'
  <2>1. \A b \in a..(i' - 1) : b = a /\ a - a = 0
    BY <1>3, <1>11
  <2>2. map[a] \in Nat
    BY <1>2, <1>3, <1>11, MapBounds DEF LoopTyped
  <2>3. \A b \in a..(i' - 1) : map'[b] = map'[a] + (b - a)
    BY <1>1, <2>1, <2>2
  <2>4. a < i' /\ map'[a] # 0 /\ i' - 1 = a
    BY <1>1, <1>3, <1>11
  <2>5. /\ run'.start = Wrap(map'[a] * SectorsPerBlock)
        /\ run'.skip = SkipOf(a)' /\ run'.to = Begin(a)'
    BY <1>1, <1>3, <1>7, <1>11, <1>12
  <2>6. run'.extent = Before(i)' - Begin(a)'
    BY <1>3, <1>4, <1>7, <1>11, <1>12
  <2>7. i' < BlockCnt' =>
          run'.next = Wrap(map'[a] * SectorsPerBlock + (BlockSize - SkipOf(a)) \div SectorSize)
    BY <1>1, <1>3, <1>7, <1>9, <1>11, <1>12
  <2>8. (BlockSize - SkipOf(i - 1))' = BlockSize - SkipOf(a)
    BY <1>12, <2>4 DEF BlockSize, SkipOf
  <2> QED BY <2>3, <2>4, <2>5, <2>6, <2>7, <2>8 DEF RunFrom
<1>14. RunOK'
  BY <1>3, <1>10, <1>11, <1>12, <1>13 DEF RunOK
<1>15. LoopTyped'
  BY <1>1, <1>2, <1>3, <1>8 DEF LoopTyped, Kinds, Marked, Asks
<1>16. BufOK'
  <2>1. Front = to /\ Front' = to
    BY <1>1, <1>7 DEF Front, NoRun
  <2>2. OverrunOnlyByHole'
    BY <1>1, <1>2, <1>3, <1>12 DEF BufOK, OverrunOnlyByHole
  <2>3. \A k : FileByte(k)' = FileByte(k)
    BY <1>1 DEF FileByte, BlockSize
  <2> QED BY <1>1, <1>2, <1>3, <2>1, <2>2, <2>3 DEF BufOK
<1>17. DevOK' /\ IdleOK'
  BY <1>1, <1>3 DEF DevOK, IdleOK
<1> QED BY <1>3, <1>14, <1>15, <1>16, <1>17 DEF LoopOK, ReadOK

LEMMA Follows ==
  ASSUME NEW p \in Nat \ {0}, NEW m \in Nat, NEW n \in Nat, NEW j \in 0..p,
         n * p = m * p + j, n # m
  PROVE  n = m + 1
<1>1. PICK mp \in Int, np \in Int : mp = m * p /\ np = n * p /\ np = mp + j
  BY MulMono
<1>2. /\ (m + 1) * p = mp + p /\ (n + 1) * p = np + p /\ (m + 2) * p = mp + p + p
  <2>1. (m + 2) * p = m * p + p + p
    OBVIOUS
  <2> QED BY <1>1, <2>1, MulMono
<1>3. n < m + 2
  <2>1. n * p < (m + 2) * p
    BY <1>1, <1>2
  <2>2. m + 2 \in Int /\ n \in Int
    OBVIOUS
  <2> QED BY ONLY <2>1, <2>2, p \in Nat \ {0}, MulMono
<1>4. m < n + 1
  <2>1. m * p < (n + 1) * p
    BY <1>1, <1>2
  <2>2. n + 1 \in Int /\ m \in Int
    OBVIOUS
  <2> QED BY ONLY <2>1, <2>2, p \in Nat \ {0}, MulMono
<1> QED BY <1>3, <1>4

LEMMA WrapsToZero == Wrap(Range2) = 0
<1>1. Range2 \in Nat \ {0} /\ IntMax \in Nat
  BY Sizes DEF Range2
<1>2. Unsigned(Range2) = Range2 % Range2
  BY DEF Unsigned, Range2
<1>3. Range2 % Range2 = 0
  <2>1. Range2 = 1 * Range2 + 0 /\ 0 \in 0..(Range2 - 1)
    BY <1>1
  <2> QED BY <1>1, <2>1, DivIs
<1> QED BY <1>1, <1>2, <1>3 DEF Wrap

(* A block whose sector is where the last one ends is the next on the      *)
(* device: a block of which only a part was read ends elsewhere.           *)
LEMMA Adjacent ==
  ASSUME Asks, map \in Maps, i \in FirstBlock..BlockCnt, i < BlockCnt, i > FirstBlock,
         map[i] # 0,
         Wrap(map[i] * SectorsPerBlock)
           = Wrap(map[i - 1] * SectorsPerBlock + (BlockSize - SkipOf(i - 1)) \div SectorSize)
  PROVE  map[i] = map[i - 1] + 1
<1>1. /\ i \in 0..(Blocks - 1) /\ i - 1 \in 0..(Blocks - 1) /\ i - 1 \in FirstBlock..BlockCnt
      /\ i # i - 1
  <2>1. FirstBlock \in Nat /\ BlockCnt \in Nat /\ BlockCnt <= Blocks /\ Blocks \in Nat
    BY BlocksOf, BlockSizes
  <2> QED BY <2>1
<1>2. PICK p \in Nat \ {0}, ss \in Nat \ {0}, s \in Nat :
        p = SectorsPerBlock /\ ss = SectorSize /\ s = SkipOf(i - 1) /\ s < p * ss
          /\ BlockSize = p * ss
  <2>1. SectorsPerBlock \in Nat \ {0} /\ SectorSize \in Nat \ {0}
        /\ BlockSize = SectorsPerBlock * SectorSize /\ BlockSize \in Nat
    BY BlockSizes
  <2>2. SkipOf(i - 1) \in 0..(BlockSize - 1)
    BY <1>1, Begins
  <2> QED BY <2>1, <2>2
<1>3. PICK m \in Nat, n \in Nat :
        /\ m = map[i - 1] /\ n = map[i] /\ n * p \in 0..(Range2 - 1)
        /\ m * p \in 0..(Range2 - 1) /\ m * p + p <= Range2
  BY <1>1, <1>2, MapBounds
<1>4. PICK j \in 0..p : j = (BlockSize - s) \div ss
  <2>1. PICK z \in Nat : z = BlockSize - s /\ z <= p * ss /\ p * ss \in Int
    BY <1>2, BlockSizes
  <2>2. PICK d \in Int, r \in 0..(ss - 1) : d = z \div ss /\ z = d * ss + r /\ d >= 0
    <3>1. z \in Int /\ z >= 0
      BY <2>1
    <3> QED BY ONLY <3>1, ss \in Nat \ {0}, DivMod
  <2>3. (p + 1) * ss = p * ss + ss /\ d * ss \in Int
    BY MulMono
  <2>4. d * ss < (p + 1) * ss
    BY <2>1, <2>2, <2>3
  <2>5. p + 1 \in Int
    OBVIOUS
  <2>6. d < p + 1
    BY ONLY <2>2, <2>4, <2>5, ss \in Nat \ {0}, MulMono
  <2> QED BY <2>1, <2>2, <2>6
<1>5. Wrap(n * p) = Wrap(m * p + j)
  BY <1>2, <1>3, <1>4
<1>6. PICK np \in 0..(Range2 - 1), mp \in 0..(Range2 - 1) :
        np = n * p /\ mp = m * p /\ mp + p <= Range2 /\ Wrap(np) = Wrap(mp + j)
  BY <1>3, <1>5
<1>7. Range2 \in Nat
  BY Sizes DEF Range2
<1>8. mp + j # Range2
  <2>1. Wrap(np) # 0
    BY <1>1, <1>2, <1>3, <1>6, MapBounds
  <2> QED BY <1>6, <2>1, WrapsToZero
<1>9. mp + j \in 0..(Range2 - 1)
  BY <1>6, <1>7, <1>8
<1>10. np = mp + j
  BY <1>6, <1>9, WrapOnce
<1>11. n # m
  BY <1>1, <1>3, MapsAssumption
<1> QED BY <1>3, <1>6, <1>10, <1>11, Follows

LEMMA ExtendKeeps ==
  ASSUME LoopOK, Extend
  PROVE  LoopOK'
<1>1. /\ pc = "place" /\ blknr # 0 /\ run # NoRun /\ run.next = blknr /\ NextBlock
      /\ run' = [run EXCEPT !.extent = @ + BlockEnd,
                            !.next = Wrap(@ + (BlockEnd \div SectorSize))]
      /\ dev' = dev /\ buf' = buf /\ length' = length /\ map' = map
      /\ filesize' = filesize /\ req' = req /\ blknr' = blknr /\ result' = result
  BY DEF Extend, Adjoins
<1>2. LoopTyped /\ AtBlock /\ RunOK /\ BufOK /\ DevOK
  BY DEF LoopOK, ReadOK
<1>3. /\ i \in FirstBlock..BlockCnt /\ i < BlockCnt /\ i \in 0..(Blocks - 1)
      /\ i + 1 \in FirstBlock..BlockCnt /\ i + 1 \in 0..Blocks
      /\ to = Begin(i) /\ to' \in 0..BufSize
      /\ blknr = Wrap(map[i] * SectorsPerBlock) /\ dev = DevIdle /\ map[i] # 0
      /\ AtBlock' /\ i' = i + 1 /\ pc' = "map"
  BY <1>1, <1>2, NextBlockKeeps DEF NextBlock
<1>4. /\ SkipFirst = SkipOf(i) /\ BlockEnd = Before(i + 1) - Begin(i) /\ BlockEnd \in Nat
      /\ i + 1 < BlockCnt => BlockEnd = BlockSize - SkipOf(i)
      /\ SkipOf(i) \in 0..(BlockSize - 1)
  BY <1>2, <1>3, EndOfBlock, Begins DEF LoopTyped
<1>5. BlockEnd \div SectorSize \in Int
  <2>1. BlockEnd \in Int
    BY <1>4
  <2> QED BY <2>1, BlockSizes, DivMod
<1>6. Wrap(blknr + (BlockEnd \div SectorSize)) \in Int
  <2>1. blknr + (BlockEnd \div SectorSize) \in Int
    BY <1>2, <1>5 DEF LoopTyped
  <2> QED BY <2>1, Wraps
<1>7. PICK start \in Int, extent \in Nat, skip \in 0..(BlockSize - 1), mid \in 0..BufSize :
        run = [start |-> start, extent |-> extent, skip |-> skip, next |-> blknr, to |-> mid]
  BY <1>1, <1>2 DEF LoopTyped
<1>8. run' = [start |-> start, extent |-> extent + BlockEnd, skip |-> skip,
              next |-> Wrap(blknr + (BlockEnd \div SectorSize)), to |-> mid]
  <2>1. PICK e, d : e = run.extent + BlockEnd /\ d = Wrap(run.next + (BlockEnd \div SectorSize))
    OBVIOUS
  <2>2. run' = [run EXCEPT !.extent = e, !.next = d]
    BY <1>1, <2>1
  <2>3. run' = [start |-> start, extent |-> e, skip |-> skip, next |-> d, to |-> mid]
    BY <1>7, <2>2
  <2>4. run.extent = extent /\ run.next = blknr
    BY <1>7
  <2> QED BY <2>1, <2>3, <2>4
<1>9. i + 1 < BlockCnt => Wrap(blknr + (BlockEnd \div SectorSize)) =
         Wrap(map[i] * SectorsPerBlock + (BlockSize - SkipOf(i)) \div SectorSize)
  <2>1. map[i] * SectorsPerBlock \in Int
    BY <1>2, <1>3, MapBounds DEF LoopTyped
  <2>2. Wrap(blknr + (BlockEnd \div SectorSize))
          = Wrap(map[i] * SectorsPerBlock + BlockEnd \div SectorSize)
    BY <1>3, <1>5, <2>1, WrapSum
  <2> QED BY <1>4, <2>2
<1>10. PICK a \in FirstBlock..BlockCnt : RunFrom(a)
  BY <1>1, <1>2 DEF RunOK
<1>11. /\ a < i /\ map[a] # 0 /\ start = Wrap(map[a] * SectorsPerBlock)
       /\ skip = SkipOf(a) /\ mid = Begin(a) /\ extent = Before(i) - Begin(a)
       /\ \A b \in a..(i - 1) : map[b] = map[a] + (b - a)
       /\ blknr = Wrap(map[i - 1] * SectorsPerBlock + (BlockSize - SkipOf(i - 1)) \div SectorSize)
  BY <1>3, <1>7, <1>10 DEF RunFrom
<1>12. FirstBlock \in Nat /\ BlockCnt \in Nat /\ BlockCnt <= Blocks /\ Blocks \in Nat
  BY <1>2, BlocksOf, BlockSizes DEF LoopTyped
<1>13. a \in Nat /\ i \in Nat /\ i > FirstBlock /\ a \in 0..(Blocks - 1)
  BY <1>3, <1>11, <1>12
<1>14. map[i] = map[i - 1] + 1
  BY <1>2, <1>3, <1>11, <1>13, Adjacent DEF LoopTyped
<1>15. \A b \in a..i : map[b] = map[a] + (b - a)
  <2>1. map[a] \in Nat
    BY <1>2, <1>13, MapBounds DEF LoopTyped
  <2>2. map[i - 1] = map[a] + ((i - 1) - a)
    BY <1>11, <1>13
  <2>3. map[i] = map[a] + (i - a)
    BY <1>13, <1>14, <2>1, <2>2
  <2>4. \A b \in a..i : b = i \/ b \in a..(i - 1)
    BY <1>13
  <2> QED BY <1>11, <2>3, <2>4
<1>16. extent + BlockEnd = Before(i + 1) - Begin(a)
  <2>1. Before(i) = Begin(i)
    BY <1>2, <1>3, <1>13, Befores DEF LoopTyped
  <2>2. Begin(i) \in Int /\ Begin(a) \in Int /\ Before(i + 1) \in Int
    <3>1. Begin(i) \in 0..BufSize /\ Begin(a) \in 0..BufSize /\ Before(i + 1) \in Int
      BY <1>2, <1>3, Begins, Befores DEF LoopTyped
    <3> QED BY <3>1, BlockSizes
  <2> QED BY <1>4, <1>11, <2>1, <2>2
<1>17. /\ FirstBlock' = FirstBlock /\ BlockCnt' = BlockCnt
       /\ Before(i)' = Before(i + 1) /\ Begin(a)' = Begin(a) /\ SkipOf(a)' = SkipOf(a)
  BY <1>1, <1>3 DEF FirstBlock, BlockCnt, BlockSize, Before, Begin, SkipOf
<1>18. RunFrom(a)'
  <2>1. a < i' /\ map'[a] # 0 /\ i' - 1 = i
    BY <1>1, <1>3, <1>11, <1>13
  <2>2. /\ run'.start = Wrap(map'[a] * SectorsPerBlock)
        /\ run'.skip = SkipOf(a)' /\ run'.to = Begin(a)'
        /\ run'.extent = Before(i)' - Begin(a)'
    <3>1. /\ run'.start = start /\ run'.skip = skip /\ run'.to = mid
          /\ run'.extent = extent + BlockEnd
      BY <1>8
    <3> QED BY <1>1, <1>11, <1>16, <1>17, <3>1
  <2>3. \A b \in a..(i' - 1) : map'[b] = map'[a] + (b - a)
    BY <1>1, <1>15, <2>1
  <2>4. (BlockSize - SkipOf(i - 1))' = BlockSize - SkipOf(i)
    BY <1>1, <1>17, <2>1 DEF BlockSize, SkipOf, FirstBlock
  <2>5. i' < BlockCnt' =>
          run'.next = Wrap(map'[i' - 1] * SectorsPerBlock
                             + (BlockSize - SkipOf(i - 1))' \div SectorSize)
    BY <1>1, <1>3, <1>8, <1>9, <1>17, <2>1, <2>4
  <2> QED BY <2>1, <2>2, <2>3, <2>5 DEF RunFrom
<1>19. RunOK'
  BY <1>3, <1>10, <1>17, <1>18 DEF RunOK
<1>20. LoopTyped'
  <2>1. run' \in [start : Int, extent : Nat, skip : 0..(BlockSize - 1),
                  next : Int, to : 0..BufSize]
    BY <1>4, <1>6, <1>7, <1>8
  <2> QED BY <1>1, <1>2, <1>3, <2>1 DEF LoopTyped, Kinds, Marked, Asks
<1>21. BufOK'
  <2>1. Front = mid /\ Front' = mid
    <3>1. extent + BlockEnd \in Nat /\ run'.extent = extent + BlockEnd
      BY <1>4, <1>8
    <3>2. run' # NoRun
      BY <3>1 DEF NoRun
    <3> QED BY <1>1, <1>7, <1>8, <3>2 DEF Front
  <2>2. OverrunOnlyByHole'
    BY <1>1, <1>2, <1>3, <1>17 DEF BufOK, OverrunOnlyByHole
  <2>3. \A k : FileByte(k)' = FileByte(k)
    BY <1>1 DEF FileByte, BlockSize
  <2> QED BY <1>1, <1>2, <1>3, <2>1, <2>2, <2>3 DEF BufOK
<1>22. DevOK' /\ IdleOK'
  BY <1>1, <1>3 DEF DevOK, IdleOK
<1> QED BY <1>3, <1>19, <1>20, <1>21, <1>22 DEF LoopOK, ReadOK

LEMMA InBlock ==
  ASSUME Asks, i \in FirstBlock..BlockCnt, i < BlockCnt,
         NEW k \in Begin(i)..(Begin(i + 1) - 1)
  PROVE  (req.pos + k) \div BlockSize = i
<1>1. PICK w \in Nat \ {0}, pos \in Nat, s0 \in Nat, b0 \in Nat, iw \in Int :
        /\ w = BlockSize /\ pos = req.pos /\ s0 = SkipOf(i) /\ b0 = Begin(i) /\ iw = i * w
        /\ s0 < w /\ pos + b0 = iw + s0 /\ Begin(i + 1) = b0 + (w - s0)
  <2>1. BlockSize \in Nat \ {0} /\ req.pos \in Nat /\ FirstBlock \in Nat /\ BlockCnt \in Nat
        /\ BufSize \in Nat
    BY BlockSizes, BlocksOf DEF Asks
  <2>2. /\ SkipOf(i) \in 0..(BlockSize - 1) /\ Begin(i) \in 0..BufSize
        /\ req.pos + Begin(i) = i * BlockSize + SkipOf(i)
        /\ Begin(i + 1) = Begin(i) + (BlockSize - SkipOf(i))
    BY Begins
  <2>3. Begin(i) \in Nat /\ SkipOf(i) \in Nat /\ SkipOf(i) < BlockSize
    BY <2>1, <2>2
  <2>4. PICK iw \in Int : iw = i * BlockSize
    BY <2>1, MulMono
  <2>5. req.pos + Begin(i) = iw + SkipOf(i)
    BY <2>2, <2>4
  <2> QED BY <2>1, <2>2, <2>3, <2>4, <2>5
<1>2. PICK r \in 0..(w - 1) : r = s0 + (k - b0) /\ k \in Int
  BY <1>1
<1>3. pos + k = i * w + r /\ pos + k \in Int
  <2>1. pos + k = iw + r /\ pos + k \in Int
    <3>1. pos + b0 = iw + s0
      BY <1>1
    <3> QED BY <1>2, <3>1
  <2> QED BY <1>1, <2>1
<1>4. i \in Int
  BY BlocksOf
<1>5. (pos + k) \div w = i
  BY <1>3, <1>4, DivIs
<1> QED BY <1>1, <1>5

LEMMA HoleKeeps ==
  ASSUME LoopOK, Hole
  PROVE  LoopOK'
<1>1. /\ pc = "place" /\ blknr = 0 /\ run = NoRun /\ NextBlock
      /\ buf' = [k \in DOMAIN buf |->
                   IF k \in to..(to + (BlockSize - SkipFirst) - 1) THEN Zero ELSE buf[k]]
      /\ dev' = dev /\ length' = length /\ map' = map /\ run' = run
      /\ filesize' = filesize /\ req' = req /\ blknr' = blknr /\ result' = result
  BY DEF Hole
<1>2. LoopTyped /\ AtBlock /\ RunOK /\ BufOK /\ DevOK
  BY DEF LoopOK, ReadOK
<1>3. /\ i \in FirstBlock..BlockCnt /\ i < BlockCnt
      /\ i + 1 \in FirstBlock..BlockCnt /\ i + 1 \in 0..Blocks
      /\ to = Begin(i) /\ to' = Begin(i + 1) /\ to' \in 0..BufSize
      /\ dev = DevIdle /\ map[i] = 0
      /\ AtBlock' /\ i' = i + 1 /\ pc' = "map"
  BY <1>1, <1>2, NextBlockKeeps DEF NextBlock
<1>4. /\ SkipFirst = SkipOf(i) /\ Begin(i + 1) = Begin(i) + (BlockSize - SkipOf(i))
  BY <1>2, <1>3, Begins DEF LoopTyped, SkipFirst, SkipOf
<1>5. DOMAIN buf = 0..(BufSize - 1)
  BY <1>2 DEF LoopTyped, Marked
<1>6. buf' = [k \in 0..(BufSize - 1) |->
                IF k \in to..(Begin(i + 1) - 1) THEN Zero ELSE buf[k]]
  <2>1. to + (BlockSize - SkipFirst) = Begin(i + 1)
    BY <1>3, <1>4
  <2>2. PICK last : last = to + (BlockSize - SkipFirst) - 1
    OBVIOUS
  <2>3. buf' = [k \in 0..(BufSize - 1) |-> IF k \in to..last THEN Zero ELSE buf[k]]
    BY <1>1, <1>5, <2>2
  <2>4. last = Begin(i + 1) - 1
    <3>1. to \in Int /\ BlockSize \in Int /\ SkipFirst \in Int
      BY <1>2, <1>3, <1>4, Begins, BlockSizes DEF LoopTyped
    <3> QED BY <2>1, <2>2, <3>1
  <2> QED BY <2>3, <2>4
<1>7. buf' \in Marked
  BY <1>2, <1>6 DEF LoopTyped, Marked
<1>8. LoopTyped'
  BY <1>1, <1>2, <1>3, <1>7 DEF LoopTyped, Kinds, Asks
<1>9. /\ FirstBlock' = FirstBlock /\ BlockCnt' = BlockCnt
      /\ \A k : FileByte(k)' = FileByte(k)
  BY <1>1 DEF FirstBlock, BlockCnt, BlockSize, FileByte
<1>10. FirstBlock \in Nat /\ BlockCnt \in Nat /\ req.len \in Nat /\ to \in Nat
       /\ MaxLen + BlockSize <= BufSize /\ req.len <= MaxLen /\ BufSize \in Nat
       /\ BlockSize \in Nat \ {0} /\ MaxLen \in Nat
  BY <1>2, BlocksOf, BlockSizes DEF LoopTyped, Asks
<1>11. ASSUME NEW k \in 0..(to' - 1), k < req.len
       PROVE  buf'[k] \in {FileByte(req.pos + k), Garbage, Stray}
  <2>1. k \in 0..(BufSize - 1)
    BY <1>3, <1>10
  <2>2. CASE k < to
    <3>1. Front = to /\ k \in 0..(Front - 1)
      BY <1>1, <1>10, <2>2 DEF Front
    <3>2. buf[k] \in {FileByte(req.pos + k), Garbage, Stray}
      BY <1>1, <1>2, <1>11, <3>1 DEF BufOK
    <3>3. buf'[k] = buf[k]
      BY <1>6, <1>10, <2>1, <2>2
    <3> QED BY <3>2, <3>3
  <2>3. CASE k >= to
    <3>1. k \in to..(Begin(i + 1) - 1)
      BY <1>3, <1>10, <2>3
    <3>2. (req.pos + k) \div BlockSize = i
      BY <1>2, <1>3, <3>1, InBlock DEF LoopTyped
    <3>3. FileByte(req.pos + k) = Zero
      BY <1>3, <3>2 DEF FileByte
    <3> QED BY <1>6, <2>1, <3>1, <3>3
  <2> QED BY <1>10, <2>2, <2>3
<1>12. ASSUME NEW k \in DOMAIN buf', k >= req.len, buf'[k] # Unset
       PROVE  buf'[k] = Zero /\ map[BlockCnt - 1] = 0
  <2>1. k \in 0..(BufSize - 1)
    BY <1>6
  <2>2. CASE k \in to..(Begin(i + 1) - 1)
    <3>1. ~(i + 1 < BlockCnt)
      <4>1. i + 1 < BlockCnt => Begin(i + 1) <= req.len
        BY <1>2, <1>3, Begins DEF LoopTyped
      <4>2. k < Begin(i + 1)
        <5>1. Begin(i + 1) \in Int
          BY <1>3, <1>10
        <5> QED BY <1>10, <2>2, <5>1
      <4>3. Begin(i + 1) \in Int
        BY <1>3, <1>10
      <4> QED BY <1>10, <1>12, <2>1, <4>1, <4>2, <4>3
    <3>2. i = BlockCnt - 1
      BY <1>3, <1>10, <3>1
    <3> QED BY <1>3, <1>6, <2>1, <2>2, <3>2
  <2>3. CASE k \notin to..(Begin(i + 1) - 1)
    <3>1. buf'[k] = buf[k]
      BY <1>6, <2>1, <2>3
    <3> QED BY <1>1, <1>2, <1>5, <1>12, <2>1, <3>1 DEF BufOK, OverrunOnlyByHole
  <2> QED BY <2>2, <2>3
<1>13. BufOK'
  <2>1. Front' = to'
    BY <1>1 DEF Front
  <2>2. OverrunOnlyByHole'
    BY <1>1, <1>9, <1>12 DEF OverrunOnlyByHole
  <2> QED BY <1>1, <1>9, <1>11, <2>1, <2>2 DEF BufOK
<1>14. RunOK' /\ DevOK' /\ IdleOK'
  BY <1>1, <1>3 DEF RunOK, DevOK, IdleOK
<1> QED BY <1>3, <1>8, <1>13, <1>14 DEF LoopOK, ReadOK

LEMMA SpillKeeps ==
  ASSUME LoopOK, Spill
  PROVE  LoopOK'
<1>1. /\ dev.pc = "idle" /\ run # NoRun
      /\ pc = "place" \/ (pc = "map" /\ i >= BlockCnt)
      /\ dev' = [pc |-> "check", sector |-> run.start, offset |-> run.skip,
                 len |-> run.extent, to |-> run.to]
      /\ pc' = "spill" /\ buf' = buf /\ length' = length
      /\ map' = map /\ filesize' = filesize /\ req' = req /\ i' = i /\ blknr' = blknr
      /\ to' = to /\ run' = run /\ result' = result
  BY DEF Spill, DevCall
<1>2. LoopTyped /\ AtBlock /\ RunOK /\ BufOK /\ DevOK
  BY DEF LoopOK, ReadOK
<1>3. /\ FirstBlock' = FirstBlock /\ BlockCnt' = BlockCnt /\ Begin(i)' = Begin(i)
      /\ \A a : RunFrom(a)' <=> RunFrom(a)
      /\ \A k : FileByte(k)' = FileByte(k)
  BY <1>1, SameRun
<1>4. /\ run.start \in Int /\ run.skip \in Int /\ run.extent \in Nat /\ run.to \in Nat
  BY <1>1, <1>2, BlockSizes DEF LoopTyped
<1>5. LoopTyped'
  BY <1>1, <1>2, <1>4 DEF LoopTyped, Kinds, DevPc, Marked, Asks
<1>6. AtBlock'
  <2>1. FirstBlock \in Nat /\ BlockCnt \in Nat
    BY <1>2, BlocksOf DEF LoopTyped
  <2>2. i \in FirstBlock..BlockCnt
    BY <1>1, <1>2 DEF AtBlock
  <2> QED BY <1>1, <1>2, <1>3, <2>1, <2>2 DEF AtBlock
<1>7. RunOK'
  BY <1>1, <1>2, <1>3 DEF RunOK
<1>8. BufOK'
  BY <1>1, <1>2, <1>3 DEF BufOK, Front, OverrunOnlyByHole
<1>9. DevOK' /\ IdleOK'
  BY <1>1 DEF DevOK, IdleOK, Serves, Moving
<1> QED BY <1>5, <1>6, <1>7, <1>8, <1>9 DEF LoopOK, ReadOK

(* What a run covers: no more than its blocks of the request.              *)
LEMMA RunCovers ==
  ASSUME LoopTyped, i \in FirstBlock..BlockCnt, NEW a \in FirstBlock..BlockCnt,
         run # NoRun, RunFrom(a)
  PROVE  /\ run.start \in Int /\ run.start <= IntMax /\ run.skip \in 0..(BlockSize - 1)
         /\ run.extent \in Nat /\ run.to \in Nat
         /\ run.to + run.extent = Before(i) /\ run.to + run.extent <= req.len
         /\ Boundary(run.start, run.skip, run.extent, run.to)
<1>1. /\ run.start \in Int /\ run.skip \in 0..(BlockSize - 1)
      /\ run.extent \in Nat /\ run.to \in Nat
  BY BlockSizes DEF LoopTyped
<1>2. /\ run.start = Wrap(map[a] * SectorsPerBlock) /\ run.to = Begin(a) /\ a < i
      /\ run.extent = Before(i) - Begin(a)
  BY DEF RunFrom
<1>3. Before(i) \in Int /\ Before(i) <= req.len /\ req.len \in Nat /\ req.len <= MaxLen
  BY Befores, BlockSizes DEF LoopTyped, Asks
<1>4. run.to + run.extent = Before(i) /\ run.to + run.extent <= req.len
  BY <1>1, <1>2, <1>3
<1>5. a \in 0..(Blocks - 1)
  <2>1. FirstBlock \in Nat /\ BlockCnt \in Nat /\ BlockCnt <= Blocks /\ Blocks \in Nat
    BY BlocksOf, BlockSizes DEF LoopTyped
  <2> QED BY <1>2, <2>1
<1>6. run.start <= IntMax
  <2>1. map[a] * SectorsPerBlock \in Int
    BY <1>5, MapBounds DEF LoopTyped
  <2> QED BY <1>2, <2>1, Wraps
<1>7. run.start >= 0 => First(run.start, run.skip) >= 0
  <2>1. SectorSize \in Nat
    BY BlockSizes
  <2>2. run.start >= 0 => run.start * SectorSize >= 0 /\ run.start * SectorSize \in Int
    BY <1>1, BlockSizes, MulMono
  <2>3. run.skip \in Nat
    BY <1>1, BlockSizes
  <2> QED BY <2>2, <2>3 DEF First
<1>8. run.skip + run.extent <= BufSize /\ run.to + run.extent <= BufSize
  <2>1. MaxLen + BlockSize <= BufSize /\ MaxLen \in Nat /\ BlockSize \in Nat /\ BufSize \in Nat
    BY BlockSizes
  <2> QED BY <1>1, <1>3, <1>4, <2>1
<1> QED BY <1>1, <1>4, <1>6, <1>7, <1>8 DEF Boundary

LEMMA MarkedBytes == Marked \subseteq Bytes
BY DEF Marked, Bytes, Unset, Garbage, Zero, Stray

LEMMA DeviceKeeps ==
  ASSUME LoopOK, Device
  PROVE  LoopOK'
<1>1. /\ DevStep /\ length' = length /\ map' = map /\ filesize' = filesize /\ pc' = pc
      /\ req' = req /\ i' = i /\ blknr' = blknr /\ to' = to /\ run' = run
      /\ result' = result
  BY DEF Device, fvars
<1>2. LoopTyped /\ AtBlock /\ RunOK /\ BufOK /\ DevOK /\ IdleOK
  BY DEF LoopOK, ReadOK
<1>3. pc = "spill" /\ run # NoRun /\ Serves(run.start, run.skip, run.extent, run.to)
  <2>1. dev # DevIdle
    BY <1>1 DEF DevStep, Check, Head, Small, Body, Tail, DevIdle
  <2> QED BY <1>2, <2>1 DEF DevOK, IdleOK, LoopTyped
<1>4. i \in FirstBlock..BlockCnt
  BY <1>2, <1>3 DEF AtBlock
<1>5. PICK a \in FirstBlock..BlockCnt : RunFrom(a)
  BY <1>2, <1>3 DEF RunOK
<1>6. PICK s \in Int, o \in Nat, l \in Nat, at \in Nat :
        /\ s = run.start /\ o = run.skip /\ l = run.extent /\ at = run.to
        /\ at + l <= req.len /\ Boundary(s, o, l, at)
  <2>1. /\ run.start \in Int /\ run.skip \in 0..(BlockSize - 1)
        /\ run.extent \in Nat /\ run.to \in Nat /\ run.to + run.extent <= req.len
        /\ Boundary(run.start, run.skip, run.extent, run.to)
    BY <1>2, <1>3, <1>4, <1>5, RunCovers
  <2>2. run.skip \in Nat
    BY <2>1, BlockSizes
  <2> QED BY <2>1, <2>2
<1>7. Serves(s, o, l, at)
  BY <1>3, <1>6
<1>8. Kinds' /\ Serves(s, o, l, at)' /\ Untouched(l, at)
  <2>1. Kinds /\ buf \in Bytes /\ length \in Nat
    BY <1>2, MarkedBytes, Wholes DEF LoopTyped
  <2> QED BY <1>1, <1>6, <1>7, <2>1, DevStepServes
<1>9. DevOK'
  <2>1. Serves(run.start, run.skip, run.extent, run.to)'
    BY <1>1, <1>6, <1>8 DEF Serves, Copied, Cursor
  <2> QED BY <1>1, <1>3, <2>1 DEF DevOK
<1>10. /\ FirstBlock' = FirstBlock /\ BlockCnt' = BlockCnt /\ Begin(i)' = Begin(i)
       /\ \A b : RunFrom(b)' <=> RunFrom(b)
       /\ \A k : FileByte(k)' = FileByte(k)
  BY <1>1, SameRun
<1>11. LoopTyped'
  <2>1. buf' \in Marked
    BY <1>2, <1>8 DEF LoopTyped, Untouched
  <2> QED BY <1>1, <1>2, <1>8, <2>1, SMTT(30) DEF LoopTyped, Asks
<1>12. AtBlock' /\ RunOK' /\ IdleOK'
  BY <1>1, <1>2, <1>3, <1>10 DEF AtBlock, RunOK, IdleOK
<1>13. /\ DOMAIN buf = 0..(BufSize - 1) /\ DOMAIN buf' = 0..(BufSize - 1)
       /\ BufSize \in Nat /\ req.len \in Nat
  BY <1>2, <1>11, BlockSizes DEF LoopTyped, Marked, Asks
<1>14. \A k \in 0..(BufSize - 1) : (k < at \/ k >= req.len) => buf'[k] = buf[k]
  BY <1>6, <1>8, <1>13, SMTT(30) DEF Untouched
<1>15. ASSUME NEW k \in 0..(Front' - 1), k < req.len
       PROVE  buf'[k] \in {FileByte(req.pos + k), Garbage, Stray}
  <2>1. Front = at /\ Front' = at
    BY <1>1, <1>3, <1>6 DEF Front
  <2>2. buf[k] \in {FileByte(req.pos + k), Garbage, Stray}
    BY <1>2, <1>3, <1>15, <2>1 DEF BufOK
  <2>3. k \in 0..(BufSize - 1) /\ k < at
    <3>1. at <= BufSize
      BY <1>6, BlockSizes DEF Boundary
    <3> QED BY <1>13, <1>15, <2>1, <3>1
  <2> QED BY <1>14, <2>2, <2>3
<1>16. OverrunOnlyByHole'
  BY <1>1, <1>2, <1>10, <1>13, <1>14 DEF BufOK, OverrunOnlyByHole
<1>17. BufOK'
  BY <1>1, <1>10, <1>15, <1>16 DEF BufOK
<1> QED BY <1>9, <1>11, <1>12, <1>17 DEF LoopOK, ReadOK

LEMMA SpilledKeeps ==
  ASSUME LoopOK, Spilled
  PROVE  LoopOK'
<1>1. /\ pc = "spill" /\ DevReturned /\ dev' = DevIdle
      /\ \/ dev.pc = "failed" /\ pc' = "done" /\ result' = -1 /\ run' = run
         \/ /\ dev.pc = "ok" /\ pc' = (IF i < BlockCnt THEN "place" ELSE "map")
            /\ run' = NoRun /\ result' = result
      /\ buf' = buf /\ length' = length /\ map' = map /\ filesize' = filesize
      /\ req' = req /\ i' = i /\ blknr' = blknr /\ to' = to
  BY DEF Spilled, Return, DevReturned
<1>2. LoopTyped /\ AtBlock /\ RunOK /\ BufOK /\ DevOK
  BY DEF LoopOK, ReadOK
<1>3. run # NoRun /\ Serves(run.start, run.skip, run.extent, run.to)
      /\ i \in FirstBlock..BlockCnt
  BY <1>1, <1>2 DEF DevOK, AtBlock
<1>4. PICK a \in FirstBlock..BlockCnt : RunFrom(a)
  BY <1>2, <1>3 DEF RunOK
<1>5. /\ FirstBlock' = FirstBlock /\ BlockCnt' = BlockCnt /\ Begin(i)' = Begin(i)
      /\ \A k : FileByte(k)' = FileByte(k)
  BY <1>1 DEF FirstBlock, BlockCnt, Begin, SkipOf, BlockSize, FileByte
<1>6. LoopTyped'
  <2>1. Kinds'
    BY <1>1 DEF Kinds, DevIdle, DevPc
  <2>2. -1 \in -1..MaxLen
    BY BlockSizes
  <2> QED BY <1>1, <1>2, <2>1, <2>2 DEF LoopTyped, Marked, Asks
<1>7. AtBlock'
  BY <1>1, <1>2, <1>5 DEF AtBlock
<1>8. RunOK'
  <2>1. CASE run' = NoRun
    BY <2>1 DEF RunOK
  <2>2. CASE run' = run
    <3>1. RunFrom(a)' <=> RunFrom(a)
      BY <1>1, <2>2, SameRun
    <3> QED BY <1>1, <1>3, <1>4, <1>5, <2>2, <3>1 DEF RunOK
  <2> QED BY <1>1, <2>1, <2>2
<1>9. DevOK' /\ IdleOK'
  BY <1>1 DEF DevOK, IdleOK
<1>10. OverrunOnlyByHole'
  BY <1>1, <1>2, <1>5 DEF BufOK, OverrunOnlyByHole
<1>11. CASE dev.pc = "failed"
  BY <1>1, <1>6, <1>7, <1>8, <1>9, <1>10, <1>11 DEF LoopOK, ReadOK, BufOK
<1>12. CASE dev.pc = "ok"
  <2>1. /\ run.start >= 0 /\ run' = NoRun
        /\ Copied(First(run.start, run.skip), run.to, run.to + run.extent)
    BY <1>1, <1>3, <1>12 DEF Serves
  <2>2. /\ run.extent \in Nat /\ run.to \in Nat /\ run.to + run.extent = Before(i)
    BY <1>2, <1>3, <1>4, RunCovers
  <2>3. FirstBlock \in Nat /\ BlockCnt \in Nat /\ req.len \in Nat /\ to \in Nat /\ a < i
    BY <1>2, <1>4, BlocksOf, BlockSizes DEF LoopTyped, Asks, RunFrom
  <2>4. ASSUME NEW k \in 0..(to - 1), k < req.len
        PROVE  buf[k] \in {FileByte(req.pos + k), Garbage, Stray}
    <3>1. CASE k < run.to
      <4>1. Front = run.to /\ k \in 0..(Front - 1)
        BY <1>3, <2>2, <3>1 DEF Front
      <4> QED BY <1>1, <1>2, <2>4, <4>1 DEF BufOK
    <3>2. CASE k >= run.to
      <4>1. k < Before(i) /\ Before(i) \in Int
        <5>1. i < BlockCnt => Before(i) = to
          BY <1>1, <1>2, <1>3, <2>3, Befores DEF LoopTyped, AtBlock
        <5>2. i = BlockCnt => Before(i) = req.len
          BY <1>2, <1>3, Befores DEF LoopTyped
        <5> QED BY <1>3, <2>3, <2>4, <5>1, <5>2
      <4>2. PICK j \in 0..(run.extent - 1) : k = run.to + j
        <5>1. k - run.to \in 0..(run.extent - 1)
          BY <2>2, <3>2, <4>1
        <5>2. k = run.to + (k - run.to)
          BY <2>2
        <5> QED BY <5>1, <5>2
      <4>3. First(run.start, run.skip) + j = FileByte(req.pos + run.to + j)
        BY <1>2, <1>3, <1>4, <2>1, <2>2, RunBytes DEF LoopTyped
      <4>4. req.pos + run.to + j = req.pos + k
        <5>1. req.pos \in Nat
          BY <1>2, BlockSizes DEF LoopTyped, Asks
        <5> QED BY <2>2, <4>2, <5>1
      <4>5. k \in run.to..((run.to + run.extent) - 1) /\ k - run.to = j
        BY <2>2, <4>2
      <4>6. buf[k] \in {First(run.start, run.skip) + j, Garbage, Stray}
        BY <2>1, <4>5 DEF Copied
      <4> QED BY <4>3, <4>4, <4>6
    <3> QED BY <2>2, <3>1, <3>2
  <2>5. BufOK'
    <3>1. Front' = to
      BY <1>1, <2>1 DEF Front
    <3> QED BY <1>1, <1>5, <1>10, <2>4, <3>1 DEF BufOK
  <2> QED BY <1>6, <1>7, <1>8, <1>9, <2>5 DEF LoopOK, ReadOK
<1> QED BY <1>1, <1>11, <1>12

(***************************************************************************)
(* Every step of the loop keeps what is known of it.                       *)
(***************************************************************************)
LEMMA NextKeeps ==
  ASSUME LoopOK, Next
  PROVE  LoopOK'
<1>1. CASE \E pos \in 0..MaxPos, len \in 0..MaxLen : Read(pos, len)
  BY <1>1, ReadKeeps
<1>2. CASE MapBlock \/ Done \/ Taken
  BY <1>2, MapBlockKeeps, DoneKeeps, TakenKeeps
<1>3. CASE StartRun \/ Extend \/ Hole
  BY <1>3, StartRunKeeps, ExtendKeeps, HoleKeeps
<1>4. CASE Spill \/ Device \/ Spilled
  BY <1>4, SpillKeeps, DeviceKeeps, SpilledKeeps
<1> QED BY <1>1, <1>2, <1>3, <1>4 DEF Next, Onward
=============================================================================
