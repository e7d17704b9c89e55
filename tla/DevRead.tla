------------------------------- MODULE DevRead -------------------------------
(***************************************************************************)
(* vfs_devread (fs.c:35-103): byte_len bytes from byte byte_offset of      *)
(* sector sector of a partition into the caller's buffer.  The device only *)
(* reads whole sectors, so a call has up to three parts: the rest of a     *)
(* first sector (head), whole sectors (body) and the beginning of a last   *)
(* sector (tail); a call that starts aligned, or has passed its head, and  *)
(* has less than a sector left takes a path of its own (small).            *)
(*                                                                         *)
(* One action per part_read (disk.c:79-87 and 190-193, phy_disk.c:41-62,   *)
(* vmdk_disk.c:60-66), which succeeds, fails, or succeeds with bytes from  *)
(* elsewhere: phy_disk_read does not look whether its seek failed, nor     *)
(* whether it got all it asked for.  A byte of the partition stands for    *)
(* its own address, so the buffer shows where each of its bytes came from. *)
(* Sectors are ints, whose sums wrap (line 41).                            *)
(***************************************************************************)
EXTENDS Integers

CONSTANTS
  SectorSize,     (* SECTOR_SIZE, in bytes                                   *)
  PartLengths,    (* the lengths a partition may have, in sectors            *)
  IntMax,         (* 2^31 - 1                                                *)
  BufSize         (* bytes of the buffer the model watches                   *)

ASSUME DevAssumption ==
  /\ SectorSize \in Nat \ {0} /\ PartLengths \subseteq Nat
  /\ IntMax \in Nat /\ BufSize \in 0..IntMax               (* byte_len is an int *)

Unset == -1       (* a byte of the buffer nothing was written to             *)
Garbage == -2     (* a byte of a sector buffer after a failed part_read      *)
Zero == -3        (* a byte the caller cleared                               *)
Stray == -4       (* a byte that a part_read took from elsewhere             *)

VARIABLES
  length,         (* part_info->length                                       *)
  dev,            (* the call: pc, sector, offset, len, and where in the     *)
                  (* buffer its next byte goes                               *)
  buf             (* the caller's buffer                                     *)

DevPc == {"idle", "check", "head", "small", "body", "tail", "ok", "failed"}
DevIdle == [pc |-> "idle", sector |-> 0, offset |-> 0, len |-> 0, to |-> 0]

DevTypeOK ==
  /\ length \in PartLengths
  /\ dev \in [pc : DevPc, sector : Int, offset : Int, len : Nat, to : Nat]
  /\ buf \in [0..(BufSize - 1) -> Nat \cup {Unset, Garbage, Zero, Stray}]

Lesser(a, b) == IF a <= b THEN a ELSE b

(* A number as an int and as an unsigned int.                              *)
Unsigned(x) == x % (2 * (IntMax + 1))
Wrap(x) == IF Unsigned(x) <= IntMax THEN Unsigned(x)
                                    ELSE Unsigned(x) - 2 * (IntMax + 1)

DevCall(sector, offset, len, to) ==
  dev' = [pc |-> "check", sector |-> sector, offset |-> offset, len |-> len,
          to |-> to]

(* memcpy of n bytes from byte from of a sector to byte to of the buffer.  *)
CopyNotOffset(n, sector, from, to) ==
  [k \in DOMAIN buf |->
     IF k \in to..(to + n - 1) THEN sector * SectorSize + (k - to) ELSE buf[k]]

Copy(n, sector, from, to) ==
  [k \in DOMAIN buf |->
     IF k \in to..(to + n - 1) THEN sector * SectorSize + from + (k - to)
                               ELSE buf[k]]

Fill(n, to, mark) ==
  [k \in DOMAIN buf |-> IF k \in to..(to + n - 1) THEN mark ELSE buf[k]]

(* A part_read that returns 0: the seek may have failed.                   *)
Delivered(n, sector, from, to) ==
  {Copy(n, sector, from, to), Fill(n, to, Stray)}

(* Where an aligned call with len bytes left goes (lines 70-76).           *)
AlignedPc(len) ==
  CASE len = 0 -> "ok"
    [] len > 0 /\ len < SectorSize -> "small"
    [] OTHER -> "body"

OutsideLoose(d) ==
  \/ d.sector < 0
  \/ d.sector + ((d.offset + d.len - 1) \div SectorSize) > length

(* Lines 41-44.  A negative sum is compared as a huge unsigned number.     *)
Outside(d) ==
  LET last == Wrap(d.sector + ((d.offset + d.len - 1) \div SectorSize))
  IN  d.sector < 0 \/ last < 0 \/ last >= length

Check ==
  /\ dev.pc = "check"
  /\ UNCHANGED buf
  /\ \/ /\ Outside(dev)
        /\ dev' = [dev EXCEPT !.pc = "failed"]
     \/ /\ ~Outside(dev)
        /\ dev' = [dev EXCEPT
             !.pc = IF dev.offset % SectorSize # 0 THEN "head"
                                                   ELSE AlignedPc(dev.len),
             !.sector = @ + (dev.offset \div SectorSize),
             !.offset = @ % SectorSize]

Head ==
  /\ dev.pc = "head"
  /\ \/ LET n == Lesser(SectorSize - dev.offset, dev.len)
        IN  /\ buf' \in Delivered(n, dev.sector, dev.offset, dev.to)
            /\ dev' = [dev EXCEPT !.pc = AlignedPc(dev.len - n),
                                  !.sector = @ + 1,
                                  !.len = @ - n,
                                  !.to = @ + n]
     \/ /\ dev' = [dev EXCEPT !.pc = "failed"]
        /\ UNCHANGED buf

(* Line 80 does not look at what part_read returns.                        *)
Small ==
  /\ dev.pc = "small"
  /\ \/ buf' \in Delivered(dev.len, dev.sector, 0, dev.to)
     \/ buf' = Fill(dev.len, dev.to, Garbage)
  /\ dev' = [dev EXCEPT !.pc = "ok"]

(* The body is read into the caller's buffer; when that fails half way,    *)
(* what it leaves there is anything.                                       *)
Body ==
  /\ dev.pc = "body"
  /\ LET n == dev.len - (dev.len % SectorSize)
     IN  \/ /\ buf' \in Delivered(n, dev.sector, 0, dev.to)
            /\ dev' = [dev EXCEPT !.pc = IF dev.len = n THEN "ok" ELSE "tail",
                                  !.sector = @ + (n \div SectorSize),
                                  !.len = @ - n,
                                  !.to = @ + n]
         \/ /\ buf' = Fill(n, dev.to, Garbage)
            /\ dev' = [dev EXCEPT !.pc = "failed"]

Tail ==
  /\ dev.pc = "tail"
  /\ \/ /\ buf' \in Delivered(dev.len, dev.sector, 0, dev.to)
        /\ dev' = [dev EXCEPT !.pc = "ok"]
     \/ /\ dev' = [dev EXCEPT !.pc = "failed"]
        /\ UNCHANGED buf

DevStep == Check \/ Head \/ Small \/ Body \/ Tail
DevReturned == dev.pc \in {"ok", "failed"}

-----------------------------------------------------------------------------
(* The sectors the next part_read of the call asks the device for.         *)
Asked ==
  CASE dev.pc \in {"head", "small", "tail"} -> {dev.sector}
    [] dev.pc = "body" ->
         dev.sector..(dev.sector + (dev.len \div SectorSize) - 1)
    [] OTHER -> {}

(***************************************************************************)
(* "Check partition boundaries" (fs.c:40): whatever part of a call it is,  *)
(* no read reaches the sectors before or after the partition.  The check   *)
(* is made once, on the whole range, and each part moves sector, offset    *)
(* and length on from there.                                               *)
(***************************************************************************)
InPartition == Asked \subseteq 0..(length - 1)
=============================================================================
