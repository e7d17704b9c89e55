------------------------------ MODULE FileRead ------------------------------
(***************************************************************************)
(* ext4fs_read_file (ext4.c:390-494) on top of vfs_devread (DevRead): the  *)
(* bytes from pos on of a file whose blocks read_allocated_block1 finds.   *)
(* The loop does not read a block when it meets it: it keeps a delayed run *)
(* of adjacent blocks and reads the run in one call when a block does not  *)
(* follow it (another place, a hole, the end of the request).              *)
(*                                                                         *)
(* The block map of a file is a constant function picked in Init, which    *)
(* BlockMap is about: 0 is a hole.  blocknr is in sectors, as in the code  *)
(* after line 421, and a run's buffer is its offset from the caller's.     *)
(***************************************************************************)
EXTENDS DevRead

CONSTANTS
  SectorsPerBlock,    (* 1 << log2blocksize                                  *)
  Blocks,             (* the logical blocks watched: 0..(Blocks - 1)         *)
  Maps,               (* the block maps the file may have                    *)
  FileSizes,          (* the values of node->inode.size                      *)
  MaxPos, MaxLen      (* bounds on the request                               *)

BlockSize == SectorsPerBlock * SectorSize
NoRun == [extent |-> -1]

ASSUME FileAssumption ==
  /\ SectorsPerBlock \in Nat \ {0} /\ Blocks \in Nat
  /\ Maps \subseteq [0..(Blocks - 1) -> Nat]
  /\ FileSizes \subseteq Nat /\ MaxPos \in Nat /\ MaxLen \in Nat
  /\ MaxPos + MaxLen <= Blocks * BlockSize
  /\ MaxLen + BlockSize <= BufSize

(* A file has no block twice, and a partition at most 2^32 sectors.        *)
ASSUME MapsAssumption ==
  \A m \in Maps : \A x, y \in 0..(Blocks - 1) :
    /\ (m[x] + 1) * SectorsPerBlock <= 2 * (IntMax + 1)
    /\ x # y /\ m[x] = m[y] => m[x] = 0

VARIABLES
  map, filesize,      (* the file                                            *)
  pc,                 (* idle, map, place, spill, done                       *)
  req,                (* pos, len as asked and len as adjusted (line 407)    *)
  i,                  (* the loop's block                                    *)
  blknr,              (* its sector, 0 for a hole                            *)
  to,                 (* buf, how far the loop has moved in the buffer       *)
  run,                (* the delayed run: start, extent, skip, next, to      *)
  result              (* what the last call returned                         *)

fvars == <<length, map, filesize, pc, req, i, blknr, to, run, result>>
vars == <<dev, buf, fvars>>

TypeOK ==
  /\ DevTypeOK
  /\ map \in Maps /\ filesize \in FileSizes
  /\ pc \in {"idle", "map", "place", "spill", "done"}
  /\ req \in [pos : 0..MaxPos, len : 0..MaxLen]
  /\ i \in 0..Blocks /\ blknr \in Int /\ to \in 0..BufSize
  /\ run = NoRun \/ run \in [start : Int, extent : Nat, skip : 0..(BlockSize - 1),
                             next : Int, to : 0..BufSize]
  /\ result \in -1..MaxLen

NoRead == [pos |-> 0, len |-> 0]

Init ==
  /\ length \in PartLengths /\ map \in Maps /\ filesize \in FileSizes
  /\ dev = DevIdle
  /\ buf = [k \in 0..(BufSize - 1) |-> Unset]
  /\ pc = "idle" /\ req = NoRead
  /\ i = 0 /\ blknr = 0 /\ to = 0
  /\ run = NoRun
  /\ result = 0

FirstBlock == req.pos \div BlockSize
BlockCnt == (req.len + req.pos + BlockSize - 1) \div BlockSize

SkipFirst == IF i = FirstBlock THEN req.pos % BlockSize ELSE 0

(* Lines 424-437: how much of block i the request wants.                   *)
BlockEndNotWhole ==
  IF i = BlockCnt - 1 THEN ((req.len + req.pos) % BlockSize) - SkipFirst
                      ELSE BlockSize - SkipFirst

BlockEndForgetsFirst ==
  LET rest == (req.len + req.pos) % BlockSize
  IN  IF i = BlockCnt - 1 /\ rest # 0 THEN rest ELSE BlockSize

BlockEnd ==
  LET rest == (req.len + req.pos) % BlockSize
      end  == IF i = BlockCnt - 1 /\ rest # 0 THEN rest ELSE BlockSize
  IN  end - SkipFirst

NewRun == [start |-> blknr, extent |-> BlockEnd, skip |-> SkipFirst,
           next |-> Wrap(blknr + (BlockEnd \div SectorSize)), to |-> to]

(* A call: the length is adjusted to the size of the file (line 407).      *)
Read(pos, len) ==
  /\ pc = "idle"
  /\ pc' = "map"
  /\ req' = [pos |-> pos, len |-> Lesser(len, filesize)]
  /\ i' = pos \div BlockSize
  /\ UNCHANGED <<dev, buf, length, map, filesize, blknr, to, run, result>>

Return(v) ==
  /\ pc' = "done"
  /\ result' = v

(* read_allocated_block1 finds the block, or fails.                        *)
MapBlock ==
  /\ pc = "map" /\ i < BlockCnt
  /\ \/ /\ blknr' = Wrap(map[i] * SectorsPerBlock)
        /\ pc' = "place"
        /\ UNCHANGED result
     \/ /\ Return(-1)
        /\ UNCHANGED blknr
  /\ UNCHANGED <<dev, buf, length, map, filesize, req, i, to, run>>

NextBlock ==
  /\ i' = i + 1
  /\ to' = to + (BlockSize - SkipFirst)
  /\ pc' = "map"

StartRun ==
  /\ pc = "place" /\ blknr # 0 /\ run = NoRun
  /\ run' = NewRun
  /\ NextBlock
  /\ UNCHANGED <<dev, buf, length, map, filesize, req, blknr, result>>

AdjoinsLoose == run # NoRun /\ blknr >= run.next

Adjoins == run # NoRun /\ run.next = blknr

Extend ==
  /\ pc = "place" /\ blknr # 0 /\ Adjoins
  /\ run' = [run EXCEPT !.extent = @ + BlockEnd,
                        !.next = Wrap(@ + (BlockEnd \div SectorSize))]
  /\ NextBlock
  /\ UNCHANGED <<dev, buf, length, map, filesize, req, blknr, result>>

(* Line 479: the rest of the block is cleared, wanted or not.              *)
Hole ==
  /\ pc = "place" /\ blknr = 0 /\ run = NoRun
  /\ buf' = [k \in DOMAIN buf |->
               IF k \in to..(to + (BlockSize - SkipFirst) - 1) THEN Zero ELSE buf[k]]
  /\ NextBlock
  /\ UNCHANGED <<dev, length, map, filesize, req, blknr, run, result>>

(* The delayed run is read: block i does not follow it, or the loop is     *)
(* over.  Lines 447-451, 471-475 and 485-487.                              *)
Spill ==
  /\ dev.pc = "idle" /\ run # NoRun
  /\ \/ pc = "place" /\ (blknr = 0 \/ ~Adjoins)
     \/ pc = "map" /\ i >= BlockCnt
  /\ DevCall(run.start, run.skip, run.extent, run.to)
  /\ pc' = "spill"
  /\ UNCHANGED <<buf, length, map, filesize, req, i, blknr, to, run, result>>

Device ==
  /\ DevStep
  /\ UNCHANGED fvars

(* Back in the loop, with block i still to be placed (a run of its own or  *)
(* a hole), or at its end.                                                 *)
Spilled ==
  /\ pc = "spill" /\ DevReturned
  /\ dev' = DevIdle
  /\ IF dev.pc = "failed"
     THEN Return(-1) /\ UNCHANGED run
     ELSE /\ pc' = IF i < BlockCnt THEN "place" ELSE "map"
          /\ run' = NoRun
          /\ UNCHANGED result
  /\ UNCHANGED <<buf, length, map, filesize, req, i, blknr, to>>

DoneKeepsRun ==
  /\ pc = "map" /\ i >= BlockCnt
  /\ Return(req.len)
  /\ UNCHANGED <<dev, buf, length, map, filesize, req, i, blknr, to, run>>

Done ==
  /\ pc = "map" /\ i >= BlockCnt /\ run = NoRun
  /\ Return(req.len)
  /\ UNCHANGED <<dev, buf, length, map, filesize, req, i, blknr, to, run>>

(* The caller has its answer.  The next read has a buffer of its own, and  *)
(* nothing of this one is left.                                            *)
Taken ==
  /\ pc = "done"
  /\ pc' = "idle" /\ req' = NoRead
  /\ i' = 0 /\ blknr' = 0 /\ to' = 0
  /\ run' = NoRun
  /\ result' = 0
  /\ buf' = [k \in DOMAIN buf |-> Unset]
  /\ UNCHANGED <<dev, length, map, filesize>>

Onward ==
  MapBlock \/ StartRun \/ Extend \/ Hole \/ Spill \/ Device \/ Spilled \/ Done

Next ==
  \/ \E pos \in 0..MaxPos, len \in 0..MaxLen : Read(pos, len)
  \/ Onward \/ Taken

(* The thread that reads goes on; nobody has to ask it to.                 *)
Spec == Init /\ [][Next]_vars /\ WF_vars(Onward)

-----------------------------------------------------------------------------
(* The reference: byte x of the file, an address of the partition or zero. *)
FileByte(x) ==
  LET b == map[x \div BlockSize]
  IN  IF b = 0 THEN Zero ELSE b * BlockSize + (x % BlockSize)

(***************************************************************************)
(* A read that succeeds delivers the file's bytes in their places, for     *)
(* every pattern of adjacent, scattered and missing blocks and every       *)
(* alignment of the request, and fails for a block whose sector is no int. *)
(* The exceptions are what the device layer lets pass: a byte fs.c:80 took *)
(* from a part_read whose failure it ignored, and one that a part_read     *)
(* took from elsewhere (phy_disk.c:56).                                    *)
(***************************************************************************)
ReadIsFileContent ==
  (pc = "map" /\ i >= BlockCnt /\ run = NoRun) =>
     \A k \in 0..(req.len - 1) : buf[k] \in {FileByte(req.pos + k), Garbage, Stray}

(***************************************************************************)
(* The delayed run stands for the bytes of the file from run.to on: read   *)
(* as one piece of the device, it gives what the blocks it was put         *)
(* together from would give, and nothing lies unread before it.  (From a   *)
(* sector that is no int, none of it is read.)                             *)
(***************************************************************************)
RunIsFile ==
  run # NoRun =>
    /\ run.start >= 0 => \A k \in 0..(run.extent - 1) :
         run.start * SectorSize + run.skip + k = FileByte(req.pos + run.to + k)
    /\ pc \in {"map", "place"} =>
         \A k \in 0..(run.to - 1) : buf[k] # Unset

(***************************************************************************)
(* What a read writes past the length it was asked for: nothing, unless    *)
(* the last block of the request is a hole, which line 479 clears to the   *)
(* end of the block.  A run never does.                                    *)
(***************************************************************************)
OverrunOnlyByHole ==
  \A k \in DOMAIN buf :
    (pc # "idle" /\ k >= req.len /\ buf[k] # Unset) =>
       buf[k] = Zero /\ map[(BlockCnt - 1)] = 0

(***************************************************************************)
(* The whole of it is one answer to each request.                          *)
(***************************************************************************)
Promise == INSTANCE FileSpec WITH
  Positions <- 0..MaxPos, Lengths <- 0..MaxLen, Unsure <- {Garbage, Stray},
  content <- [x \in 0..(Blocks * BlockSize - 1) |-> FileByte(x)],
  size <- filesize,
  asked <- IF pc \in {"idle", "done"} THEN [pos |-> 0, len |-> -1] ELSE req,
  answer <- CASE pc # "done" -> [st |-> "none", bytes |-> <<>>]
              [] pc = "done" /\ result = -1 -> [st |-> "failed", bytes |-> <<>>]
              [] OTHER -> [st |-> "read", bytes |-> [k \in 0..(result - 1) |-> buf[k]]]

(***************************************************************************)
(* The loop with its delayed runs, on top of the parts of vfs_devread,     *)
(* implements the read function of a file: every request is answered, once *)
(* and with the file's bytes or an error.                                  *)
(***************************************************************************)
ReadPromise == Promise!Spec

(***************************************************************************)
(* "Adjust len so it we can't read past the end of the file."              *)
(* (ext4.c:406)                                                            *)
(***************************************************************************)
NoReadPastEnd ==
  (pc = "done" /\ result > 0) => req.pos + result <= filesize
=============================================================================
