----------------------------- MODULE MCBlockMap -----------------------------
(* BlockMap with one direct pointer and two pointers per block: 15 logical *)
(* blocks, of which the last 8 are triple indirect and the last 4 lie in   *)
(* its second half.  Blocks 1..15 are data, 21 on are pointer blocks.  The *)
(* double indirect tree has a null pointer, and block 0, where it leads,   *)
(* does not read as null pointers.                                         *)
EXTENDS BlockMap

MCBlock == 0..15 \cup 21..30

MCDir == [i \in 0..0 |-> 1]
MCRoot == <<21, 22, 24>>

Pointers(a, b) == [s \in 0..1 |-> IF s = 0 THEN a ELSE b]

MCDisk ==
  [b \in MCBlock |->
     CASE b = 0  -> Pointers(6, 0)
       [] b = 21 -> Pointers(2, 3)
       [] b = 22 -> Pointers(23, 0)
       [] b = 23 -> Pointers(4, 5)
       [] b = 24 -> Pointers(25, 26)
       [] b = 25 -> Pointers(27, 28)
       [] b = 26 -> Pointers(29, 30)
       [] b = 27 -> Pointers(8, 9)
       [] b = 28 -> Pointers(10, 11)
       [] b = 29 -> Pointers(12, 13)
       [] b = 30 -> Pointers(14, 15)
       [] OTHER -> Pointers(0, 0)]

MCTorn == Pointers(7, 0)
=============================================================================
