----------------------------- MODULE MCFileRead -----------------------------
(* InodeRead with sectors of 2 bytes, blocks of 2 sectors and ints up to   *)
(* 15.  A file has up to 3 blocks among the partition's blocks 6, 7 and    *)
(* 8, each block once, with holes anywhere.  A short partition ends in the *)
(* middle of block 7; in a long one block 8 starts at a sector that is no  *)
(* int.  Three groups have two blocks of four inodes each; what lies in a  *)
(* block does not matter, so files and tables may share blocks.            *)
EXTENDS InodeRead

OnceEach(m) ==
  \A x, y \in 0..2 : (x # y /\ m[x] = m[y]) => m[x] = 0

MCMaps ==
  {[b \in 0..4 |-> IF b < 3 THEN m[b] ELSE 0] :
     m \in {f \in [0..2 -> {0, 6, 7, 8}] : OnceEach(f)}}

MCTables == [g \in 0..2 |-> 3 + 2 * g]
=============================================================================
