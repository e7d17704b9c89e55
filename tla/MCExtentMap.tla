---------------------------- MODULE MCExtentMap ----------------------------
(* ExtentMap with inodes that hold: extents with a gap before, between and *)
(* behind them; two extents that adjoin; no extent; an index over two      *)
(* leaves; an index over an index; and a node without magic.               *)
EXTENDS ExtentMap

Extent(block, len, start) == [block |-> block, len |-> len, start |-> start]
Index(block, leaf) == [block |-> block, leaf |-> leaf]
Tree(depth, entries) == [magic |-> TRUE, depth |-> depth, entries |-> entries]

MCDisk ==
  [b \in 51..53 |->
     CASE b = 51 -> Tree(0, <<Extent(0, 2, 20), Extent(3, 1, 30)>>)
       [] b = 52 -> Tree(0, <<Extent(5, 3, 40)>>)
       [] b = 53 -> Tree(1, <<Index(0, 51), Index(5, 52)>>)]

MCTops ==
  { Tree(0, <<Extent(1, 2, 20), Extent(5, 2, 30)>>),
    Tree(0, <<Extent(0, 2, 20), Extent(2, 1, 30), Extent(3, 2, 10)>>),
    Tree(0, <<>>),
    Tree(1, <<Index(0, 51), Index(5, 52)>>),
    Tree(2, <<Index(0, 53)>>),
    [magic |-> FALSE, depth |-> 0, entries |-> <<Extent(0, 9, 20)>>] }
=============================================================================
