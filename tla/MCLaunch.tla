------------------------------- MODULE MCLaunch -------------------------------
(* Launch with five disks: primary partitions only; an extended partition  *)
(* before a primary one, with a chain of three boot records; one that is   *)
(* empty and one whose first record has only a link; five partitions, more *)
(* than the service asks for; and a chain that leads past the end.         *)
EXTENDS Launch

None == [type |-> "unused", off |-> 0, len |-> 0]
Data(off, len) == [type |-> "data", off |-> off, len |-> len]
Ext(off) == [type |-> "extended", off |-> off, len |-> 0]

Primary == [s \in {0} |-> <<Data(1, 4), None, Data(5, 2), None>>]

Chain ==
  [s \in {0, 10, 14, 18} |->
     CASE s = 0 -> <<None, Ext(10), Data(30, 3), None>>
       [] s = 10 -> <<Data(1, 3), Ext(4)>>
       [] s = 14 -> <<None, Ext(8)>>
       [] s = 18 -> <<Data(2, 2), None>>]

Sparse ==
  [s \in {0, 10, 20, 24} |->
     CASE s = 0 -> <<Ext(10), None, Ext(20), Data(40, 1)>>
       [] s = 10 -> <<None, None>>
       [] s = 20 -> <<None, Ext(4)>>
       [] s = 24 -> <<Data(1, 5), None>>]

Many ==
  [s \in {0, 10, 14} |->
     CASE s = 0 -> <<Data(1, 2), Data(3, 2), Data(5, 2), Ext(10)>>
       [] s = 10 -> <<Data(1, 3), Ext(4)>>
       [] s = 14 -> <<Data(1, 3), None>>]

Beyond ==
  [s \in {0, 10} |->
     CASE s = 0 -> <<Ext(10), Data(40, 1), None, None>>
       [] s = 10 -> <<Data(1, 3), Ext(90)>>]

MCDisks == {Primary, Chain, Sparse, Many, Beyond}

(* Bytes that are no table: of a file system that was there before.        *)
MCStrays == {[off |-> 24, len |-> 5]}
=============================================================================
