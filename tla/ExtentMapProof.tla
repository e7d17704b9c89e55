---------------------------- MODULE ExtentMapProof ----------------------------
(***************************************************************************)
(* Proofs about ext4fs_get_extent_block and the search of a leaf: what an  *)
(* inode's own extents answer is what they map, and an index answers       *)
(* nothing.                                                                *)
(***************************************************************************)
EXTENDS ExtentMap, WellFoundedInduction, TLAPS

-----------------------------------------------------------------------------
(***************************************************************************)
(* The search of a leaf ends between the extents that start at or before   *)
(* fileblock and those that start behind it.                               *)
(***************************************************************************)
LEMMA LeastIs ==
  ASSUME NEW S, S \subseteq Nat, S # {}
  PROVE  \E k \in S : \A j \in S : k <= j
<1> DEFINE less == { ss \in Nat \X Nat : ss[1] < ss[2] }
<1>1. IsWellFoundedOn(less, Nat)
  BY NatLessThanWellFounded DEF OpToRel
<1>2. PICK k \in S : \A j \in S : ~(<<j, k>> \in less)
  BY <1>1, WFMin
<1>3. \A j \in S : j \in Nat /\ k \in Nat /\ ~(j < k)
  BY <1>2
<1> QED BY <1>3

LEMMA EntriesAre ==
  ASSUME NEW n \in Tops, n.depth = 0
  PROVE  /\ DOMAIN n.entries = 1..Len(n.entries) /\ Len(n.entries) \in Nat
         /\ \A k \in 1..Len(n.entries) :
              /\ n.entries[k].block \in Nat /\ n.entries[k].len \in Nat \ {0}
              /\ n.entries[k].start \in Nat \ {0}
              /\ \A j \in 1..Len(n.entries) :
                   j < k => n.entries[j].block + n.entries[j].len <= n.entries[k].block
BY TreeAssumption, ExtentsAssumption DEF IsNode

LEMMA LeafEntryIs ==
  ASSUME ext_block \in Tops, ext_block.depth = 0, fileblock \in Nat
  PROVE  /\ LeafEntry \in 0..Len(ext_block.entries)
         /\ \A k \in 1..Len(ext_block.entries) :
              k <= LeafEntry <=> ext_block.entries[k].block <= fileblock
<1> DEFINE es == ext_block.entries
           hits == { k \in DOMAIN es : fileblock < es[k].block }
<1>1. /\ DOMAIN es = 1..Len(es) /\ Len(es) \in Nat
      /\ \A k \in 1..Len(es) :
           /\ es[k].block \in Nat /\ es[k].len \in Nat \ {0}
           /\ \A j \in 1..Len(es) : j < k => es[j].block + es[j].len <= es[k].block
  BY EntriesAre
<1>2. LeafEntry = IF hits = {} THEN Len(es) ELSE (CHOOSE k \in hits : \A j \in hits : k <= j) - 1
  BY DEF LeafEntry, Before
<1>3. CASE hits = {}
  <2>1. \A k \in 1..Len(es) : k <= Len(es) /\ es[k].block <= fileblock
    BY <1>1, <1>3
  <2> QED BY <1>1, <1>2, <1>3, <2>1
<1>4. CASE hits # {}
  <2>1. hits \subseteq Nat
    BY <1>1
  <2>2. PICK m \in hits : (\A j \in hits : m <= j) /\ LeafEntry = m - 1
    BY <1>2, <1>4, <2>1, LeastIs
  <2>3. m \in 1..Len(es) /\ fileblock < es[m].block
    BY <1>1, <2>2
  <2>4. ASSUME NEW k \in 1..Len(es), k < m PROVE es[k].block <= fileblock
    <3>1. k \notin hits
      BY <2>2, <2>3, <2>4
    <3> QED BY <1>1, <3>1
  <2>5. ASSUME NEW k \in 1..Len(es), ~(k < m) PROVE fileblock < es[k].block
    <3>1. CASE k = m
      BY <2>3, <3>1
    <3>2. CASE k # m
      <4>1. es[m].block + es[m].len <= es[k].block
        BY <1>1, <2>3, <2>5, <3>2
      <4> QED BY <1>1, <2>3, <4>1
    <3> QED BY <3>1, <3>2
  <2>6. \A k \in 1..Len(es) : k <= m - 1 <=> k < m
    BY <2>3
  <2>7. ASSUME NEW k \in 1..Len(es) PROVE k <= m - 1 <=> es[k].block <= fileblock
    BY <1>1, <2>4, <2>5, <2>6
  <2> QED BY <1>1, <2>2, <2>3, <2>7
<1> QED BY <1>3, <1>4

(* What an inode's extents have for a block.                               *)
LEMMA LeafCovers ==
  ASSUME ext_block \in Tops, ext_block.depth = 0, fileblock \in Nat,
         NEW k \in 1..Len(ext_block.entries), Covers(ext_block.entries[k], fileblock)
  PROVE  k = LeafEntry /\ InExtent
<1> DEFINE es == ext_block.entries
<1>1. /\ DOMAIN es = 1..Len(es) /\ Len(es) \in Nat
      /\ \A i \in 1..Len(es) :
           /\ es[i].block \in Nat /\ es[i].len \in Nat \ {0}
           /\ \A j \in 1..Len(es) : j < i => es[j].block + es[j].len <= es[i].block
  BY EntriesAre
<1>2. es[k].block <= fileblock /\ fileblock < es[k].block + es[k].len
  BY <1>1 DEF Covers
<1>3. LeafEntry \in 0..Len(es) /\ k <= LeafEntry
  BY <1>2, LeafEntryIs
<1>4. k = LeafEntry
  <2> SUFFICES ASSUME k # LeafEntry PROVE FALSE
    OBVIOUS
  <2>1. PICK i \in 1..Len(es) : i = LeafEntry /\ k < i
    BY <1>1, <1>3
  <2>2. es[i].block <= fileblock
    BY <2>1, LeafEntryIs
  <2>3. es[k].block + es[k].len <= es[i].block
    BY <1>1, <2>1
  <2> QED BY <1>1, <1>2, <2>2, <2>3
<1>5. InExtent
  BY <1>1, <1>2, <1>4 DEF InExtent
<1> QED BY <1>4, <1>5

-----------------------------------------------------------------------------
(***************************************************************************)
(* The reference.  Its recursion has a solution: the nodes at the end of a *)
(* chain of that length, each under the one before.                        *)
(***************************************************************************)
Nodes == {top} \cup { Disk[b] : b \in DOMAIN Disk }

Chain(h, k) ==
  /\ h \in [0..k -> Nodes] /\ h[0] = top
  /\ \A i \in 0..(k - 1) : h[i + 1] \in Below(h[i])

IsLevel(f) ==
  f = [k \in Nat |-> IF k = 0 THEN {top} ELSE UNION { Below(n) : n \in f[k - 1] }]

LEMMA LevelExists == \E f : IsLevel(f)
<1> DEFINE f == [k \in Nat |-> { n \in Nodes : \E h : Chain(h, k) /\ h[k] = n }]
<1>1. f[0] = {top}
  <2>1. ASSUME NEW h, Chain(h, 0) PROVE h[0] = top
    BY <2>1 DEF Chain
  <2>2. Chain([i \in 0..0 |-> top], 0) /\ [i \in 0..0 |-> top][0] = top
    BY DEF Chain, Nodes
  <2>3. top \in Nodes
    BY DEF Nodes
  <2> QED BY <2>1, <2>2, <2>3
<1>2. ASSUME NEW k \in Nat, k # 0
      PROVE  f[k] = UNION { Below(n) : n \in f[k - 1] }
  <2>1. PICK m \in Nat : k = m + 1 /\ m = k - 1
    <3>1. k - 1 \in Nat /\ k = (k - 1) + 1
      BY <1>2
    <3> QED BY <3>1
  <2>2. ASSUME NEW x \in f[m + 1] PROVE \E n \in f[m] : x \in Below(n)
    <3>1. PICK h : Chain(h, m + 1) /\ h[m + 1] = x
      BY <2>2
    <3> DEFINE g == [i \in 0..m |-> h[i]]
    <3>2. 0 \in 0..m /\ m \in 0..m /\ m \in 0..((m + 1) - 1) /\ (m + 1) - 1 = m
      OBVIOUS
    <3>3. \A i \in 0..(m - 1) : i \in 0..m /\ i + 1 \in 0..m /\ i \in 0..((m + 1) - 1)
      OBVIOUS
    <3>4. \A i \in 0..m : i \in 0..(m + 1) /\ h[i] \in Nodes
      BY <3>1 DEF Chain
    <3>5. g \in [0..m -> Nodes] /\ g[0] = top
      BY <3>1, <3>2, <3>4 DEF Chain
    <3>6. \A i \in 0..(m - 1) : g[i + 1] \in Below(g[i])
      BY <3>1, <3>3 DEF Chain
    <3>7. Chain(g, m) /\ g[m] = h[m] /\ h[m] \in Nodes
      BY <3>2, <3>4, <3>5, <3>6 DEF Chain
    <3>8. x \in Below(h[m])
      BY <3>1, <3>2 DEF Chain
    <3>9. h[m] \in f[m]
      BY <3>7
    <3> QED BY <3>8, <3>9
  <2>3. ASSUME NEW n \in f[m], NEW x \in Below(n) PROVE x \in f[m + 1]
    <3>1. PICK h : Chain(h, m) /\ h[m] = n
      BY <2>3
    <3>2. x \in Nodes
      BY DEF Below, Nodes
    <3> DEFINE g == [i \in 0..(m + 1) |-> IF i = m + 1 THEN x ELSE h[i]]
    <3>3. \A i \in 0..(m + 1) : i = m + 1 \/ i \in 0..m
      OBVIOUS
    <3>4. /\ m + 1 \in 0..(m + 1) /\ 0 \in 0..(m + 1) /\ 0 # m + 1
          /\ \A i \in 0..m : i \in 0..(m + 1) /\ i # m + 1
      OBVIOUS
    <3>5. g[m + 1] = x /\ g[0] = h[0] /\ \A i \in 0..m : g[i] = h[i]
      BY <3>4
    <3>6. g \in [0..(m + 1) -> Nodes]
      BY <3>1, <3>2, <3>3 DEF Chain
    <3>7. ASSUME NEW i \in 0..((m + 1) - 1) PROVE g[i + 1] \in Below(g[i])
      <4>1. i \in 0..m /\ (i = m \/ (i \in 0..(m - 1) /\ i + 1 \in 0..m))
        OBVIOUS
      <4>2. CASE i = m
        BY <3>1, <3>5, <4>1, <4>2
      <4>3. CASE i \in 0..(m - 1) /\ i + 1 \in 0..m
        <5>1. h[i + 1] \in Below(h[i])
          BY <3>1, <4>3 DEF Chain
        <5> QED BY <3>5, <4>1, <4>3, <5>1
      <4> QED BY <4>1, <4>2, <4>3
    <3>8. Chain(g, m + 1)
      BY <3>1, <3>5, <3>6, <3>7 DEF Chain
    <3> QED BY <3>2, <3>5, <3>8
  <2> HIDE DEF f
  <2> QED BY <2>1, <2>2, <2>3
<1>3. f = [k \in Nat |-> IF k = 0 THEN {top} ELSE UNION { Below(n) : n \in f[k - 1] }]
  <2>1. \A k \in Nat : f[k] = IF k = 0 THEN {top} ELSE UNION { Below(n) : n \in f[k - 1] }
    BY <1>1, <1>2
  <2>2. f = [k \in Nat |-> f[k]]
    OBVIOUS
  <2> HIDE DEF f
  <2> QED BY <2>1, <2>2
<1> QED BY <1>3 DEF IsLevel

(* The extents of a tree without an index are those of its node.           *)
LEMMA LeafExtents ==
  ASSUME top.depth = 0
  PROVE  Extents = { top.entries[k] : k \in DOMAIN top.entries }
<1>1. Level = CHOOSE f : IsLevel(f)
  BY DEF Level, IsLevel
<1>2. IsLevel(Level)
  BY <1>1, LevelExists
<1>3. Level[0] = {top}
  BY <1>2 DEF IsLevel
<1> QED BY <1>3 DEF Extents

-----------------------------------------------------------------------------
(***************************************************************************)
(* The node a call is at is the inode's own, or the zeros that were read   *)
(* for the node below an index: nothing assigns fs->blksz.                 *)
(***************************************************************************)
AtTop ==
  fileblock # NoCall => ext_block = top \/ (ext_block = Zeros /\ top.depth > 0)

EInv == TypeOK /\ AtTop /\ ExtentMapped /\ LeafAnswers

(* A call is at a leaf only when it is at the inode's node.                *)
LEMMA LeafIsTop ==
  ASSUME EInv, AtLeaf
  PROVE  /\ ext_block = top /\ top \in Tops /\ top.depth = 0
         /\ fileblock \in FileBlock /\ fileblock \in Nat
         /\ Extents = { top.entries[k] : k \in 1..Len(top.entries) }
<1>1. fileblock \in FileBlock /\ fileblock \in Nat /\ top \in Tops
  BY TreeAssumption DEF EInv, TypeOK, AtLeaf
<1>2. ext_block = top /\ top.depth = 0
  BY DEF AtLeaf, EInv, AtTop, Zeros
<1>3. DOMAIN top.entries = 1..Len(top.entries)
  BY <1>1, <1>2, EntriesAre
<1> QED BY <1>1, <1>2, <1>3, LeafExtents

(* What a call answers, when it ends at the node it is at.                 *)
LEMMA Answers ==
  ASSUME EInv, NEW val \in Nat \cup {ErrAlloc, ErrTree}, NEW failed \in BOOLEAN,
         fileblock # NoCall, Return(val, failed), top' = top,
         failed \/ val < 0 \/ (val = 0 /\ \A e \in Extents : ~Covers(e, fileblock))
                \/ (val > 0 /\ MappedTo(fileblock, val)),
         failed \/ val >= 0 \/ ~top.magic \/ top.depth # 0
                \/ \A e \in Extents : ~(e.block <= fileblock)
  PROVE  EInv'
<1>1. /\ ret' = [fileblock |-> fileblock, val |-> val, failed |-> failed]
      /\ fileblock' = NoCall /\ ext_block' = Zeros
  BY DEF Return
<1>2. ret'.fileblock = fileblock /\ ret'.val = val /\ ret'.failed = failed
  BY <1>1
<1>3. Extents' = Extents
  BY DEF Extents, Level
<1>4. val \in Int /\ (val >= 0 <=> ~(val < 0)) /\ (val > 0 => val # 0)
  BY DEF ErrAlloc, ErrTree
<1>5. TypeOK'
  BY <1>1, <1>2 DEF EInv, TypeOK
<1>6. AtTop'
  BY <1>1 DEF AtTop
<1>7. ExtentMapped'
  BY <1>2, <1>3, <1>4 DEF ExtentMapped, Answered, MappedTo
<1>8. LeafAnswers'
  BY <1>2, <1>3 DEF LeafAnswers, Answered
<1> QED BY <1>5, <1>6, <1>7, <1>8 DEF EInv

(* A step that answers nothing.                                            *)
LEMMA StillMapped ==
  ASSUME EInv, top' = top, ret' = ret
  PROVE  ExtentMapped' /\ LeafAnswers'
<1>1. Extents' = Extents
  BY DEF Extents, Level
<1> QED BY <1>1 DEF EInv, ExtentMapped, LeafAnswers, Answered, MappedTo

LEMMA CallKeeps ==
  ASSUME EInv, NEW fb \in FileBlock, Call(fb)
  PROVE  EInv'
<1>1. TypeOK' /\ AtTop'
  BY TreeAssumption DEF EInv, TypeOK, AtTop, Call, NoCall
<1> QED BY <1>1, StillMapped DEF Call, EInv

LEMMA AllocFailsKeeps ==
  ASSUME EInv, NEW fb \in FileBlock, AllocFails(fb)
  PROVE  EInv'
<1>1. ret'.failed /\ fileblock' = fileblock /\ ext_block' = ext_block /\ top' = top
  BY DEF AllocFails
<1>2. TypeOK' /\ AtTop'
  BY <1>1 DEF EInv, TypeOK, AtTop, AllocFails
<1> QED BY <1>1, <1>2 DEF EInv, ExtentMapped, LeafAnswers, Answered

LEMMA IndexKeeps ==
  ASSUME EInv, NoMagic \/ NotInIndex \/ DescendFails
  PROVE  EInv'
<1>1. fileblock # NoCall /\ top' = top
  BY DEF NoMagic, NotInIndex, DescendFails, AtIndex
<1>2. PICK failed \in BOOLEAN : Return(ErrTree, failed)
  BY DEF NoMagic, NotInIndex, DescendFails
<1>3. ~top.magic \/ top.depth # 0
  <2>1. ext_block = top \/ top.depth > 0
    BY <1>1 DEF EInv, AtTop
  <2>2. ~ext_block.magic \/ ext_block.depth > 0
    BY DEF NoMagic, NotInIndex, DescendFails, AtIndex
  <2>3. top.depth > 0 => top.depth # 0
    BY TreeAssumption DEF EInv, TypeOK, IsNode
  <2> QED BY <2>1, <2>2, <2>3
<1>4. ErrTree < 0 /\ ErrTree \in Nat \cup {ErrAlloc, ErrTree}
  BY DEF ErrTree
<1> QED BY <1>1, <1>2, <1>3, <1>4, Answers

LEMMA DescendKeeps ==
  ASSUME EInv, Descend
  PROVE  EInv'
<1>1. ext_block' = Zeros /\ top' = top /\ fileblock' = fileblock /\ ret' = ret /\ fileblock # NoCall
  BY TreeAssumption DEF Descend, FsBlksz, AtIndex
<1>2. top.depth > 0
  BY DEF Descend, AtIndex, EInv, AtTop
<1>3. TypeOK' /\ AtTop'
  BY <1>1, <1>2 DEF EInv, TypeOK, AtTop
<1> QED BY <1>1, <1>3, StillMapped DEF EInv

LEMMA BeforeLeafKeeps ==
  ASSUME EInv, BeforeLeaf
  PROVE  EInv'
<1>1. AtLeaf /\ LeafEntry = 0 /\ Return(ErrAlloc, FALSE) /\ top' = top /\ fileblock # NoCall
  BY DEF BeforeLeaf, AtLeaf
<1>2. /\ ext_block = top /\ top \in Tops /\ top.depth = 0 /\ fileblock \in Nat
      /\ Extents = { top.entries[k] : k \in 1..Len(top.entries) }
  BY <1>1, LeafIsTop
<1>3. \A k \in 1..Len(top.entries) : ~(top.entries[k].block <= fileblock)
  BY <1>1, <1>2, LeafEntryIs
<1>4. \A e \in Extents : ~(e.block <= fileblock)
  BY <1>2, <1>3
<1>5. ErrAlloc < 0 /\ ErrAlloc \in Nat \cup {ErrAlloc, ErrTree}
  BY DEF ErrAlloc
<1> QED BY <1>1, <1>4, <1>5, Answers

LEMMA GapKeeps ==
  ASSUME EInv, Gap
  PROVE  EInv'
<1>1. AtLeaf /\ ~InExtent /\ Return(0, FALSE) /\ top' = top /\ fileblock # NoCall
  BY DEF Gap, AtLeaf
<1>2. /\ ext_block = top /\ top \in Tops /\ top.depth = 0 /\ fileblock \in Nat
      /\ Extents = { top.entries[k] : k \in 1..Len(top.entries) }
  BY <1>1, LeafIsTop
<1>3. \A k \in 1..Len(top.entries) : ~Covers(top.entries[k], fileblock)
  BY <1>1, <1>2, LeafCovers
<1>4. \A e \in Extents : ~Covers(e, fileblock)
  BY <1>2, <1>3
<1>5. 0 \in Nat \cup {ErrAlloc, ErrTree} /\ 0 >= 0 /\ FALSE \in BOOLEAN
  OBVIOUS
<1>6. FALSE \/ 0 >= 0 \/ ~top.magic \/ top.depth # 0 \/ \A e \in Extents : ~(e.block <= fileblock)
  BY <1>5
<1>7. FALSE \/ 0 < 0 \/ (0 = 0 /\ \A e \in Extents : ~Covers(e, fileblock))
            \/ (0 > 0 /\ MappedTo(fileblock, 0))
  BY <1>4
<1> QED BY <1>1, <1>5, <1>6, <1>7, Answers, Zenon

LEMMA FoundKeeps ==
  ASSUME EInv, Found
  PROVE  EInv'
<1>1. AtLeaf /\ LeafEntry > 0 /\ InExtent /\ top' = top /\ fileblock # NoCall
  BY DEF Found, AtLeaf
<1>2. /\ ext_block = top /\ top \in Tops /\ top.depth = 0 /\ fileblock \in Nat
      /\ Extents = { top.entries[k] : k \in 1..Len(top.entries) }
  BY <1>1, LeafIsTop
<1>3. PICK m \in 1..Len(top.entries) : m = LeafEntry
  BY <1>1, <1>2, LeafEntryIs, EntriesAre
<1>4. PICK e \in Extents : e = top.entries[m]
  BY <1>2, <1>3
<1>5. /\ e.block \in Nat /\ e.len \in Nat \ {0} /\ e.start \in Nat \ {0}
      /\ e.block <= fileblock
  BY <1>2, <1>3, <1>4, EntriesAre, LeafEntryIs
<1>6. fileblock - e.block < e.len
  BY <1>1, <1>2, <1>3, <1>4 DEF InExtent
<1>7. Covers(e, fileblock)
  BY <1>2, <1>5, <1>6 DEF Covers
<1>8. PICK val \in Nat : val = e.start + (fileblock - e.block) /\ val > 0
  BY <1>2, <1>5
<1>9. Return(val, FALSE)
  BY <1>2, <1>3, <1>4, <1>8 DEF Found
<1>10. MappedTo(fileblock, val)
  BY <1>4, <1>7, <1>8 DEF MappedTo
<1>11. val >= 0 /\ val \in Nat \cup {ErrAlloc, ErrTree} /\ FALSE \in BOOLEAN
  BY <1>8
<1> QED BY <1>1, <1>8, <1>9, <1>10, <1>11, Answers, Zenon

LEMMA ExtentNextKeeps ==
  ASSUME EInv, [Next]_vars
  PROVE  EInv'
<1>1. CASE \E fb \in FileBlock : Call(fb) \/ AllocFails(fb)
  BY <1>1, CallKeeps, AllocFailsKeeps
<1>2. CASE NoMagic \/ NotInIndex \/ DescendFails
  BY <1>2, IndexKeeps
<1>3. CASE Descend \/ BeforeLeaf \/ Gap \/ Found
  BY <1>3, DescendKeeps, BeforeLeafKeeps, GapKeeps, FoundKeeps
<1>4. CASE UNCHANGED vars
  BY <1>4, StillMapped DEF vars, EInv, TypeOK, AtTop
<1> QED BY <1>1, <1>2, <1>3, <1>4 DEF Next

LEMMA ExtentInvariance == Spec => []EInv
<1>1. Init => EInv
  BY TreeAssumption DEF Init, EInv, TypeOK, AtTop, ExtentMapped, LeafAnswers, Answered, NoCall
<1>2. EInv /\ [Next]_vars => EInv'
  BY ExtentNextKeeps
<1> QED BY <1>1, <1>2, PTL DEF Spec

(***************************************************************************)
(* Every variable of read_allocated_block1's search keeps its type; in     *)
(* particular no call leaves its buffer behind.                            *)
(***************************************************************************)
THEOREM ExtentTypeCorrect == Spec => []TypeOK
<1>1. EInv => TypeOK
  BY DEF EInv
<1> QED BY <1>1, ExtentInvariance, PTL

(***************************************************************************)
(* The block that is returned (ext4.c:92-112) is the one the tree has      *)
(* there, and what is taken for a hole is covered by no extent, whatever   *)
(* tree the inode has.                                                     *)
(***************************************************************************)
THEOREM ExtentsMapped == Spec => []ExtentMapped
<1>1. EInv => ExtentMapped
  BY DEF EInv
<1> QED BY <1>1, ExtentInvariance, PTL

(***************************************************************************)
(* The extents in an inode answer for every block from their first on.     *)
(***************************************************************************)
THEOREM LeavesAnswer == Spec => []LeafAnswers
<1>1. EInv => LeafAnswers
  BY DEF EInv
<1> QED BY <1>1, ExtentInvariance, PTL
=============================================================================
