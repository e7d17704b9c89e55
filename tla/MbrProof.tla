------------------------------- MODULE MbrProof -------------------------------
(* Theorems about the operations of Mbr, for every disk whose chains of    *)
(* boot records have an end; LaunchProof uses them.                        *)
EXTENDS Mbr, SequenceTheorems, TLAPS

-----------------------------------------------------------------------------
(***************************************************************************)
(* The list of an extended partition is a recursive function: it exists    *)
(* because every chain ends.  Its equation, and the functions on some of   *)
(* the records, with those they link to, that satisfy it there.            *)
(***************************************************************************)
Table(logic, s) == disk[logic + s]
IsRecord(logic, s) == logic + s \in DOMAIN disk
LinksTo(logic, s, x, t) ==
  Table(logic, s)[x].type = "extended" /\ t = Table(logic, s)[x].off

EntryOf(list, logic, s, x) ==
  CASE Table(logic, s)[x].type = "unused" -> <<>>
    [] Table(logic, s)[x].type = "data" ->
         <<[off |-> logic + s + Table(logic, s)[x].off,
            len |-> Table(logic, s)[x].len]>>
    [] OTHER -> list[Table(logic, s)[x].off]

RecordOf(list, logic, s) ==
  IF IsRecord(logic, s)
  THEN EntryOf(list, logic, s, 1) \o EntryOf(list, logic, s, 2)
  ELSE <<>>

Satisfies(list, logic) == list = [s \in Nat |-> RecordOf(list, logic, s)]

Closed(D, logic) ==
  /\ D \in SUBSET Nat
  /\ \A s \in D, x \in 1..2, t \in Nat :
       IsRecord(logic, s) /\ LinksTo(logic, s, x, t) => t \in D

Attempt(g, D, logic) ==
  /\ Closed(D, logic)
  /\ \A s \in D : g[s] = RecordOf(g, logic, s)

(* The entries of a record.                                                *)
LEMMA RecordEntries ==
  ASSUME TypeOK, NEW logic \in Nat, NEW s \in Nat, IsRecord(logic, s), NEW x \in 1..2
  PROVE  Table(logic, s)[x] \in EntryRecord
<1> DEFINE q == logic + s
<1>1. q \in DOMAIN disk /\ disk \in Disks
  BY DEF TypeOK, IsRecord
<1>2. /\ DOMAIN disk[q] = 1..TableSize(IF q = 0 THEN 1 ELSE 2)
      /\ \A y \in DOMAIN disk[q] : disk[q][y] \in EntryRecord
  BY <1>1, DisksAssumption
<1>3. x \in DOMAIN disk[q]
  BY <1>2 DEF TableSize
<1> QED BY <1>2, <1>3 DEF Table

(* What a record says depends on the list at its links only.               *)
LEMMA SameLinks ==
  ASSUME TypeOK, NEW logic \in Nat, NEW s \in Nat, NEW g, NEW h,
         IsRecord(logic, s) =>
           \A x \in 1..2, t \in Nat : LinksTo(logic, s, x, t) => g[t] = h[t]
  PROVE  RecordOf(g, logic, s) = RecordOf(h, logic, s)
<1>1. CASE ~IsRecord(logic, s)
  BY <1>1 DEF RecordOf
<1>2. CASE IsRecord(logic, s)
  <2>1. ASSUME NEW x \in 1..2 PROVE EntryOf(g, logic, s, x) = EntryOf(h, logic, s, x)
    <3>1. Table(logic, s)[x] \in EntryRecord
      BY <1>2, RecordEntries
    <3>2. CASE Table(logic, s)[x].type = "extended"
      BY <1>2, <3>1, <3>2 DEF EntryOf, LinksTo, EntryRecord
    <3>3. CASE Table(logic, s)[x].type # "extended"
      BY <3>1, <3>3 DEF EntryOf, EntryRecord, EntryType
    <3> QED BY <3>2, <3>3
  <2> QED BY <2>1 DEF RecordOf
<1> QED BY <1>1, <1>2

(* A set of records has one with no link to another of the set.            *)
LEMMA LastOfSet ==
  ASSUME TypeOK, NEW logic \in Logics(disk), logic \in Nat, NEW T \in SUBSET Nat, T # {},
         \A s \in T : IsRecord(logic, s)
  PROVE  \E s \in T : \A x \in 1..2, t \in Nat : LinksTo(logic, s, x, t) => t \notin T
<1>1. T \in SUBSET Records(disk, logic)
  <2> SUFFICES ASSUME NEW s \in T PROVE s \in Records(disk, logic)
    OBVIOUS
  <2>1. logic + s \in DOMAIN disk /\ logic + s >= logic /\ s = (logic + s) - logic
    BY DEF IsRecord
  <2> QED BY <2>1 DEF Records
<1>2. disk \in Disks
  BY DEF TypeOK
<1>3. PICK s \in T : \A x \in 1..2 :
        disk[logic + s][x].type = "extended" => disk[logic + s][x].off \notin T
  BY <1>1, <1>2, ChainsEnd
<1> QED BY <1>3 DEF LinksTo, Table

LEMMA AttemptsAgree ==
  ASSUME TypeOK, NEW logic \in Logics(disk), logic \in Nat, NEW D, NEW g, NEW E, NEW h,
         Attempt(g, D, logic), Attempt(h, E, logic)
  PROVE  \A s \in D \cap E : g[s] = h[s]
<1> DEFINE T == { s \in D \cap E : g[s] # h[s] }
<1>1. ASSUME NEW s \in T PROVE s \in Nat /\ IsRecord(logic, s)
  BY DEF Attempt, Closed, RecordOf
<1>2. SUFFICES ASSUME T # {} PROVE FALSE
  OBVIOUS
<1>3. PICK s \in T : \A x \in 1..2, t \in Nat : LinksTo(logic, s, x, t) => t \notin T
  <2> HIDE DEF T
  <2> QED BY <1>1, <1>2, LastOfSet
<1>4. ASSUME NEW x \in 1..2, NEW t \in Nat, LinksTo(logic, s, x, t) PROVE g[t] = h[t]
  <2>1. t \in D \cap E
    BY <1>1, <1>4 DEF Attempt, Closed
  <2> QED BY <1>3, <1>4, <2>1
<1>5. RecordOf(g, logic, s) = RecordOf(h, logic, s)
  BY <1>1, <1>4, SameLinks
<1> QED BY <1>5 DEF Attempt

LEMMA AttemptExists ==
  ASSUME TypeOK, NEW logic \in Logics(disk), logic \in Nat
  PROVE  \A s \in Nat : \E D, g : s \in D /\ Attempt(g, D, logic)
<1> DEFINE Has(s) == \E D, g : s \in D /\ Attempt(g, D, logic)
           T == { s \in Nat : ~Has(s) }
<1>1. ASSUME NEW s \in Nat, ~IsRecord(logic, s) PROVE Has(s)
  <2> DEFINE g == [t \in {s} |-> <<>>]
  <2>1. Attempt(g, {s}, logic)
    BY <1>1 DEF Attempt, Closed, RecordOf
  <2> QED BY <2>1
<1>2. ASSUME NEW s \in Nat, IsRecord(logic, s),
             \A x \in 1..2, t \in Nat : LinksTo(logic, s, x, t) => Has(t)
      PROVE  Has(s)
  <2>1. ASSUME NEW x \in 1..2
        PROVE  \E D, g : /\ Attempt(g, D, logic)
                         /\ \A t \in Nat : LinksTo(logic, s, x, t) => t \in D
    <3>1. Table(logic, s)[x] \in EntryRecord
      BY <1>2, RecordEntries
    <3>2. CASE Table(logic, s)[x].type = "extended"
      BY <1>2, <3>1, <3>2 DEF LinksTo, EntryRecord
    <3>3. CASE Table(logic, s)[x].type # "extended"
      <4>1. Attempt(<<>>, {}, logic)
        BY DEF Attempt, Closed
      <4> QED BY <4>1, <3>3 DEF LinksTo
    <3> QED BY <3>2, <3>3
  <2>2. PICK D1, g1 : /\ Attempt(g1, D1, logic)
                      /\ \A t \in Nat : LinksTo(logic, s, 1, t) => t \in D1
    BY <2>1
  <2>3. PICK D2, g2 : /\ Attempt(g2, D2, logic)
                      /\ \A t \in Nat : LinksTo(logic, s, 2, t) => t \in D2
    BY <2>1
  <2> DEFINE D == D1 \cup D2 \cup {s}
             both == [t \in D1 \cup D2 |-> IF t \in D1 THEN g1[t] ELSE g2[t]]
             h == [t \in D |-> IF t \in D1 \cup D2 THEN both[t]
                               ELSE RecordOf(both, logic, s)]
  <2>4. \A t \in D1 : h[t] = g1[t]
    OBVIOUS
  <2>5. \A t \in D2 : h[t] = g2[t]
    BY <2>2, <2>3, AttemptsAgree
  <2>6. Closed(D, logic)
    <3>1. D1 \in SUBSET Nat /\ D2 \in SUBSET Nat
      BY <2>2, <2>3 DEF Attempt, Closed
    <3>2. ASSUME NEW u \in D, NEW x \in 1..2, NEW t \in Nat,
                 IsRecord(logic, u), LinksTo(logic, u, x, t)
          PROVE  t \in D1 \cup D2
      <4>1. CASE u \in D1
        BY <4>1, <3>2, <2>2 DEF Attempt, Closed
      <4>2. CASE u \in D2
        BY <4>2, <3>2, <2>3 DEF Attempt, Closed
      <4>3. CASE u = s
        <5>1. x = 1 \/ x = 2
          OBVIOUS
        <5> QED BY <4>3, <5>1, <3>2, <2>2, <2>3
      <4> QED BY <4>1, <4>2, <4>3
    <3> QED BY <3>1, <3>2 DEF Closed
  <2> HIDE DEF both
  <2>7. ASSUME NEW u \in D PROVE h[u] = RecordOf(h, logic, u)
    <3>1. CASE u \in D1
      <4>1. RecordOf(g1, logic, u) = RecordOf(h, logic, u)
        <5>1. \A x \in 1..2, t \in Nat :
                IsRecord(logic, u) /\ LinksTo(logic, u, x, t) => t \in D1
          BY <3>1, <2>2 DEF Attempt, Closed
        <5>2. u \in Nat
          BY <2>6 DEF Closed
        <5> HIDE DEF h
        <5> QED BY <5>1, <5>2, <2>4, SameLinks
      <4> QED BY <4>1, <3>1, <2>2, <2>4 DEF Attempt
    <3>2. CASE u \in D2
      <4>1. RecordOf(g2, logic, u) = RecordOf(h, logic, u)
        <5>1. \A x \in 1..2, t \in Nat :
                IsRecord(logic, u) /\ LinksTo(logic, u, x, t) => t \in D2
          BY <3>2, <2>3 DEF Attempt, Closed
        <5>2. u \in Nat
          BY <2>6 DEF Closed
        <5> HIDE DEF h
        <5> QED BY <5>1, <5>2, <2>5, SameLinks
      <4> QED BY <4>1, <3>2, <2>3, <2>5 DEF Attempt
    <3>3. CASE u = s /\ u \notin D1 \cup D2
      <4>1. \A x \in 1..2, t \in Nat : LinksTo(logic, s, x, t) => t \in D1 \cup D2
        <5> SUFFICES ASSUME NEW x \in 1..2, NEW t \in Nat, LinksTo(logic, s, x, t)
                     PROVE  t \in D1 \cup D2
          OBVIOUS
        <5>1. x = 1 \/ x = 2
          OBVIOUS
        <5> QED BY <5>1, <2>2, <2>3
      <4>2. \A t \in D1 \cup D2 : both[t] = h[t]
        OBVIOUS
      <4>3. RecordOf(both, logic, s) = RecordOf(h, logic, s)
        <5> HIDE DEF h
        <5> QED BY <4>1, <4>2, SameLinks
      <4>4. h[s] = RecordOf(both, logic, s)
        BY <3>3
      <4> QED BY <4>3, <4>4, <3>3
    <3> QED BY <3>1, <3>2, <3>3
  <2>8. Attempt(h, D, logic)
    BY <2>6, <2>7 DEF Attempt
  <2>9. s \in D
    OBVIOUS
  <2> HIDE DEF h, D
  <2> QED BY <2>8, <2>9
<1> HIDE DEF Has
<1>3. CASE T = {}
  BY <1>3 DEF Has
<1>4. CASE T # {}
  <2>1. \A s \in T : s \in Nat /\ IsRecord(logic, s)
    BY <1>1
  <2>2. PICK s \in T : \A x \in 1..2, t \in Nat : LinksTo(logic, s, x, t) => t \notin T
    <3> HIDE DEF T
    <3>1. T \in SUBSET Nat
      BY <2>1
    <3> QED BY <1>4, <2>1, <3>1, LastOfSet
  <2> QED BY <1>2, <2>1, <2>2
<1> QED BY <1>3, <1>4

LEMMA ListExists ==
  ASSUME TypeOK, NEW logic \in Logics(disk), logic \in Nat
  PROVE  \E f : Satisfies(f, logic)
<1> DEFINE Good(s, p) == s \in p[1] /\ Attempt(p[2], p[1], logic)
           pair(s) == CHOOSE p : Good(s, p)
           f == [s \in Nat |-> pair(s)[2][s]]
<1>1. ASSUME NEW s \in Nat PROVE Good(s, pair(s))
  <2>1. PICK D, g : s \in D /\ Attempt(g, D, logic)
    BY AttemptExists
  <2>2. Good(s, <<D, g>>)
    BY <2>1
  <2> HIDE DEF Good
  <2> QED BY <2>2
<1> HIDE DEF pair
<1>2. ASSUME NEW s \in Nat PROVE f[s] = RecordOf(f, logic, s)
  <2> DEFINE g == pair(s)[2]
             D == pair(s)[1]
  <2>1. s \in D /\ Attempt(g, D, logic)
    BY <1>1
  <2>2. ASSUME NEW t \in Nat, t \in D PROVE f[t] = g[t]
    <3>1. t \in pair(t)[1] /\ Attempt(pair(t)[2], pair(t)[1], logic)
      BY <1>1
    <3>2. pair(t)[2][t] = g[t]
      <4> HIDE DEF g, D
      <4> QED BY <3>1, <2>1, <2>2, AttemptsAgree
    <3> QED BY <3>2
  <2>3. RecordOf(g, logic, s) = RecordOf(f, logic, s)
    <3>1. \A x \in 1..2, t \in Nat :
            IsRecord(logic, s) /\ LinksTo(logic, s, x, t) => t \in D
      BY <2>1 DEF Attempt, Closed
    <3> HIDE DEF f, g, D
    <3> QED BY <3>1, <2>2, SameLinks
  <2>4. g[s] = RecordOf(g, logic, s)
    BY <2>1 DEF Attempt
  <2> QED BY <2>3, <2>4
<1>3. Satisfies(f, logic)
  BY <1>2 DEF Satisfies
<1> QED BY <1>3

(* The list of an extended partition satisfies its equation, and is one of *)
(* partitions.                                                             *)
LEMMA LogicalSatisfies ==
  ASSUME TypeOK, NEW logic \in Logics(disk), logic \in Nat
  PROVE  Satisfies(Logical(logic), logic)
<1>1. Logical(logic) = CHOOSE f : Satisfies(f, logic)
  BY DEF Logical, Satisfies, RecordOf, EntryOf, Table, IsRecord
<1> QED BY <1>1, ListExists

LEMMA RecordOfType ==
  ASSUME TypeOK, NEW logic \in Nat, NEW s \in Nat, NEW g, IsRecord(logic, s),
         \A x \in 1..2, t \in Nat : LinksTo(logic, s, x, t) => g[t] \in Seq(Extent)
  PROVE  \A x \in 1..2 : EntryOf(g, logic, s, x) \in Seq(Extent)
<1> SUFFICES ASSUME NEW x \in 1..2 PROVE EntryOf(g, logic, s, x) \in Seq(Extent)
  OBVIOUS
<1> DEFINE e == Table(logic, s)[x]
<1>1. e \in EntryRecord
  BY RecordEntries
<1>2. CASE e.type = "unused"
  BY <1>2 DEF EntryOf
<1>3. CASE e.type = "data"
  <2>1. [off |-> logic + s + e.off, len |-> e.len] \in Extent
    BY <1>1 DEF EntryRecord, Extent
  <2>2. EntryOf(g, logic, s, x) = <<[off |-> logic + s + e.off, len |-> e.len]>>
    BY <1>3 DEF EntryOf
  <2> QED BY <2>1, <2>2
<1>4. CASE e.type = "extended"
  BY <1>1, <1>4 DEF EntryOf, EntryRecord, LinksTo
<1> QED BY <1>1, <1>2, <1>3, <1>4 DEF EntryRecord, EntryType

LEMMA LogicalType ==
  ASSUME TypeOK, NEW logic \in Logics(disk), logic \in Nat
  PROVE  \A s \in Nat : Logical(logic)[s] \in Seq(Extent)
<1> DEFINE f == Logical(logic)
           T == { s \in Nat : f[s] \notin Seq(Extent) }
<1>1. ASSUME NEW s \in Nat PROVE f[s] = RecordOf(f, logic, s)
  BY LogicalSatisfies DEF Satisfies
<1> HIDE DEF f
<1>2. ASSUME NEW s \in T PROVE s \in Nat /\ IsRecord(logic, s)
  <2>1. s \in Nat /\ f[s] \notin Seq(Extent)
    OBVIOUS
  <2>2. f[s] = RecordOf(f, logic, s)
    BY <1>1, <2>1
  <2>3. RecordOf(f, logic, s) # <<>>
    BY <2>1, <2>2, EmptySeq
  <2> QED BY <2>1, <2>3 DEF RecordOf
<1>3. CASE T = {}
  <2>1. \A s \in Nat : f[s] \in Seq(Extent)
    BY <1>3
  <2> QED BY <2>1 DEF f
<1>4. CASE T # {}
  <2>1. PICK s \in T : \A x \in 1..2, t \in Nat : LinksTo(logic, s, x, t) => t \notin T
    <3> HIDE DEF T
    <3>1. T \in SUBSET Nat
      BY <1>2
    <3> QED BY <1>2, <1>4, <3>1, LastOfSet
  <2>2. \A x \in 1..2, t \in Nat : LinksTo(logic, s, x, t) => f[t] \in Seq(Extent)
    BY <2>1
  <2>3. \A x \in 1..2 : EntryOf(f, logic, s, x) \in Seq(Extent)
    BY <1>2, <2>2, RecordOfType
  <2>4. RecordOf(f, logic, s) \in Seq(Extent)
    BY <1>2, <2>3, ConcatProperties DEF RecordOf
  <2> QED BY <1>1, <2>4
<1> QED BY <1>3, <1>4

-----------------------------------------------------------------------------
(***************************************************************************)
(* The counting.  Described is what the tables say at an entry of a frame, *)
(* Rest what is left from the entry the frame is at.  While a number is    *)
(* counted, each frame of the stack stands at a place of the listing, and  *)
(* from there to the place of the frame below lies what it has left.  The  *)
(* number counted is that place, or less when a table was unreadable, or   *)
(* anything when other bytes were taken for one.                           *)
(***************************************************************************)
Described(k, f, x) ==
  LET e == disk[SectorOf(f)][x]
  IN  CASE e.type = "unused" -> <<>>
        [] e.type = "data" -> <<[off |-> SectorOf(f) + e.off, len |-> e.len]>>
        [] OTHER -> IF k = 1 THEN Logical(e.off)[0] ELSE Logical(f.logic)[e.off]

From(k, f, x) ==
  CASE x > TableSize(k) -> <<>>
    [] x = TableSize(k) -> Described(k, f, x)
    [] x = TableSize(k) - 1 -> Described(k, f, x) \o Described(k, f, x + 1)
    [] x = TableSize(k) - 2 ->
         Described(k, f, x) \o (Described(k, f, x + 1) \o Described(k, f, x + 2))
    [] OTHER -> Described(k, f, x) \o (Described(k, f, x + 1) \o
                  (Described(k, f, x + 2) \o Described(k, f, x + 3)))

Rest(k, f) ==
  IF SectorOf(f) \in DOMAIN disk THEN From(k, f, IF f.x = 0 THEN 1 ELSE f.x) ELSE <<>>

Slice(a, b) == SubSeq(Listing, a + 1, b)

Stands(P, st) ==
  /\ P \in [0..Len(st) -> 0..Len(Listing)]
  /\ P[0] = Len(Listing)
  /\ \A k \in 1..Len(st) :
       /\ P[k] <= P[k - 1]
       /\ Slice(P[k], P[k - 1]) = Rest(k, st[k])

Counts(P, st, count, wrong) ==
  /\ Stands(P, st)
  /\ "stray" \notin wrong => count <= P[Len(st)]
  /\ wrong = {} => count = P[Len(st)]

(* A frame that may be on the stack.                                       *)
FrameSet == [logic : Nat, off : Nat, x : Nat]

FrameOK(k, f) ==
  /\ k \in Nat \ {0} /\ f \in FrameSet
  /\ k = 1 => f.logic = 0 /\ f.off = 0
  /\ k > 1 => f.logic \in Logics(disk)

LEMMA EntryAt ==
  ASSUME TypeOK, NEW k, NEW f, FrameOK(k, f), SectorOf(f) \in DOMAIN disk,
         NEW x \in 1..TableSize(k)
  PROVE  /\ disk[SectorOf(f)][x] \in EntryRecord
         /\ k = 1 /\ disk[SectorOf(f)][x].type = "extended" =>
              disk[SectorOf(f)][x].off \in Logics(disk)
<1> DEFINE q == SectorOf(f)
<1>1. q \in DOMAIN disk /\ disk \in Disks
  BY DEF TypeOK
<1>2. /\ DOMAIN disk[q] = 1..TableSize(IF q = 0 THEN 1 ELSE 2)
      /\ \A y \in DOMAIN disk[q] : disk[q][y] \in EntryRecord
  BY <1>1, DisksAssumption
<1>3. k = 1 => q = 0
  BY DEF FrameOK, SectorOf
<1>4. x \in DOMAIN disk[q] /\ (k = 1 => x \in 1..4)
  BY <1>2, <1>3 DEF TableSize, FrameOK
<1> QED BY <1>2, <1>3, <1>4 DEF Logics

LEMMA DescribedType ==
  ASSUME TypeOK, NEW k, NEW f, FrameOK(k, f), SectorOf(f) \in DOMAIN disk,
         NEW x \in 1..TableSize(k)
  PROVE  Described(k, f, x) \in Seq(Extent)
<1> DEFINE e == disk[SectorOf(f)][x]
<1>1. e \in EntryRecord
  BY EntryAt
<1>2. CASE e.type = "unused"
  BY <1>2 DEF Described
<1>3. CASE e.type = "data"
  <2>1. [off |-> SectorOf(f) + e.off, len |-> e.len] \in Extent
    BY <1>1 DEF EntryRecord, Extent, FrameOK, FrameSet, SectorOf
  <2>2. Described(k, f, x) = <<[off |-> SectorOf(f) + e.off, len |-> e.len]>>
    BY <1>3 DEF Described
  <2> QED BY <2>1, <2>2
<1>4. CASE e.type = "extended"
  <2>1. e.off \in Nat
    BY <1>1 DEF EntryRecord
  <2>2. CASE k = 1
    <3>1. e.off \in Logics(disk)
      BY <1>4, <2>2, EntryAt
    <3>2. Logical(e.off)[0] \in Seq(Extent)
      BY <2>1, <3>1, LogicalType
    <3> QED BY <1>4, <2>2, <3>2 DEF Described
  <2>3. CASE k # 1
    <3>1. Logical(f.logic)[e.off] \in Seq(Extent)
      BY <2>1, <2>3, LogicalType DEF FrameOK, FrameSet
    <3> QED BY <1>4, <2>3, <3>1 DEF Described
  <2> QED BY <2>2, <2>3
<1> QED BY <1>1, <1>2, <1>3, <1>4 DEF EntryRecord, EntryType

LEMMA FromType ==
  ASSUME TypeOK, NEW k, NEW f, FrameOK(k, f), SectorOf(f) \in DOMAIN disk
  PROVE  /\ \A x \in 1..(TableSize(k) + 1) : From(k, f, x) \in Seq(Extent)
         /\ \A x \in 1..TableSize(k) :
              From(k, f, x) = Described(k, f, x) \o From(k, f, x + 1)
<1>1. \A x \in 1..TableSize(k) : Described(k, f, x) \in Seq(Extent)
  BY DescribedType
<1>2. CASE TableSize(k) = 2
  <2> DEFINE d1 == Described(k, f, 1)
             d2 == Described(k, f, 2)
             f1 == From(k, f, 1)
             f2 == From(k, f, 2)
             f3 == From(k, f, 3)
  <2>1. f1 = d1 \o d2 /\ f2 = d2 /\ f3 = <<>>
    BY <1>2 DEF From
  <2>2. d1 \in Seq(Extent) /\ d2 \in Seq(Extent)
    BY <1>1, <1>2
  <2> HIDE DEF d1, d2, f1, f2, f3
  <2>3. f3 \in Seq(Extent) /\ f2 \in Seq(Extent) /\ f1 \in Seq(Extent)
    BY <2>1, <2>2, ConcatProperties
  <2>4. f2 = d2 \o f3 /\ f1 = d1 \o f2
    BY <2>1, <2>2, ConcatEmptySeq
  <2>5. \A x \in 1..3 : From(k, f, x) \in Seq(Extent)
    BY <2>3 DEF f1, f2, f3
  <2>6. \A x \in 1..2 : From(k, f, x) = Described(k, f, x) \o From(k, f, x + 1)
    <3> SUFFICES ASSUME NEW x \in 1..2
                 PROVE  From(k, f, x) = Described(k, f, x) \o From(k, f, x + 1)
      OBVIOUS
    <3>1. CASE x = 1
      BY <2>4, <3>1 DEF d1, f1, f2
    <3>2. CASE x = 2
      BY <2>4, <3>2 DEF d2, f2, f3
    <3> QED BY <3>1, <3>2
  <2> QED BY <1>2, <2>5, <2>6
<1>3. CASE TableSize(k) = 4
  <2> DEFINE d1 == Described(k, f, 1)
             d2 == Described(k, f, 2)
             d3 == Described(k, f, 3)
             d4 == Described(k, f, 4)
             f1 == From(k, f, 1)
             f2 == From(k, f, 2)
             f3 == From(k, f, 3)
             f4 == From(k, f, 4)
             f5 == From(k, f, 5)
  <2>1. /\ f1 = d1 \o (d2 \o (d3 \o d4)) /\ f2 = d2 \o (d3 \o d4)
        /\ f3 = d3 \o d4 /\ f4 = d4 /\ f5 = <<>>
    <3>1. f1 = d1 \o (d2 \o (d3 \o d4))
      BY SMTT(30), <1>3 DEF From
    <3>2. f2 = d2 \o (d3 \o d4)
      BY <1>3 DEF From
    <3>3. f3 = d3 \o d4 /\ f4 = d4 /\ f5 = <<>>
      BY <1>3 DEF From
    <3> QED BY <3>1, <3>2, <3>3
  <2>2. /\ d1 \in Seq(Extent) /\ d2 \in Seq(Extent)
        /\ d3 \in Seq(Extent) /\ d4 \in Seq(Extent)
    BY <1>1, <1>3
  <2> HIDE DEF d1, d2, d3, d4, f1, f2, f3, f4, f5
  <2>3. f5 \in Seq(Extent) /\ f4 \in Seq(Extent) /\ f3 \in Seq(Extent)
    BY <2>1, <2>2, ConcatProperties
  <2>4. f2 = d2 \o f3 /\ f2 \in Seq(Extent)
    BY <2>1, <2>2, <2>3, ConcatProperties
  <2>5. f1 = d1 \o f2 /\ f1 \in Seq(Extent)
    BY <2>1, <2>2, <2>4, ConcatProperties
  <2>6. f4 = d4 \o f5 /\ f3 = d3 \o f4
    BY <2>1, <2>2, ConcatEmptySeq
  <2>7. \A x \in 1..5 : From(k, f, x) \in Seq(Extent)
    BY <2>3, <2>4, <2>5 DEF f1, f2, f3, f4, f5
  <2>8. \A x \in 1..4 : From(k, f, x) = Described(k, f, x) \o From(k, f, x + 1)
    <3> SUFFICES ASSUME NEW x \in 1..4
                 PROVE  From(k, f, x) = Described(k, f, x) \o From(k, f, x + 1)
      OBVIOUS
    <3>1. CASE x = 1
      BY <2>5, <3>1 DEF d1, f1, f2
    <3>2. CASE x = 2
      BY <2>4, <3>2 DEF d2, f2, f3
    <3>3. CASE x = 3
      BY <2>6, <3>3 DEF d3, f3, f4
    <3>4. CASE x = 4
      BY <2>6, <3>4 DEF d4, f4, f5
    <3> QED BY <3>1, <3>2, <3>3, <3>4
  <2>9. TableSize(k) + 1 = 5
    BY <1>3
  <2> HIDE DEF d1, d2, d3, d4, f1, f2, f3, f4, f5
  <2> QED BY <1>3, <2>7, <2>8, <2>9
<1> QED BY <1>2, <1>3 DEF TableSize

LEMMA RestType ==
  ASSUME TypeOK, NEW k, NEW f, FrameOK(k, f), f.x <= TableSize(k) + 1
  PROVE  Rest(k, f) \in Seq(Extent)
<1> DEFINE x == IF f.x = 0 THEN 1 ELSE f.x
<1>1. x \in 1..(TableSize(k) + 1)
  BY DEF FrameOK, FrameSet, TableSize
<1> HIDE DEF x
<1>2. SectorOf(f) \in DOMAIN disk => From(k, f, x) \in Seq(Extent)
  BY <1>1, FromType
<1> QED BY <1>2 DEF Rest, x

(* The listing is what a call has left when it begins.                     *)
LEMMA ListingIsRest ==
  ASSUME TypeOK
  PROVE  Listing = Rest(1, Frame(0, 0)) /\ Listing \in Seq(Extent)
<1> DEFINE f == Frame(0, 0)
           p1 == Described(1, f, 1)
           p2 == Described(1, f, 2)
           p3 == Described(1, f, 3)
           p4 == Described(1, f, 4)
<1>1. SectorOf(f) = 0 /\ FrameOK(1, f) /\ 0 \in DOMAIN disk
  BY DisksAssumption DEF Frame, SectorOf, FrameOK, FrameSet, TypeOK
<1>2. p1 \in Seq(Extent) /\ p2 \in Seq(Extent) /\ p3 \in Seq(Extent) /\ p4 \in Seq(Extent)
  BY <1>1, DescribedType DEF TableSize
<1>3. \A x \in 1..4 : disk[0][x] \in EntryRecord
  BY <1>1, EntryAt DEF TableSize
<1>4. Listing = ((p1 \o p2) \o p3) \o p4
  <2>1. \A x \in 1..4 : 0 + disk[0][x].off = disk[0][x].off
    BY <1>3 DEF EntryRecord
  <2> DEFINE part(e) ==
        CASE e.type = "unused" -> <<>>
          [] e.type = "data" -> <<[off |-> e.off, len |-> e.len]>>
          [] OTHER -> Logical(e.off)[0]
  <2>2. ASSUME NEW x \in 1..4 PROVE Described(1, f, x) = part(disk[0][x])
    <3>1. SectorOf(f) + disk[SectorOf(f)][x].off = disk[0][x].off
      BY <1>1, <2>1
    <3> QED BY <1>1, <3>1 DEF Described
  <2>3. p1 = part(disk[0][1]) /\ p2 = part(disk[0][2]) /\ p3 = part(disk[0][3])
        /\ p4 = part(disk[0][4])
    <3> HIDE DEF part
    <3> QED BY <2>2
  <2>4. Listing = ((part(disk[0][1]) \o part(disk[0][2])) \o part(disk[0][3]))
                    \o part(disk[0][4])
    BY DEF Listing
  <2> HIDE DEF part, p1, p2, p3, p4
  <2> QED BY <2>3, <2>4
<1>5. Rest(1, f) = p1 \o (p2 \o (p3 \o p4))
  BY SMTT(30), <1>1 DEF Rest, From, TableSize, Frame
<1> HIDE DEF p1, p2, p3, p4, f
<1>6. p1 \o p2 \in Seq(Extent) /\ p3 \o p4 \in Seq(Extent)
  BY <1>2, ConcatProperties
<1>7. ((p1 \o p2) \o p3) \o p4 = (p1 \o p2) \o (p3 \o p4)
  BY <1>2, <1>6, ConcatAssociative
<1>8. (p1 \o p2) \o (p3 \o p4) = p1 \o (p2 \o (p3 \o p4))
  BY SMTT(30), <1>2, <1>6, ConcatAssociative
<1>9. (p1 \o p2) \o (p3 \o p4) \in Seq(Extent)
  BY <1>6, ConcatProperties
<1> QED BY <1>4, <1>5, <1>7, <1>8, <1>9 DEF f

(* A slice that is two sequences.                                          *)
LEMMA SliceSplit ==
  ASSUME NEW S, NEW L \in Seq(S), NEW a \in Nat, NEW b \in Nat,
         NEW s \in Seq(S), NEW t \in Seq(S), a <= b, b <= Len(L),
         SubSeq(L, a + 1, b) = s \o t
  PROVE  /\ a + Len(s) <= b
         /\ SubSeq(L, a + 1, a + Len(s)) = s
         /\ SubSeq(L, a + Len(s) + 1, b) = t
<1> DEFINE m == a + Len(s)
<1>1. Len(s \o t) = Len(s) + Len(t) /\ Len(s) \in Nat /\ Len(t) \in Nat
  BY ConcatProperties, LenProperties
<1>2. Len(SubSeq(L, a + 1, b)) = b - a
  BY SubSeqProperties
<1>3. m \in a..b /\ b - m = Len(t)
  BY <1>1, <1>2
<1>4. \A i \in 1..(b - a) : SubSeq(L, a + 1, b)[i] = L[a + i]
  OBVIOUS
<1>5. SubSeq(L, a + 1, m) = s
  <2>1. /\ SubSeq(L, a + 1, m) \in Seq(S) /\ Len(SubSeq(L, a + 1, m)) = Len(s)
        /\ \A i \in 1..Len(s) : SubSeq(L, a + 1, m)[i] = L[a + i]
    <3>1. \A i \in (a + 1)..m : L[i] \in S
      BY <1>1, <1>3, ElementOfSeq
    <3>2. /\ a + 1 \in Int /\ m \in Int /\ m - (a + 1) + 1 = Len(s)
          /\ \A i \in 1..Len(s) : (a + 1) + i - 1 = a + i
      BY <1>1, <1>3
    <3>3. /\ SubSeq(L, a + 1, m) \in Seq(S)
          /\ Len(SubSeq(L, a + 1, m)) = IF a + 1 <= m THEN m - (a + 1) + 1 ELSE 0
          /\ \A i \in 1..(m - (a + 1) + 1) : SubSeq(L, a + 1, m)[i] = L[(a + 1) + i - 1]
      BY <3>1, <3>2, SubSeqProperties
    <3> QED BY <1>1, <3>2, <3>3
  <2>2. \A i \in 1..Len(s) : (s \o t)[i] = s[i]
    BY <1>1, ConcatProperties
  <2>3. \A i \in 1..Len(s) : SubSeq(L, a + 1, m)[i] = s[i]
    BY <1>1, <1>3, <1>4, <2>1, <2>2
  <2> QED BY <2>1, <2>3, SeqEqual
<1>6. SubSeq(L, m + 1, b) = t
  <2>1. /\ SubSeq(L, m + 1, b) \in Seq(S) /\ Len(SubSeq(L, m + 1, b)) = Len(t)
        /\ \A i \in 1..Len(t) : SubSeq(L, m + 1, b)[i] = L[m + i]
    BY <1>1, <1>3, SubSeqProperties, ElementOfSeq
  <2>2. \A i \in 1..Len(t) : (s \o t)[Len(s) + i] = t[i]
    BY <1>1, ConcatProperties
  <2>3. ASSUME NEW i \in 1..Len(t) PROVE SubSeq(L, m + 1, b)[i] = t[i]
    <3>1. Len(s) + i \in 1..(b - a) /\ a + (Len(s) + i) = m + i
      BY <1>1, <1>3
    <3> QED BY <1>4, <2>1, <2>2, <3>1
  <2> QED BY <2>1, <2>3, SeqEqual
<1> QED BY <1>3, <1>5, <1>6

Splits(a, b) ==
  \A s, t \in Seq(Extent) :
    Slice(a, b) = s \o t =>
      LET m == a + Len(s) IN m <= b /\ Slice(a, m) = s /\ Slice(m, b) = t

LEMMA ListingSplit ==
  ASSUME TypeOK, NEW a \in Nat, NEW b \in Nat, a <= b, b <= Len(Listing)
  PROVE  Splits(a, b)
<1> SUFFICES ASSUME NEW s \in Seq(Extent), NEW t \in Seq(Extent), Slice(a, b) = s \o t
             PROVE  LET m == a + Len(s)
                    IN  m <= b /\ Slice(a, m) = s /\ Slice(m, b) = t
  BY DEF Splits
<1>1. Listing \in Seq(Extent)
  BY ListingIsRest
<1>2. SubSeq(Listing, a + 1, b) = s \o t
  BY DEF Slice
<1>3. /\ a + Len(s) <= b
      /\ SubSeq(Listing, a + 1, a + Len(s)) = s
      /\ SubSeq(Listing, a + Len(s) + 1, b) = t
  BY <1>1, <1>2, SliceSplit
<1> QED BY <1>3 DEF Slice

(* What a frame has left begins with what is described at its entry.       *)
LEMMA RestSplit ==
  ASSUME TypeOK, NEW k, NEW f, FrameOK(k, f), SectorOf(f) \in DOMAIN disk,
         f.x \in 1..TableSize(k), NEW a \in Nat, NEW b \in Nat, a <= b, b <= Len(Listing),
         Slice(a, b) = Rest(k, f), NEW m, m = a + Len(Described(k, f, f.x))
  PROVE  /\ m \in a..b
         /\ Slice(a, m) = Described(k, f, f.x)
         /\ Slice(m, b) = From(k, f, f.x + 1)
<1>1. PICK d, rest : d = Described(k, f, f.x) /\ rest = From(k, f, f.x + 1)
  OBVIOUS
<1>2. d \in Seq(Extent) /\ Len(d) \in Nat
  BY <1>1, DescribedType, LenProperties
<1>3. TableSize(k) \in Nat /\ f.x + 1 \in 1..(TableSize(k) + 1) /\ f.x # 0
  BY DEF TableSize
<1>4. Rest(k, f) = From(k, f, f.x)
  BY <1>3 DEF Rest
<1>5. Slice(a, b) = d \o rest /\ rest \in Seq(Extent)
  BY <1>1, <1>3, <1>4, FromType
<1>6. m = a + Len(d)
  BY <1>1
<1>7. m <= b /\ Slice(a, m) = d /\ Slice(m, b) = rest
  <2>1. Splits(a, b)
    BY ListingSplit
  <2> QED BY <1>2, <1>5, <1>6, <2>1, Zenon DEF Splits
<1> QED BY <1>1, <1>2, <1>6, <1>7

(* What a link leads to is what the boot record there has left.            *)
LEMMA LinkIsRest ==
  ASSUME TypeOK, NEW logic \in Logics(disk), logic \in Nat, NEW s \in Nat,
         NEW k \in Nat, k > 1
  PROVE  Logical(logic)[s] = Rest(k, Frame(logic, s))
<1> DEFINE f == Frame(logic, s)
<1>1. Logical(logic)[s] = RecordOf(Logical(logic), logic, s)
  BY LogicalSatisfies DEF Satisfies
<1>2. SectorOf(f) = logic + s /\ f.x = 0 /\ f.logic = logic
  BY DEF SectorOf, Frame
<1>3. CASE ~IsRecord(logic, s)
  BY <1>1, <1>2, <1>3 DEF RecordOf, Rest, IsRecord
<1>4. CASE IsRecord(logic, s)
  <2>1. Rest(k, f) = Described(k, f, 1) \o Described(k, f, 2)
    BY <1>2, <1>4 DEF Rest, From, TableSize, IsRecord
  <2>2. \A x \in 1..2 : Described(k, f, x) = EntryOf(Logical(logic), logic, s, x)
    BY <1>2 DEF Described, EntryOf, Table
  <2> QED BY <1>1, <1>4, <2>1, <2>2 DEF RecordOf
<1> QED BY <1>3, <1>4

-----------------------------------------------------------------------------
(* The places of the frames, while the innermost goes on, another table is *)
(* entered and one is left.                                                *)
LEMMA Advance ==
  ASSUME TypeOK, NEW st \in Seq(FrameSet), st # <<>>, NEW P, Stands(P, st),
         NEW f, f = st[Len(st)], FrameOK(Len(st), f), SectorOf(f) \in DOMAIN disk,
         f.x \in 1..TableSize(Len(st)),
         NEW q, q = P[Len(st)] + Len(Described(Len(st), f, f.x))
  PROVE  /\ P[Len(st)] \in 0..q /\ q \in 0..Len(Listing)
         /\ Slice(P[Len(st)], q) = Described(Len(st), f, f.x)
         /\ Stands([P EXCEPT ![Len(st)] = q], [st EXCEPT ![Len(st)].x = f.x + 1])
<1> DEFINE n == Len(st)
           g == [logic |-> f.logic, off |-> f.off, x |-> f.x + 1]
           p == P[n]
           b == P[n - 1]
           Q == [P EXCEPT ![n] = q]
           new == [st EXCEPT ![n] = g]
<1>1. /\ n \in Nat \ {0} /\ f \in FrameSet /\ g \in FrameSet /\ SectorOf(g) = SectorOf(f)
      /\ g.logic = f.logic /\ g.off = f.off /\ g.x = f.x + 1
      /\ g = [f EXCEPT !.x = f.x + 1]
  <2>1. n \in Nat \ {0}
    OBVIOUS
  <2>2. f \in FrameSet
    BY <2>1, ElementOfSeq
  <2>3. f.logic \in Nat /\ f.off \in Nat /\ f.x \in Nat
    BY <2>2 DEF FrameSet
  <2>4. g \in FrameSet
    BY <2>3 DEF FrameSet
  <2>5. g = [f EXCEPT !.x = f.x + 1]
    BY <2>2 DEF FrameSet
  <2> QED BY <2>1, <2>2, <2>4, <2>5 DEF SectorOf
<1>3. /\ p \in 0..Len(Listing) /\ b \in p..Len(Listing)
      /\ Slice(p, b) = Rest(n, f)
  <2>1. n \in 0..n /\ n - 1 \in 0..n /\ n \in 1..n
    BY <1>1
  <2>2. p \in 0..Len(Listing) /\ b \in 0..Len(Listing) /\ p <= b
    BY <2>1 DEF Stands
  <2> QED BY <2>1, <2>2 DEF Stands
<1>5. Rest(n, g) = From(n, f, f.x + 1)
  <2>1. g.x # 0
    BY <1>1 DEF FrameSet
  <2>2. \A y : Described(n, g, y) = Described(n, f, y)
    BY <1>1 DEF Described
  <2>3. \A y : From(n, g, y) = From(n, f, y)
    BY <2>2 DEF From
  <2> HIDE DEF g
  <2> QED BY <1>1, <2>1, <2>3 DEF Rest
<1>6. Listing \in Seq(Extent) /\ Len(Listing) \in Nat
  BY ListingIsRest, LenProperties
<1>7. /\ q \in p..b /\ Slice(p, q) = Described(n, f, f.x)
      /\ Slice(q, b) = From(n, f, f.x + 1)
  <2>1. p \in Nat /\ b \in Nat /\ p <= b /\ b <= Len(Listing)
    BY <1>3, <1>6
  <2> QED BY SMTT(30), <1>3, <2>1, RestSplit
<1>8. new = [st EXCEPT ![n].x = f.x + 1]
  BY <1>1
<1>9. /\ new \in Seq(FrameSet) /\ Len(new) = n /\ new[n] = g
      /\ \A k \in 1..n : k # n => new[k] = st[k]
  BY <1>1, ExceptSeq
<1> HIDE DEF g, new
<1>10. Stands(Q, new)
  <2>1. P \in [0..n -> 0..Len(Listing)] /\ P[0] = Len(Listing)
    BY DEF Stands
  <2>2. Q \in [0..n -> 0..Len(Listing)] /\ Q[0] = Len(Listing)
    BY <1>1, <1>3, <1>6, <1>7, <2>1
  <2>3. ASSUME NEW k \in 1..n
        PROVE  /\ Q[k] <= Q[k - 1]
               /\ Slice(Q[k], Q[k - 1]) = Rest(k, new[k])
    <3>1. k - 1 \in 0..n /\ k \in 0..n /\ k - 1 # n
      BY <1>1
    <3>2. CASE k = n
      <4>1. Q[k] = q /\ Q[k - 1] = b
        BY <2>1, <3>1, <3>2
      <4> QED BY <1>5, <1>7, <1>9, <3>2, <4>1
    <3>3. CASE k # n
      <4>1. Q[k] = P[k] /\ Q[k - 1] = P[k - 1]
        BY <2>1, <3>1, <3>3
      <4> QED BY <1>9, <3>3, <4>1 DEF Stands
    <3> QED BY <3>2, <3>3
  <2> HIDE DEF Q
  <2> QED BY <1>9, <2>2, <2>3 DEF Stands
<1> QED BY <1>3, <1>6, <1>7, <1>8, <1>10

LEMMA Enter ==
  ASSUME TypeOK, NEW st \in Seq(FrameSet), NEW P, Stands(P, st),
         NEW f \in FrameSet, NEW q \in 0..Len(Listing), q <= P[Len(st)],
         Slice(q, P[Len(st)]) = Rest(Len(st) + 1, f)
  PROVE  Stands([k \in 0..(Len(st) + 1) |-> IF k = Len(st) + 1 THEN q ELSE P[k]],
                Append(st, f))
<1> DEFINE n == Len(st)
           Q == [k \in 0..(n + 1) |-> IF k = n + 1 THEN q ELSE P[k]]
           new == Append(st, f)
<1>1. /\ n \in Nat /\ Len(new) = n + 1 /\ new[n + 1] = f
      /\ \A k \in 1..n : new[k] = st[k]
  BY AppendProperties
<1> HIDE DEF new
<1>2. Q \in [0..(n + 1) -> 0..Len(Listing)] /\ Q[0] = Len(Listing)
  BY <1>1 DEF Stands
<1>3. ASSUME NEW k \in 1..(n + 1)
      PROVE  /\ Q[k] <= Q[k - 1]
             /\ Slice(Q[k], Q[k - 1]) = Rest(k, new[k])
  <2>1. k \in 0..(n + 1) /\ k - 1 \in 0..(n + 1) /\ k - 1 # n + 1
    BY <1>1
  <2>2. CASE k = n + 1
    <3>1. Q[k] = q /\ Q[k - 1] = P[n]
      BY <1>1, <2>1, <2>2
    <3> QED BY <1>1, <2>2, <3>1
  <2>3. CASE k # n + 1
    <3>1. Q[k] = P[k] /\ Q[k - 1] = P[k - 1] /\ k \in 1..n
      BY <1>1, <2>1, <2>3
    <3> QED BY <1>1, <3>1 DEF Stands
  <2> QED BY <2>2, <2>3
<1> HIDE DEF Q
<1>4. Stands(Q, new)
  BY <1>1, <1>2, <1>3 DEF Stands
<1> QED BY <1>4 DEF Q, new

LEMMA Leave ==
  ASSUME NEW st \in Seq(FrameSet), st # <<>>, NEW P, Stands(P, st)
  PROVE  LET below == SubSeq(st, 1, Len(st) - 1)
         IN  Stands([k \in 0..(Len(st) - 1) |-> P[k]], below)
<1> DEFINE n == Len(st)
           Q == [k \in 0..(n - 1) |-> P[k]]
           below == SubSeq(st, 1, n - 1)
<1>1. n \in Nat \ {0}
  OBVIOUS
<1>2. Len(below) = n - 1 /\ \A k \in 1..(n - 1) : below[k] = st[k]
  <2>1. n - 1 \in Int /\ \A i \in 1..(n - 1) : st[i] \in FrameSet
    BY <1>1, ElementOfSeq
  <2>2. /\ Len(below) = IF 1 <= n - 1 THEN (n - 1) - 1 + 1 ELSE 0
        /\ \A i \in 1..(n - 1) - 1 + 1 : below[i] = st[1 + i - 1]
    BY <2>1, SubSeqProperties
  <2>3. \A k \in 1..(n - 1) : k \in 1..(n - 1) - 1 + 1 /\ 1 + k - 1 = k
    BY <1>1
  <2> HIDE DEF n, below
  <2> QED BY <1>1, <2>2, <2>3
<1> HIDE DEF below
<1>3. Q \in [0..(n - 1) -> 0..Len(Listing)] /\ Q[0] = Len(Listing)
  BY <1>1 DEF Stands
<1>4. ASSUME NEW k \in 1..(n - 1)
      PROVE  /\ Q[k] <= Q[k - 1]
             /\ Slice(Q[k], Q[k - 1]) = Rest(k, below[k])
  <2>1. Q[k] = P[k] /\ Q[k - 1] = P[k - 1] /\ k \in 1..n
    BY <1>1
  <2> QED BY <1>2, <2>1 DEF Stands
<1> HIDE DEF Q
<1>5. Stands(Q, below)
  BY <1>2, <1>3, <1>4 DEF Stands
<1> QED BY <1>5 DEF Q, below

-----------------------------------------------------------------------------
(***************************************************************************)
(* The inductive invariant: the frames are of boot records of the disk and *)
(* stand at places of the listing, and what was answered is known by its   *)
(* place: behind the number asked for, or exactly there if all tables      *)
(* could be read.                                                          *)
(***************************************************************************)
FramesOK(st) ==
  /\ st \in Seq(FrameSet)
  /\ \A k \in 1..Len(st) :
       /\ FrameOK(k, st[k])
       /\ st[k].x # 0 => SectorOf(st[k]) \in DOMAIN disk
       /\ st[k].x <= TableSize(k) + 1

Placed == stack # <<>> => \E P : Counts(P, stack, got, fault.call)

InOrder ==
  /\ Len(found) <= Len(Listing)
  /\ \A n \in 1..Len(found) : found[n] = Listing[n]

Answered ==
  /\ NeverBefore
  /\ fault.scan = {} => InOrder
  /\ phase = "open" /\ fault.scan = {} => Len(found) = Lower(MaxPart, Len(Listing))
  /\ phase = "scan" => /\ no # 0 => no = Len(found) + 1
                       /\ fault.call \subseteq fault.scan
                       /\ opened = NotOpened
  /\ phase = "open" /\ no = 0 /\ opened.no # 0 /\ fault.call = {} =>
       opened.part = IF opened.no <= Len(Listing) THEN Listing[opened.no] ELSE Null

MbrIInv == TypeOK /\ FramesOK(stack) /\ Placed /\ Answered

(* What is described does not change.                                      *)
LEMMA SameDisk ==
  ASSUME disk' = disk
  PROVE  /\ Listing' = Listing
         /\ \A k, f : Rest(k, f)' = Rest(k, f) /\ FrameOK(k, f)' = FrameOK(k, f)
         /\ \A f : SectorOf(f)' = SectorOf(f)
<1>1. \A logic : Logical(logic)' = Logical(logic)
  BY DEF Logical
<1>2. Listing' = Listing
  BY <1>1 DEF Listing
<1>3. \A f : SectorOf(f)' = SectorOf(f)
  BY DEF SectorOf
<1>4. \A k, f, x : Described(k, f, x)' = Described(k, f, x)
  BY <1>1 DEF Described, SectorOf
<1>5. \A k, f, x : From(k, f, x)' = From(k, f, x)
  BY <1>4 DEF From, TableSize
<1>6. \A k, f : Rest(k, f)' = Rest(k, f)
  BY <1>5 DEF Rest, SectorOf
<1>7. \A k, f : FrameOK(k, f)' = FrameOK(k, f)
  BY DEF FrameOK, Logics, FrameSet
<1> QED BY <1>2, <1>3, <1>6, <1>7

(* The call goes on: its frames stand at places of the listing again.      *)
MoreFaults == fault' = fault \/ \E what \in Fault : Faulty(what)

LEMMA FaultSteps ==
  ASSUME fault \in [scan : SUBSET Fault, call : SUBSET Fault], MoreFaults
  PROVE  /\ fault' \in [scan : SUBSET Fault, call : SUBSET Fault]
         /\ fault.scan \subseteq fault'.scan /\ fault.call \subseteq fault'.call
         /\ phase = "scan" /\ fault.call \subseteq fault.scan =>
              fault'.call \subseteq fault'.scan
<1>1. CASE fault' = fault
  BY <1>1
<1>2. ASSUME NEW what \in Fault, Faulty(what)
      PROVE  /\ fault' \in [scan : SUBSET Fault, call : SUBSET Fault]
             /\ fault.scan \subseteq fault'.scan /\ fault.call \subseteq fault'.call
             /\ phase = "scan" /\ fault.call \subseteq fault.scan =>
                  fault'.call \subseteq fault'.scan
  <2>1. /\ fault'.call = fault.call \cup {what}
        /\ fault'.scan = fault.scan \cup (IF phase = "scan" THEN {what} ELSE {})
    BY <1>2 DEF Faulty
  <2>2. fault' = [scan |-> fault'.scan, call |-> fault'.call]
    BY <1>2 DEF Faulty
  <2>3. fault'.call \in SUBSET Fault /\ fault'.scan \in SUBSET Fault
    BY <1>2, <2>1
  <2> QED BY <2>1, <2>2, <2>3
<1> QED BY <1>1, <1>2 DEF MoreFaults

LEMMA GoesOn ==
  ASSUME MbrIInv, no # 0, UNCHANGED <<disk, phase, no, found, opened>>,
         MoreFaults, got' \in 0..(no - 1),
         NEW st, stack' = st, st # <<>>, FramesOK(st),
         NEW P, Counts(P, st, got', fault'.call)
  PROVE  MbrIInv'
<1>1. FramesOK(stack)'
  BY SameDisk DEF FramesOK, TableSize
<1>2. Placed'
  <2>1. Stands(P, stack)'
    BY SameDisk DEF Counts, Stands, Slice
  <2>2. Counts(P, stack, got, fault.call)'
    BY <2>1 DEF Counts
  <2> QED BY <2>2 DEF Placed
<1>3. Answered'
  <2>1. Answered
    BY DEF MbrIInv
  <2>2. /\ fault.scan \subseteq fault'.scan
        /\ phase = "scan" => fault'.call \subseteq fault'.scan
    <3>1. fault \in [scan : SUBSET Fault, call : SUBSET Fault]
      BY DEF MbrIInv, TypeOK
    <3>2. phase = "scan" => fault.call \subseteq fault.scan
      BY <2>1 DEF Answered
    <3> QED BY <3>1, <3>2, FaultSteps
  <2>3. NeverBefore'
    <3>1. "stray" \notin fault'.scan => "stray" \notin fault.scan
      BY <2>2
    <3>2. no' # 0 /\ found' = found /\ Listing' = Listing
      BY SameDisk
    <3> QED BY <2>1, <3>1, <3>2 DEF Answered, NeverBefore
  <2>4. fault'.scan = {} => InOrder'
    BY <2>1, <2>2, SameDisk DEF Answered, InOrder
  <2>5. phase' = "open" /\ fault'.scan = {} => Len(found') = Lower(MaxPart, Len(Listing'))
    BY <2>1, <2>2, SameDisk DEF Answered
  <2> QED BY <2>1, <2>2, <2>3, <2>4, <2>5 DEF Answered
<1>4. TypeOK'
  <2>1. TypeOK
    BY DEF MbrIInv
  <2>2. no \in 1..MaxPart /\ no' = no /\ got' \in 0..MaxPart /\ got' < no'
    <3>1. no \in 0..MaxPart /\ MaxPart \in Nat
      BY <2>1, DisksAssumption DEF TypeOK
    <3>2. no' = no /\ got' \in 0..(no - 1)
      OBVIOUS
    <3> QED BY <3>1, <3>2
  <2>3. fault' \in [scan : SUBSET Fault, call : SUBSET Fault]
    BY <2>1, FaultSteps DEF TypeOK
  <2>4. stack' \in Seq(FrameSet) /\ stack' # <<>>
    BY DEF FramesOK
  <2>5. \A k \in DOMAIN stack' :
          /\ stack'[k].x # 0 => SectorOf(stack'[k]) \in DOMAIN disk'
          /\ stack'[k].x <= TableSize(k) + 1
    BY <2>4 DEF FramesOK
  <2> QED BY <2>1, <2>2, <2>3, <2>4, <2>5 DEF TypeOK, FrameSet, SectorOf, TableSize
<1> QED BY <1>1, <1>2, <1>3, <1>4 DEF MbrIInv

(* A call ends: it gives a partition that is not before the number asked   *)
(* for, or none and then, if all tables could be read, there is no such    *)
(* number; or anything, if other bytes were taken for a table.             *)
Names(n, part, wrong) ==
  IF part = Null
  THEN wrong = {} => Len(Listing) < n
  ELSE "stray" \notin wrong =>
         \E m \in n..Len(Listing) : Listing[m] = part /\ (wrong = {} => m = n)

LEMMA Returns ==
  ASSUME MbrIInv, no # 0, UNCHANGED disk, NEW part, Return(part),
         MoreFaults, got' \in 0..MaxPart,
         part \in Extent \cup {Null}, Names(no, part, fault'.call)
  PROVE  MbrIInv'
<1>1. TypeOK /\ Answered /\ Listing \in Seq(Extent) /\ Len(Listing) \in Nat
  BY ListingIsRest, LenProperties DEF MbrIInv
<1>2. /\ no \in 1..MaxPart /\ MaxPart \in Nat /\ no' = 0 /\ stack' = <<>>
      /\ found \in Seq(Extent) /\ Len(found) \in Nat /\ Len(found) <= MaxPart
      /\ phase \in {"scan", "open"}
      /\ fault \in [scan : SUBSET Fault, call : SUBSET Fault]
  BY <1>1, DisksAssumption, LenProperties DEF TypeOK, Return
<1>3. /\ fault' \in [scan : SUBSET Fault, call : SUBSET Fault]
      /\ fault.scan \subseteq fault'.scan
      /\ phase = "scan" => fault'.call \subseteq fault'.scan
  <2>1. phase = "scan" => fault.call \subseteq fault.scan
    BY <1>1 DEF Answered
  <2> QED BY <1>2, <2>1, FaultSteps
<1>4. FramesOK(stack)' /\ Placed'
  <2>1. stack' \in Seq(FrameSet) /\ Len(stack') = 0
    BY <1>2, EmptySeq
  <2> QED BY <1>2, <2>1 DEF FramesOK, Placed
<1>5. CASE phase = "scan" /\ part = Null
  <2>1. phase' = "open" /\ found' = found /\ opened' = opened
    BY <1>5 DEF Return
  <2>2. opened = NotOpened /\ no = Len(found) + 1
    BY <1>1, <1>2, <1>5 DEF Answered
  <2>3. TypeOK'
    BY <1>1, <1>2, <1>3, <2>1, EmptySeq DEF TypeOK
  <2>4. NeverBefore'
    <3>1. opened'.part = Null
      BY <2>1, <2>2 DEF NotOpened
    <3>2. "stray" \notin fault'.scan => "stray" \notin fault.scan
      BY <1>3
    <3> QED BY <1>1, <2>1, <3>1, <3>2, SameDisk DEF Answered, NeverBefore
  <2>5. fault'.scan = {} => InOrder'
    BY <1>1, <1>3, <2>1, SameDisk DEF Answered, InOrder
  <2>6. fault'.scan = {} => Len(found) = Len(Listing) /\ Len(found) < MaxPart
    <3>1. fault'.scan = {} => fault.scan = {} /\ fault'.call = {}
      BY <1>3, <1>5
    <3>2. fault'.scan = {} => Len(Listing) < no /\ Len(found) <= Len(Listing)
      BY <1>1, <1>5, <3>1 DEF Names, Answered, InOrder
    <3> QED BY <1>1, <1>2, <2>2, <3>2
  <2>7. fault'.scan = {} => Len(found') = Lower(MaxPart, Len(Listing'))
    BY <1>1, <1>2, <2>1, <2>6, SameDisk DEF Lower
  <2>8. opened'.no = 0
    BY <2>1, <2>2 DEF NotOpened
  <2>9. Answered'
    BY <2>1, <2>4, <2>5, <2>7, <2>8 DEF Answered
  <2> QED BY <1>4, <2>3, <2>9 DEF MbrIInv
<1>6. CASE phase = "scan" /\ part # Null
  <2>1. phase' = phase /\ found' = Append(found, part) /\ opened' = opened
    BY <1>6 DEF Return
  <2>2. opened = NotOpened /\ no = Len(found) + 1 /\ part \in Extent
    BY <1>1, <1>2, <1>6 DEF Answered
  <2>3. /\ found' \in Seq(Extent) /\ Len(found') = no /\ found'[no] = part
        /\ \A n \in 1..Len(found) : found'[n] = found[n]
    BY <1>2, <2>1, <2>2, AppendProperties
  <2>4. TypeOK'
    BY <1>1, <1>2, <1>3, <2>1, <2>3, EmptySeq DEF TypeOK
  <2>5. "stray" \notin fault'.scan =>
          \E m \in no..Len(Listing) :
            Listing[m] = part /\ (fault'.scan = {} => m = no)
    <3>1. /\ "stray" \notin fault'.scan => "stray" \notin fault'.call
          /\ fault'.scan = {} => fault'.call = {}
      BY <1>3, <1>6
    <3> QED BY <1>6, <3>1 DEF Names
  <2>6. NeverBefore'
    <3>1. ASSUME "stray" \notin fault'.scan
          PROVE  \A n \in 1..no : \E k \in n..Len(Listing) : Listing[k] = found'[n]
      <4> SUFFICES ASSUME NEW n \in 1..no
                   PROVE  \E k \in n..Len(Listing) : Listing[k] = found'[n]
        OBVIOUS
      <4>1. CASE n = no
        BY <3>1, <4>1, <2>3, <2>5
      <4>2. CASE n # no
        <5>1. n \in 1..Len(found) /\ "stray" \notin fault.scan
          BY <1>2, <1>3, <2>2, <3>1, <4>2
        <5> QED BY SMTT(30), <1>1, <1>2, <2>3, <5>1 DEF Answered, NeverBefore
      <4> QED BY <4>1, <4>2
    <3>2. opened'.part = Null
      BY <2>1, <2>2 DEF NotOpened
    <3>3. DOMAIN found' = 1..no
      BY <2>3, LenProperties
    <3> QED BY <3>1, <3>2, <3>3, SameDisk DEF NeverBefore
  <2>7. fault'.scan = {} => InOrder'
    <3> SUFFICES ASSUME fault'.scan = {} PROVE InOrder'
      OBVIOUS
    <3>1. InOrder
      BY <1>1, <1>3 DEF Answered
    <3>2. no <= Len(Listing) /\ Listing[no] = part
      BY <1>1, <1>2, <2>5
    <3>3. \A n \in 1..no : found'[n] = Listing[n]
      <4> SUFFICES ASSUME NEW n \in 1..no PROVE found'[n] = Listing[n]
        OBVIOUS
      <4>1. CASE n = no
        BY <4>1, <2>3, <3>2
      <4>2. CASE n # no
        <5>1. n \in 1..Len(found)
          BY <1>2, <2>2, <4>2
        <5> QED BY <2>3, <3>1, <5>1 DEF InOrder
      <4> QED BY <4>1, <4>2
    <3> QED BY <2>3, <3>2, <3>3, SameDisk DEF InOrder
  <2>8. Answered'
    BY <1>2, <1>3, <1>6, <2>1, <2>2, <2>6, <2>7 DEF Answered
  <2> QED BY <1>4, <2>4, <2>8 DEF MbrIInv
<1>7. CASE phase = "open"
  <2>1. phase' = phase /\ found' = found /\ opened' = [no |-> no, part |-> part]
    BY <1>7 DEF Return
  <2>2. opened'.no = no /\ opened'.part = part
    BY <2>1
  <2>3. TypeOK'
    <3>1. opened' \in [no : 0..MaxPart, part : Extent \cup {Null}]
      BY <1>2, <2>1
    <3> QED BY <1>1, <1>2, <1>3, <2>1, <3>1, EmptySeq DEF TypeOK
  <2>4. NeverBefore'
    <3>1. "stray" \notin fault'.call /\ part # Null =>
            \E k \in no..Len(Listing) : Listing[k] = part
      BY DEF Names
    <3>2. "stray" \notin fault'.scan =>
            \A n \in DOMAIN found : \E k \in n..Len(Listing) : Listing[k] = found[n]
      BY <1>1, <1>3 DEF Answered, NeverBefore
    <3> QED BY <2>1, <2>2, <3>1, <3>2, SameDisk DEF NeverBefore
  <2>5. fault'.scan = {} => InOrder'
    BY <1>1, <1>3, <2>1, SameDisk DEF Answered, InOrder
  <2>6. fault'.scan = {} => Len(found') = Lower(MaxPart, Len(Listing'))
    BY <1>1, <1>3, <1>7, <2>1, SameDisk DEF Answered
  <2>7. fault'.call = {} => part = IF no <= Len(Listing) THEN Listing[no] ELSE Null
    <3>1. CASE part = Null
      BY <1>1, <1>2, <3>1 DEF Names
    <3>2. CASE part # Null
      BY <1>1, <1>2, <3>2 DEF Names
    <3> QED BY <3>1, <3>2
  <2>8. Answered'
    <3>1. Listing' = Listing
      BY SameDisk
    <3> QED BY <1>7, <2>1, <2>2, <2>4, <2>5, <2>6, <2>7, <3>1 DEF Answered
  <2> QED BY <1>4, <2>3, <2>8 DEF MbrIInv
<1> QED BY <1>2, <1>5, <1>6, <1>7

(* A call begins at the start of the listing.                              *)
LEMMA Begins ==
  ASSUME MbrIInv, NEW n \in 1..MaxPart, Ask(n), UNCHANGED <<disk, phase, found, opened>>,
         phase = "scan" => n = Len(found) + 1
  PROVE  MbrIInv'
<1> DEFINE f == Frame(0, 0)
<1>1. TypeOK /\ Answered /\ Listing \in Seq(Extent) /\ Len(Listing) \in Nat
  BY ListingIsRest, LenProperties DEF MbrIInv
<1>2. /\ no' = n /\ stack' = <<f>> /\ got' = 0 /\ fault' = [fault EXCEPT !.call = {}]
      /\ n \in Nat /\ n # 0 /\ no = 0
  BY DisksAssumption DEF Ask
<1>3. /\ f \in FrameSet /\ f.x = 0 /\ f.logic = 0 /\ f.off = 0
  BY DEF Frame, FrameSet
<1>4. /\ fault' \in [scan : SUBSET Fault, call : SUBSET Fault]
      /\ fault'.scan = fault.scan /\ fault'.call = {}
  <2>1. fault \in [scan : SUBSET Fault, call : SUBSET Fault]
    BY <1>1 DEF TypeOK
  <2> QED BY <1>2, <2>1
<1>5. <<f>> \in Seq(FrameSet) /\ Len(<<f>>) = 1 /\ <<f>>[1] = f
  BY <1>3
<1>6. FramesOK(stack)'
  BY <1>2, <1>3, <1>5 DEF FramesOK, FrameOK, TableSize
<1>7. Placed'
  <2>1. Slice(0, Len(Listing)) = Listing
    <3>1. /\ SubSeq(Listing, 1, Len(Listing)) \in Seq(Extent)
          /\ Len(SubSeq(Listing, 1, Len(Listing))) = Len(Listing)
          /\ \A i \in 1..Len(Listing) : SubSeq(Listing, 1, Len(Listing))[i] = Listing[i]
      BY <1>1, SubSeqProperties, ElementOfSeq
    <3>2. SubSeq(Listing, 1, Len(Listing)) = Listing
      BY <1>1, <3>1, SeqEqual
    <3> QED BY <3>2 DEF Slice
  <2>2. Listing = Rest(1, f)
    BY <1>1, ListingIsRest
  <2>3. PICK P : P \in [0..1 -> 0..Len(Listing)] /\ P[0] = Len(Listing) /\ P[1] = 0
    <3> DEFINE Q == [k \in 0..1 |-> IF k = 0 THEN Len(Listing) ELSE 0]
    <3>1. Q \in [0..1 -> 0..Len(Listing)] /\ Q[0] = Len(Listing) /\ Q[1] = 0
      BY <1>1
    <3> QED BY <3>1
  <2> HIDE DEF f
  <2>4. PICK st : st = <<f>>
    OBVIOUS
  <2>5. Stands(P, st)
    <3>1. Len(st) = 1 /\ st[1] = f
      BY <1>5, <2>4
    <3>2. P[1] <= P[0] /\ Slice(P[1], P[0]) = Rest(1, f)
      BY <1>1, <2>1, <2>2, <2>3
    <3>3. ASSUME NEW k \in 1..1 PROVE k = 1 /\ k - 1 = 0
      OBVIOUS
    <3> QED BY <2>3, <3>1, <3>2, <3>3 DEF Stands
  <2>6. stack' = st
    BY <1>2, <2>4
  <2>7. Stands(P, stack)'
    BY <2>5, <2>6, SameDisk DEF Stands, Slice
  <2>8. Counts(P, stack, got, fault.call)'
    <3>1. P[Len(st)] = 0 /\ got' = 0
      BY <1>2, <1>5, <2>3, <2>4
    <3>2. got' <= P[Len(st)] /\ got' = P[Len(st)]
      BY <3>1
    <3> QED BY <2>6, <2>7, <3>2 DEF Counts
  <2> QED BY <2>8 DEF Placed
<1>8. TypeOK'
  <2> HIDE DEF f
  <2>1. /\ no' \in 0..MaxPart /\ got' \in 0..MaxPart /\ got' < no'
        /\ stack' # <<>> /\ no' # 0
    BY <1>2, <1>5, DisksAssumption
  <2>2. stack' \in Seq([logic : Nat, off : Nat, x : Nat])
    BY <1>2, <1>5 DEF FrameSet
  <2>3. \A k \in DOMAIN stack' : stack'[k].x = 0
    BY <1>2, <1>3, <1>5
  <2>4. \A k : TableSize(k) + 1 >= 0
    BY DEF TableSize
  <2> QED BY <1>1, <1>4, <2>1, <2>2, <2>3, <2>4 DEF TypeOK, TableSize
<1>9. Answered'
  <2>1. NeverBefore'
    <3>1. no' # 0 /\ found' = found /\ Listing' = Listing
      BY <1>2, SameDisk
    <3> QED BY <1>1, <1>4, <3>1 DEF Answered, NeverBefore
  <2>2. fault'.scan = {} => InOrder'
    BY <1>1, <1>4, SameDisk DEF Answered, InOrder
  <2>3. phase' = "open" /\ fault'.scan = {} => Len(found') = Lower(MaxPart, Len(Listing'))
    BY <1>1, <1>4, SameDisk DEF Answered
  <2> QED BY <1>1, <1>2, <1>4, <2>1, <2>2, <2>3 DEF Answered
<1> QED BY <1>6, <1>7, <1>8, <1>9 DEF MbrIInv

-----------------------------------------------------------------------------
(* The frames of the stack, and of what becomes of it.                     *)
LEMMA AtTop ==
  ASSUME MbrIInv, stack # <<>>
  PROVE  /\ stack \in Seq(FrameSet) /\ Len(stack) \in Nat \ {0} /\ Top = stack[Len(stack)]
         /\ FrameOK(Len(stack), Top) /\ Top \in FrameSet
         /\ Top.x # 0 => SectorOf(Top) \in DOMAIN disk
         /\ Top.x <= TableSize(Len(stack)) + 1
         /\ no # 0 /\ no \in 1..MaxPart /\ got \in 0..(no - 1) /\ MaxPart \in Nat
         /\ \E P : Counts(P, stack, got, fault.call)
<1>1. TypeOK /\ FramesOK(stack) /\ stack \in Seq(FrameSet)
  BY DEF MbrIInv, FramesOK
<1>2. Len(stack) \in Nat \ {0}
  BY <1>1
<1>3. Len(stack) \in 1..Len(stack)
  BY <1>2
<1>4. /\ FrameOK(Len(stack), Top)
      /\ Top.x # 0 => SectorOf(Top) \in DOMAIN disk
      /\ Top.x <= TableSize(Len(stack)) + 1
  BY <1>1, <1>3 DEF FramesOK, Top
<1>5. /\ no # 0 /\ no \in 1..MaxPart /\ got \in 0..(no - 1) /\ MaxPart \in Nat
  BY <1>1, DisksAssumption DEF TypeOK
<1>6. \E P : Counts(P, stack, got, fault.call)
  BY DEF MbrIInv, Placed
<1>7. Top \in FrameSet
  BY <1>4 DEF FrameOK
<1> QED BY <1>1, <1>2, <1>4, <1>5, <1>6, <1>7 DEF Top

LEMMA NextFrames ==
  ASSUME MbrIInv, stack # <<>>, Top.x <= TableSize(Len(stack)),
         SectorOf(Top) \in DOMAIN disk
  PROVE  /\ FramesOK(NextEntry) /\ Len(NextEntry) = Len(stack) /\ NextEntry # <<>>
         /\ NextEntry = [stack EXCEPT ![Len(stack)].x = Top.x + 1]
         /\ NextEntry = [stack EXCEPT ![Len(stack)] = [Top EXCEPT !.x = Top.x + 1]]
<1> DEFINE n == Len(stack)
           g == [Top EXCEPT !.x = Top.x + 1]
<1>1. /\ stack \in Seq(FrameSet) /\ n \in Nat \ {0} /\ Top = stack[n]
      /\ FrameOK(n, Top) /\ Top \in FrameSet
  BY AtTop
<1>2. /\ g \in FrameSet /\ g.logic = Top.logic /\ g.off = Top.off /\ g.x = Top.x + 1
  <2>1. Top.x \in Nat
    BY <1>1 DEF FrameSet
  <2>2. Top.x + 1 \in Nat
    BY <2>1
  <2> QED BY <1>1, <2>2 DEF FrameSet
<1>3. NextEntry = [stack EXCEPT ![n] = g]
  BY <1>1 DEF NextEntry
<1> HIDE DEF g
<1>4. /\ NextEntry \in Seq(FrameSet) /\ Len(NextEntry) = n /\ NextEntry[n] = g
      /\ \A k \in 1..n : k # n => NextEntry[k] = stack[k]
  BY <1>1, <1>2, <1>3, ExceptSeq
<1>5. FrameOK(n, g) /\ SectorOf(g) \in DOMAIN disk /\ g.x <= TableSize(n) + 1
  <2>1. Top.x \in Nat /\ TableSize(n) \in Nat
    BY <1>1 DEF FrameSet, TableSize
  <2> QED BY <1>1, <1>2, <2>1 DEF FrameOK, SectorOf
<1>6. FramesOK(NextEntry)
  BY <1>4, <1>5 DEF FramesOK, MbrIInv
<1> QED BY <1>1, <1>3, <1>4, <1>6, EmptySeq DEF NextEntry, g

LEMMA AppendFrames ==
  ASSUME NEW st, FramesOK(st), NEW f, FrameOK(Len(st) + 1, f), f.x = 0
  PROVE  FramesOK(Append(st, f)) /\ Append(st, f) # <<>>
<1>1. st \in Seq(FrameSet) /\ f \in FrameSet /\ Len(st) \in Nat
  BY DEF FramesOK, FrameOK
<1>2. /\ Append(st, f) \in Seq(FrameSet) /\ Len(Append(st, f)) = Len(st) + 1
      /\ Append(st, f)[Len(st) + 1] = f
      /\ \A k \in 1..Len(st) : Append(st, f)[k] = st[k]
  BY <1>1, AppendProperties
<1> DEFINE new == Append(st, f)
<1>3. ASSUME NEW k \in 1..(Len(st) + 1)
      PROVE  /\ FrameOK(k, new[k])
             /\ new[k].x # 0 => SectorOf(new[k]) \in DOMAIN disk
             /\ new[k].x <= TableSize(k) + 1
  <2>1. CASE k = Len(st) + 1
    BY <1>1, <1>2, <2>1 DEF TableSize
  <2>2. CASE k # Len(st) + 1
    <3>1. k \in 1..Len(st)
      BY <1>1, <2>2
    <3> QED BY <1>2, <3>1 DEF FramesOK
  <2> QED BY <2>1, <2>2
<1> QED BY <1>1, <1>2, <1>3, EmptySeq DEF FramesOK

LEMMA BelowFrames ==
  ASSUME MbrIInv, stack # <<>>, Len(stack) # 1
  PROVE  FramesOK(Below) /\ Len(Below) = Len(stack) - 1 /\ Below # <<>>
<1> DEFINE n == Len(stack)
<1>1. stack \in Seq(FrameSet) /\ n \in Nat /\ n > 1 /\ FramesOK(stack)
  <2>1. FramesOK(stack)
    BY DEF MbrIInv
  <2>2. stack \in Seq(FrameSet) /\ n \in Nat \ {0}
    BY AtTop
  <2>3. n # 1
    OBVIOUS
  <2>4. n > 1
    <3> HIDE DEF n
    <3> QED BY <2>2, <2>3
  <2> QED BY <2>1, <2>2, <2>4
<1>2. n - 1 \in Int /\ \A i \in 1..(n - 1) : stack[i] \in FrameSet
  BY <1>1, ElementOfSeq
<1>3. /\ Below \in Seq(FrameSet)
      /\ Len(Below) = IF 1 <= n - 1 THEN (n - 1) - 1 + 1 ELSE 0
      /\ \A i \in 1..(n - 1) - 1 + 1 : Below[i] = stack[1 + i - 1]
  BY <1>2, SubSeqProperties DEF Below
<1>4. \A k \in 1..(n - 1) : k \in 1..(n - 1) - 1 + 1 /\ 1 + k - 1 = k /\ k \in 1..n
  BY <1>1
<1> HIDE DEF n
<1>5. Len(Below) = n - 1 /\ \A k \in 1..(n - 1) : Below[k] = stack[k]
  BY <1>1, <1>3, <1>4
<1>6. FramesOK(Below)
  <2>1. \A k \in 1..(n - 1) :
          /\ FrameOK(k, stack[k])
          /\ stack[k].x # 0 => SectorOf(stack[k]) \in DOMAIN disk
          /\ stack[k].x <= TableSize(k) + 1
    BY <1>1, <1>4 DEF FramesOK, n
  <2> QED BY <1>3, <1>5, <2>1 DEF FramesOK
<1> QED BY <1>1, <1>5, <1>6, EmptySeq DEF n

(* The places, when the innermost frame reads its table, goes on or ends.  *)
LEMMA ReadPlaces ==
  ASSUME NEW st \in Seq(FrameSet), st # <<>>, NEW P, Stands(P, st),
         NEW f, f = st[Len(st)], f.x = 0,
         NEW new, new = [st EXCEPT ![Len(st)] = [f EXCEPT !.x = 1]]
  PROVE  Stands(P, new)
<1> DEFINE n == Len(st)
           g == [f EXCEPT !.x = 1]
<1>1. n \in Nat \ {0} /\ f \in FrameSet
  <2>1. n \in Nat \ {0}
    OBVIOUS
  <2> QED BY <2>1, ElementOfSeq
<1>2. g \in FrameSet /\ g.logic = f.logic /\ g.off = f.off /\ g.x = 1
  BY <1>1 DEF FrameSet
<1> HIDE DEF g
<1>3. /\ new \in Seq(FrameSet) /\ Len(new) = n /\ new[n] = g
      /\ \A k \in 1..n : k # n => new[k] = st[k]
  BY <1>1, <1>2, ExceptSeq DEF g
<1>4. Rest(n, g) = Rest(n, f)
  <2>1. \A y : Described(n, g, y) = Described(n, f, y)
    BY <1>2 DEF Described, SectorOf
  <2>2. \A y : From(n, g, y) = From(n, f, y)
    BY <2>1 DEF From
  <2> QED BY <1>2, <2>2 DEF Rest, SectorOf
<1>5. ASSUME NEW k \in 1..n PROVE Rest(k, new[k]) = Rest(k, st[k])
  BY <1>3, <1>4
<1> QED BY <1>3, <1>5 DEF Stands

LEMMA NextPlaces ==
  ASSUME MbrIInv, stack # <<>>, Top.x \in 1..TableSize(Len(stack)),
         NEW P, Counts(P, stack, got, fault.call),
         NEW q, q = P[Len(stack)] + Len(Described(Len(stack), Top, Top.x))
  PROVE  /\ P[Len(stack)] \in 0..q /\ q \in 0..Len(Listing)
         /\ Slice(P[Len(stack)], q) = Described(Len(stack), Top, Top.x)
         /\ \E Q : Stands(Q, NextEntry) /\ Q[Len(stack)] = q
<1> DEFINE n == Len(stack)
           Q == [P EXCEPT ![n] = q]
<1>1. /\ stack \in Seq(FrameSet) /\ n \in Nat \ {0} /\ Top = stack[n] /\ FrameOK(n, Top)
      /\ SectorOf(Top) \in DOMAIN disk /\ Top.x <= TableSize(n)
  <2>1. TableSize(n) \in Nat
    BY DEF TableSize
  <2> QED BY <2>1, AtTop
<1>2. TypeOK /\ Stands(P, stack)
  BY DEF MbrIInv, Counts
<1>3. NextEntry = [stack EXCEPT ![n].x = Top.x + 1]
  BY <1>1, NextFrames
<1>4. /\ P[n] \in 0..q /\ q \in 0..Len(Listing)
      /\ Slice(P[n], q) = Described(n, Top, Top.x)
      /\ Stands(Q, NextEntry)
  BY <1>1, <1>2, <1>3, Advance
<1>5. Q[n] = q
  BY <1>1, <1>2 DEF Stands
<1> HIDE DEF Q
<1> QED BY <1>4, <1>5

LEMMA BelowPlaces ==
  ASSUME MbrIInv, stack # <<>>, Len(stack) # 1,
         NEW P, Counts(P, stack, got, fault.call),
         NEW count \in Nat, NEW wrong,
         "stray" \notin wrong => count = got /\ "stray" \notin fault.call,
         wrong = {} => fault.call = {} /\ P[Len(stack)] = P[Len(stack) - 1]
  PROVE  \E Q : Counts(Q, Below, count, wrong)
<1> DEFINE n == Len(stack)
           Q == [k \in 0..(n - 1) |-> P[k]]
<1>1. stack \in Seq(FrameSet) /\ n \in Nat \ {0} /\ got \in Nat /\ Len(Below) = n - 1
  BY AtTop, BelowFrames
<1>2. /\ Stands(P, stack)
      /\ "stray" \notin fault.call => got <= P[n]
      /\ fault.call = {} => got = P[n]
  BY DEF Counts
<1>3. Stands(Q, Below)
  BY <1>1, <1>2, Leave DEF Below
<1>4. Q[n - 1] = P[n - 1] /\ P[n] \in Nat /\ P[n - 1] \in Nat /\ P[n] <= P[n - 1]
  <2>1. n \in 1..n /\ n \in 0..n /\ n - 1 \in 0..n /\ n - 1 \in 0..(n - 1)
    BY <1>1
  <2> QED BY SMTT(30), <1>2, <2>1 DEF Stands
<1> HIDE DEF Q
<1>5. /\ "stray" \notin wrong => count <= Q[n - 1]
      /\ wrong = {} => count = Q[n - 1]
  BY <1>1, <1>2, <1>4
<1>6. Counts(Q, Below, count, wrong)
  BY <1>1, <1>3, <1>5 DEF Counts
<1> QED BY <1>6

-----------------------------------------------------------------------------
(* Every operation preserves the invariant.                                *)
LEMMA InitOK ==
  ASSUME Init PROVE MbrIInv
<1>1. Listing \in Seq(Extent) /\ Len(Listing) \in Nat
  <2>1. disk \in Disks
    BY DEF Init
  <2>2. TypeOK
    BY DisksAssumption, EmptySeq DEF Init, TypeOK, NotOpened
  <2> QED BY <2>2, ListingIsRest, LenProperties
<1>2. TypeOK
  BY DisksAssumption, EmptySeq DEF Init, TypeOK, NotOpened
<1>3. FramesOK(stack) /\ Placed
  BY EmptySeq DEF Init, FramesOK, Placed
<1>4. Answered
  BY <1>1 DEF Init, Answered, NeverBefore, InOrder, NotOpened
<1> QED BY <1>2, <1>3, <1>4 DEF MbrIInv

LEMMA StutterOK ==
  ASSUME MbrIInv, UNCHANGED vars PROVE MbrIInv'
<1>1. TypeOK' /\ FramesOK(stack)'
  BY SameDisk DEF MbrIInv, TypeOK, FramesOK, vars, SectorOf, TableSize
<1>2. Placed'
  <2> SUFFICES ASSUME stack' # <<>> PROVE \E P : Counts(P, stack, got, fault.call)'
    BY DEF Placed
  <2>1. PICK P : Counts(P, stack, got, fault.call)
    BY DEF MbrIInv, Placed, vars
  <2>2. Counts(P, stack, got, fault.call)'
    BY <2>1, SameDisk DEF Counts, Stands, Slice, vars
  <2> QED BY <2>2
<1>3. Answered'
  BY SameDisk DEF MbrIInv, Answered, NeverBefore, InOrder, vars
<1> QED BY <1>1, <1>2, <1>3 DEF MbrIInv

LEMMA AskNextOK ==
  ASSUME MbrIInv, AskNext PROVE MbrIInv'
<1>1. Len(found) + 1 \in 1..MaxPart
  BY DisksAssumption DEF MbrIInv, TypeOK, AskNext
<1> QED BY <1>1, Begins DEF AskNext

LEMMA AskAgainOK ==
  ASSUME MbrIInv, AskAgain PROVE MbrIInv'
<1>1. PICK n \in 1..MaxPart : Ask(n)
  BY DEF AskAgain
<1>2. phase # "scan" /\ UNCHANGED <<disk, phase, found, opened>>
  BY DEF AskAgain
<1> QED BY <1>1, <1>2, Begins

(* The service has asked for all the numbers it asks for, or it stops for  *)
(* another reason.                                                         *)
StopScan ==
  /\ phase = "scan" /\ no = 0
  /\ phase' = "open"
  /\ \/ fault' = fault /\ Len(found) = MaxPart
     \/ fault' = [fault EXCEPT !.scan = @ \cup {"failed"}]
  /\ UNCHANGED <<disk, no, stack, got, found, opened>>

LEMMA StopScanOK ==
  ASSUME MbrIInv, StopScan PROVE MbrIInv'
<1>1. /\ TypeOK /\ Answered /\ Listing \in Seq(Extent) /\ Len(Listing) \in Nat
      /\ stack = <<>> /\ stack' = <<>> /\ no' = 0 /\ MaxPart \in Nat
      /\ phase = "scan" /\ phase' = "open" /\ disk' = disk /\ found' = found
      /\ opened' = opened
  BY ListingIsRest, LenProperties, DisksAssumption DEF MbrIInv, TypeOK, StopScan
<1>2. /\ fault' \in [scan : SUBSET Fault, call : SUBSET Fault]
      /\ fault'.scan = {} => fault.scan = {} /\ Len(found) = MaxPart
      /\ fault.scan \subseteq fault'.scan
  <2>1. fault \in [scan : SUBSET Fault, call : SUBSET Fault]
    BY <1>1 DEF TypeOK
  <2>2. CASE fault' = fault /\ Len(found) = MaxPart
    BY <2>1, <2>2
  <2>3. CASE fault' = [fault EXCEPT !.scan = @ \cup {"failed"}]
    BY <2>1, <2>3 DEF Fault
  <2> QED BY <2>2, <2>3 DEF StopScan
<1>3. FramesOK(stack)' /\ Placed'
  <2>1. stack' \in Seq(FrameSet) /\ Len(stack') = 0
    BY <1>1, EmptySeq
  <2> QED BY <1>1, <2>1 DEF FramesOK, Placed
<1>4. TypeOK'
  BY <1>1, <1>2, EmptySeq DEF TypeOK, StopScan
<1>5. Answered'
  <2>1. NeverBefore'
    <3>1. opened'.part = Null
      BY <1>1 DEF Answered, NotOpened
    <3> QED BY <1>1, <1>2, <3>1, SameDisk DEF Answered, NeverBefore
  <2>2. fault'.scan = {} => InOrder'
    BY <1>1, <1>2, SameDisk DEF Answered, InOrder
  <2>3. fault'.scan = {} => Len(found') = Lower(MaxPart, Len(Listing'))
    BY <1>1, <1>2, SameDisk DEF Answered, InOrder, Lower
  <2>4. opened'.no = 0
    BY <1>1 DEF Answered, NotOpened
  <2> QED BY <1>1, <2>1, <2>2, <2>3, <2>4 DEF Answered
<1> QED BY <1>3, <1>4, <1>5 DEF MbrIInv

LEMMA ReadTableOK ==
  ASSUME MbrIInv, ReadTable PROVE MbrIInv'
<1>1. /\ stack # <<>> /\ Top.x = 0 /\ SectorOf(Top) \in DOMAIN disk
      /\ stack' = NextEntry /\ got' = got /\ fault' = fault
      /\ UNCHANGED <<disk, phase, no, found, opened>>
  BY DEF ReadTable
<1>2. Top.x <= TableSize(Len(stack))
  BY <1>1 DEF TableSize
<1>3. PICK st : st = NextEntry
  OBVIOUS
<1>4. FramesOK(st) /\ st # <<>> /\ Len(st) = Len(stack)
  BY <1>1, <1>2, <1>3, NextFrames
<1>5. PICK P : Counts(P, stack, got, fault.call)
  BY <1>1, AtTop
<1>6. Stands(P, st)
  <2>1. st = [stack EXCEPT ![Len(stack)] = [Top EXCEPT !.x = 1]]
    BY <1>1, <1>2, <1>3, NextFrames
  <2>2. stack \in Seq(FrameSet) /\ Top = stack[Len(stack)]
    BY <1>1, AtTop
  <2> QED BY <1>1, <1>5, <2>1, <2>2, ReadPlaces DEF Counts
<1>7. Counts(P, st, got', fault'.call)
  BY <1>1, <1>4, <1>5, <1>6 DEF Counts
<1>8. no # 0 /\ got' \in 0..(no - 1)
  BY <1>1, AtTop
<1> QED BY <1>1, <1>3, <1>4, <1>7, <1>8, GoesOn DEF MoreFaults

LEMMA GiveUpOK ==
  ASSUME MbrIInv, stack # <<>>, GiveUp, UNCHANGED disk, got' \in 0..(no - 1),
         MoreFaults,
         NEW P, Counts(P, stack, got, fault.call),
         "stray" \notin fault'.call => got' = got,
         fault'.call = {} => P[Len(stack)] = P[Len(stack) - 1]
  PROVE  MbrIInv'
<1>1. /\ no # 0 /\ no \in 1..MaxPart /\ MaxPart \in Nat /\ got' \in Nat
      /\ fault.call \subseteq fault'.call
  <2>1. fault \in [scan : SUBSET Fault, call : SUBSET Fault]
    BY DEF MbrIInv, TypeOK
  <2> QED BY <2>1, AtTop, FaultSteps
<1>2. CASE Len(stack) = 1
  <2>1. fault'.call = {} => Len(Listing) < no
    <3>1. P[0] = Len(Listing) /\ Len(Listing) \in Nat
      BY ListingIsRest, LenProperties DEF Counts, Stands, MbrIInv
    <3>2. fault'.call = {} => fault.call = {} /\ got' = got
      BY <1>1
    <3> QED BY <1>1, <1>2, <3>1, <3>2 DEF Counts
  <2>2. Names(no, Null, fault'.call)
    BY <2>1 DEF Names
  <2>3. Return(Null)
    BY <1>2 DEF GiveUp
  <2>4. got' \in 0..MaxPart
    BY <1>1
  <2> QED BY <1>1, <2>2, <2>3, <2>4, Returns
<1>3. CASE Len(stack) # 1
  <2>1. stack' = Below /\ UNCHANGED <<phase, no, found, opened>>
    BY <1>3 DEF GiveUp
  <2>2. PICK st : st = Below
    OBVIOUS
  <2>3. FramesOK(st) /\ st # <<>>
    BY <1>3, <2>2, BelowFrames
  <2>4. PICK wrong, count : wrong = fault'.call /\ count = got'
    OBVIOUS
  <2>5. /\ count \in Nat
        /\ "stray" \notin wrong => count = got /\ "stray" \notin fault.call
        /\ wrong = {} => fault.call = {} /\ P[Len(stack)] = P[Len(stack) - 1]
    BY <1>1, <2>4
  <2>6. PICK Q : Counts(Q, Below, count, wrong)
    BY <1>3, <2>5, BelowPlaces
  <2>7. Counts(Q, st, got', fault'.call)
    BY <2>2, <2>4, <2>6
  <2> QED BY <1>1, <2>1, <2>2, <2>3, <2>7, GoesOn
<1> QED BY <1>2, <1>3

LEMMA ReadFailsOK ==
  ASSUME MbrIInv, ReadFails PROVE MbrIInv'
<1>1. stack # <<>> /\ GiveUp /\ UNCHANGED <<disk, got>> /\ Faulty("failed")
  BY DEF ReadFails
<1>2. PICK P : Counts(P, stack, got, fault.call)
  BY <1>1, AtTop
<1>3. MoreFaults /\ fault'.call # {}
  BY <1>1 DEF MoreFaults, Fault, Faulty
<1>4. got' \in 0..(no - 1)
  BY <1>1, AtTop
<1> QED BY <1>1, <1>2, <1>3, <1>4, GiveUpOK

LEMMA ReadStrayOK ==
  ASSUME MbrIInv, ReadStray PROVE MbrIInv'
<1>1. stack # <<>> /\ UNCHANGED disk /\ Faulty("stray")
  BY DEF ReadStray
<1>2. PICK P : Counts(P, stack, got, fault.call)
  BY <1>1, AtTop
<1>3. MoreFaults /\ "stray" \in fault'.call
  BY <1>1 DEF MoreFaults, Fault, Faulty
<1>4. /\ got \in 0..(no - 1) /\ no # 0 /\ no \in 1..MaxPart /\ MaxPart \in Nat
  BY <1>1, AtTop
<1>5. ASSUME NEW part \in Strays, Return(part), got' = no PROVE MbrIInv'
  <2>1. part \in Extent /\ part # Null
    BY StraysAssumption DEF Extent, Null
  <2>2. Names(no, part, fault'.call)
    BY <1>3, <2>1 DEF Names
  <2>3. got' \in 0..MaxPart
    BY <1>4, <1>5
  <2> QED BY <1>1, <1>3, <1>4, <1>5, <2>1, <2>2, <2>3, Returns
<1>6. CASE got' \in got..(no - 1) /\ GiveUp
  <2>1. got' \in 0..(no - 1)
    BY <1>4, <1>6
  <2> QED BY <1>1, <1>2, <1>3, <1>6, <2>1, GiveUpOK
<1> QED BY <1>5, <1>6 DEF ReadStray

LEMMA TableDoneOK ==
  ASSUME MbrIInv, TableDone PROVE MbrIInv'
<1> DEFINE n == Len(stack)
<1>1. /\ stack # <<>> /\ GiveUp /\ UNCHANGED <<disk, got>> /\ fault' = fault
      /\ Top.x > TableSize(n)
  BY DEF TableDone
<1>2. PICK P : Counts(P, stack, got, fault.call)
  BY <1>1, AtTop
<1>3. P[n] = P[n - 1]
  <2>1. n \in Nat \ {0} /\ Top = stack[n] /\ Top \in FrameSet
    BY <1>1, AtTop
  <2>2. n \in 1..n /\ n \in 0..n /\ n - 1 \in 0..n
    BY <2>1
  <2>3. P[n] \in 0..Len(Listing) /\ P[n - 1] \in 0..Len(Listing) /\ P[n] <= P[n - 1]
    BY <1>2, <2>2 DEF Counts, Stands
  <2>4. Slice(P[n], P[n - 1]) = Rest(n, Top)
    BY <1>2, <2>1, <2>2 DEF Counts, Stands
  <2>5. Rest(n, Top) = <<>>
    <3>1. Top.x # 0 /\ From(n, Top, Top.x) = <<>>
      BY <1>1, <2>1 DEF TableSize, From
    <3> QED BY <3>1 DEF Rest
  <2>6. Len(Slice(P[n], P[n - 1])) = P[n - 1] - P[n]
    <3>1. Listing \in Seq(Extent) /\ Len(Listing) \in Nat
      BY ListingIsRest, LenProperties DEF MbrIInv
    <3>2. PICK a, b : a = P[n] /\ b = P[n - 1]
      OBVIOUS
    <3> HIDE DEF n
    <3>3. a \in 0..Len(Listing) /\ b \in a..Len(Listing)
      BY <2>3, <3>1, <3>2
    <3>4. Len(SubSeq(Listing, a + 1, b)) = b - a
      BY <3>1, <3>3, SubSeqProperties, ElementOfSeq
    <3> QED BY <3>2, <3>4 DEF Slice
  <2> HIDE DEF n
  <2>7. P[n - 1] - P[n] = 0
    BY <2>4, <2>5, <2>6, EmptySeq
  <2> QED BY <2>3, <2>7
<1>4. got' \in 0..(no - 1) /\ MoreFaults
  BY <1>1, AtTop DEF MoreFaults
<1> QED BY <1>1, <1>2, <1>3, <1>4, GiveUpOK

(* What is described at an entry.                                          *)
LEMMA AtEntryFacts ==
  ASSUME MbrIInv, NEW type, AtEntry(type)
  PROVE  /\ stack # <<>> /\ Top.x \in 1..TableSize(Len(stack)) /\ Entry.type = type
         /\ SectorOf(Top) \in DOMAIN disk /\ Top.x <= TableSize(Len(stack))
         /\ Entry = disk[SectorOf(Top)][Top.x] /\ Entry \in EntryRecord
         /\ Len(stack) = 1 /\ type = "extended" => Entry.off \in Logics(disk)
<1>1. stack # <<>> /\ Top.x \in 1..TableSize(Len(stack)) /\ Entry.type = type
  BY DEF AtEntry
<1>2. TableSize(Len(stack)) \in Nat
  BY DEF TableSize
<1>3. FrameOK(Len(stack), Top) /\ SectorOf(Top) \in DOMAIN disk
  BY <1>1, <1>2, AtTop
<1>4. TypeOK
  BY DEF MbrIInv
<1>5. Entry \in EntryRecord
  BY <1>1, <1>3, <1>4, EntryAt DEF Entry
<1>6. Len(stack) = 1 /\ type = "extended" => Entry.off \in Logics(disk)
  BY <1>1, <1>3, <1>4, EntryAt DEF Entry
<1> QED BY <1>1, <1>2, <1>3, <1>5, <1>6 DEF Entry

LEMMA UnusedOK ==
  ASSUME MbrIInv, Unused PROVE MbrIInv'
<1> DEFINE n == Len(stack)
<1>1. /\ AtEntry("unused") /\ stack' = NextEntry /\ got' = got /\ fault' = fault
      /\ UNCHANGED <<disk, phase, no, found, opened>>
  BY DEF Unused
<1>2. /\ stack # <<>> /\ Top.x \in 1..TableSize(n) /\ SectorOf(Top) \in DOMAIN disk
      /\ Top.x <= TableSize(n)
  BY <1>1, AtEntryFacts
<1>3. Len(Described(n, Top, Top.x)) = 0
  BY <1>1, AtEntryFacts DEF Described
<1>4. PICK P : Counts(P, stack, got, fault.call)
  BY <1>2, AtTop
<1>5. PICK q : q = P[n] + Len(Described(n, Top, Top.x))
  OBVIOUS
<1>6. P[n] \in 0..q /\ q \in 0..Len(Listing) /\ \E Q : Stands(Q, NextEntry) /\ Q[n] = q
  BY <1>2, <1>4, <1>5, NextPlaces
<1>7. PICK Q : Stands(Q, NextEntry) /\ Q[n] = q
  BY <1>6
<1>8. q = P[n]
  BY <1>3, <1>5, <1>6
<1>9. PICK st : st = NextEntry
  OBVIOUS
<1>10. FramesOK(st) /\ st # <<>> /\ Len(st) = n
  BY <1>2, <1>9, NextFrames
<1>11. Counts(Q, st, got', fault'.call)
  BY <1>1, <1>4, <1>7, <1>8, <1>9, <1>10 DEF Counts
<1>12. no # 0 /\ got' \in 0..(no - 1)
  BY <1>1, <1>2, AtTop
<1> QED BY <1>1, <1>9, <1>10, <1>11, <1>12, GoesOn DEF MoreFaults

LEMMA ExtendedOK ==
  ASSUME MbrIInv, Extended PROVE MbrIInv'
<1> DEFINE n == Len(stack)
           new == IF n = 1 THEN Frame(Entry.off, 0) ELSE Frame(Top.logic, Entry.off)
<1>1. /\ AtEntry("extended") /\ stack' = Append(NextEntry, new) /\ got' = got
      /\ fault' = fault /\ UNCHANGED <<disk, phase, no, found, opened>>
  BY DEF Extended
<1>2. /\ stack # <<>> /\ Top.x \in 1..TableSize(n) /\ SectorOf(Top) \in DOMAIN disk
      /\ Top.x <= TableSize(n) /\ Entry \in EntryRecord /\ Entry.type = "extended"
      /\ Entry = disk[SectorOf(Top)][Top.x]
      /\ n = 1 => Entry.off \in Logics(disk)
  BY <1>1, AtEntryFacts
<1>3. n \in Nat \ {0} /\ FrameOK(n, Top) /\ no # 0 /\ got' \in 0..(no - 1) /\ got \in Nat
  BY <1>1, <1>2, AtTop
<1>4. /\ FrameOK(n + 1, new) /\ new.x = 0 /\ new \in FrameSet
      /\ Described(n, Top, Top.x) = Rest(n + 1, new)
  <2>1. Entry.off \in Nat /\ Top.logic \in Nat
    BY <1>2, <1>3 DEF EntryRecord, FrameOK, FrameSet
  <2>2. TypeOK /\ n + 1 \in Nat /\ n + 1 > 1
    BY <1>3 DEF MbrIInv
  <2>3. CASE n = 1
    <3>1. new = Frame(Entry.off, 0) /\ Entry.off \in Logics(disk)
      BY <1>2, <2>3
    <3>2. Described(n, Top, Top.x) = Logical(Entry.off)[0]
      BY <1>2, <2>3 DEF Described
    <3>3. Logical(Entry.off)[0] = Rest(n + 1, Frame(Entry.off, 0))
      BY <2>1, <2>2, <3>1, LinkIsRest
    <3>4. FrameOK(n + 1, Frame(Entry.off, 0)) /\ Frame(Entry.off, 0) \in FrameSet
      BY <2>1, <2>2, <3>1 DEF FrameOK, FrameSet, Frame
    <3>5. Frame(Entry.off, 0).x = 0
      BY DEF Frame
    <3> QED BY <3>1, <3>2, <3>3, <3>4, <3>5
  <2>4. CASE n # 1
    <3>1. new = Frame(Top.logic, Entry.off) /\ Top.logic \in Logics(disk)
      <4>1. new = Frame(Top.logic, Entry.off)
        BY <2>4
      <4> HIDE DEF n, new
      <4>2. n > 1
        BY <1>3, <2>4
      <4> QED BY <1>3, <4>1, <4>2 DEF FrameOK
    <3>2. Described(n, Top, Top.x) = Logical(Top.logic)[Entry.off]
      BY <1>2, <2>4 DEF Described
    <3>3. Logical(Top.logic)[Entry.off] = Rest(n + 1, Frame(Top.logic, Entry.off))
      BY <2>1, <2>2, <3>1, LinkIsRest
    <3>4. /\ FrameOK(n + 1, Frame(Top.logic, Entry.off))
          /\ Frame(Top.logic, Entry.off) \in FrameSet
      BY <2>1, <2>2, <3>1 DEF FrameOK, FrameSet, Frame
    <3>5. Frame(Top.logic, Entry.off).x = 0
      BY DEF Frame
    <3> QED BY <3>1, <3>2, <3>3, <3>4, <3>5
  <2> QED BY <2>3, <2>4
<1> HIDE DEF new
<1>5. PICK P : Counts(P, stack, got, fault.call)
  BY <1>2, AtTop
<1>6. PICK q : q = P[n] + Len(Described(n, Top, Top.x))
  OBVIOUS
<1>7. /\ P[n] \in 0..q /\ q \in 0..Len(Listing)
      /\ Slice(P[n], q) = Described(n, Top, Top.x)
      /\ \E Q : Stands(Q, NextEntry) /\ Q[n] = q
  BY <1>2, <1>5, <1>6, NextPlaces
<1>8. PICK Q : Stands(Q, NextEntry) /\ Q[n] = q
  BY <1>7
<1>9. PICK next : next = NextEntry
  OBVIOUS
<1>10. FramesOK(next) /\ next # <<>> /\ Len(next) = n
  BY <1>2, <1>9, NextFrames
<1>11. PICK f, p : f = new /\ p = P[n]
  OBVIOUS
<1>12. PICK st : st = Append(next, f)
  OBVIOUS
<1>13. FramesOK(st) /\ st # <<>> /\ Len(st) = n + 1
  <2>1. next \in Seq(FrameSet)
    BY <1>10 DEF FramesOK
  <2> QED BY <1>4, <1>10, <1>11, <1>12, <2>1, AppendFrames, AppendProperties
<1>14. \E R : Stands(R, st) /\ R[n + 1] = p
  <2> DEFINE R == [k \in 0..(n + 1) |-> IF k = n + 1 THEN p ELSE Q[k]]
  <2>1. p \in 0..Len(Listing) /\ p <= q
    <3>1. Len(Listing) \in Nat
      BY ListingIsRest, LenProperties DEF MbrIInv
    <3> QED BY <1>7, <1>11, <3>1
  <2>2. Slice(p, Q[Len(next)]) = Rest(Len(next) + 1, f)
    BY <1>4, <1>7, <1>8, <1>10, <1>11
  <2>3. next \in Seq(FrameSet) /\ TypeOK /\ Stands(Q, next) /\ f \in FrameSet
    BY <1>4, <1>8, <1>9, <1>10, <1>11 DEF FramesOK, MbrIInv
  <2>4. p <= Q[Len(next)]
    BY <1>8, <1>10, <2>1
  <2>5. Stands([k \in 0..(Len(next) + 1) |-> IF k = Len(next) + 1 THEN p ELSE Q[k]], st)
    BY <1>12, <2>1, <2>2, <2>3, <2>4, Enter
  <2>6. Stands(R, st)
    BY <1>10, <2>5
  <2>7. R[n + 1] = p
    BY <1>3
  <2> HIDE DEF R
  <2> QED BY <2>6, <2>7
<1>15. PICK R : Stands(R, st) /\ R[n + 1] = p
  BY <1>14
<1>16. Counts(R, st, got', fault'.call)
  BY <1>1, <1>5, <1>11, <1>13, <1>15 DEF Counts
<1>17. stack' = st
  BY <1>1, <1>9, <1>11, <1>12
<1> QED BY <1>1, <1>3, <1>13, <1>16, <1>17, GoesOn DEF MoreFaults

LEMMA PartitionOK ==
  ASSUME MbrIInv, Partition PROVE MbrIInv'
<1> DEFINE n == Len(stack)
           part == [off |-> SectorOf(Top) + Entry.off, len |-> Entry.len]
<1>1. /\ AtEntry("data") /\ got' = got + 1 /\ fault' = fault /\ disk' = disk
      /\ got' = no => Return(part)
      /\ got' # no => stack' = NextEntry /\ UNCHANGED <<phase, no, found, opened>>
  BY DEF Partition
<1>2. /\ stack # <<>> /\ Top.x \in 1..TableSize(n) /\ SectorOf(Top) \in DOMAIN disk
      /\ Top.x <= TableSize(n) /\ Entry \in EntryRecord /\ Entry.type = "data"
      /\ Entry = disk[SectorOf(Top)][Top.x]
  BY <1>1, AtEntryFacts
<1>3. /\ n \in Nat \ {0} /\ FrameOK(n, Top) /\ no # 0 /\ no \in 1..MaxPart
      /\ got \in 0..(no - 1) /\ got \in Nat /\ MaxPart \in Nat
  BY <1>1, <1>2, AtTop
<1>4. part \in Extent
  BY <1>2, <1>3 DEF Extent, EntryRecord, FrameOK, FrameSet, SectorOf
<1>5. Described(n, Top, Top.x) = <<part>>
  BY <1>2 DEF Described
<1> HIDE DEF part
<1>6. PICK P : Counts(P, stack, got, fault.call)
  BY <1>2, AtTop
<1>7. PICK q : q = P[n] + Len(Described(n, Top, Top.x))
  OBVIOUS
<1>8. /\ P[n] \in 0..q /\ q \in 0..Len(Listing)
      /\ Slice(P[n], q) = Described(n, Top, Top.x)
      /\ \E Q : Stands(Q, NextEntry) /\ Q[n] = q
  BY <1>2, <1>6, <1>7, NextPlaces
<1>9. Listing \in Seq(Extent) /\ Len(Listing) \in Nat
  BY ListingIsRest, LenProperties DEF MbrIInv
<1>10. q = P[n] + 1 /\ P[n] \in Nat /\ q <= Len(Listing)
  BY <1>5, <1>7, <1>8, <1>9
<1>11. /\ "stray" \notin fault.call => got <= P[n]
       /\ fault.call = {} => got = P[n]
  BY <1>6 DEF Counts
<1>12. CASE got' = no
  <2>1. Listing[q] = part
    <3>1. PICK p : p = P[n]
      OBVIOUS
    <3>2. SubSeq(Listing, p + 1, p + 1) = <<part>>
      BY <1>5, <1>8, <1>10, <3>1 DEF Slice
    <3>3. p + 1 \in 1..Len(Listing)
      BY <1>9, <1>10, <3>1
    <3>4. SubSeq(Listing, p + 1, p + 1)[1] = Listing[p + 1]
      BY <1>9, <3>3
    <3>5. Listing[p + 1] = part
      <4>1. <<part>>[1] = part
        OBVIOUS
      <4> QED BY <3>2, <3>4, <4>1, Zenon
    <3> QED BY <1>10, <3>1, <3>5
  <2>2. /\ "stray" \notin fault'.call => q \in no..Len(Listing)
        /\ fault'.call = {} => q = no
    BY <1>1, <1>3, <1>9, <1>10, <1>11, <1>12
  <2>3. part # Null
    BY <1>4 DEF Null, Extent
  <2>4. Names(no, part, fault'.call)
    BY <2>1, <2>2, <2>3 DEF Names
  <2>5. got' \in 0..MaxPart
    BY <1>3, <1>12
  <2> QED BY <1>1, <1>3, <1>4, <1>12, <2>4, <2>5, Returns DEF MoreFaults
<1>13. CASE got' # no
  <2>1. PICK Q : Stands(Q, NextEntry) /\ Q[n] = q
    BY <1>8
  <2>2. PICK st : st = NextEntry
    OBVIOUS
  <2>3. FramesOK(st) /\ st # <<>> /\ Len(st) = n
    BY <1>2, <2>2, NextFrames
  <2>4. Counts(Q, st, got', fault'.call)
    BY <1>1, <1>3, <1>10, <1>11, <2>1, <2>2, <2>3 DEF Counts
  <2>5. got' \in 0..(no - 1)
    BY <1>1, <1>3, <1>13
  <2> QED BY <1>1, <1>3, <1>13, <2>2, <2>3, <2>4, <2>5, GoesOn DEF MoreFaults
<1> QED BY <1>12, <1>13

LEMMA ParseOK ==
  ASSUME MbrIInv, Parse PROVE MbrIInv'
BY ReadTableOK, ReadFailsOK, ReadStrayOK, UnusedOK, ExtendedOK, PartitionOK, TableDoneOK DEF Parse

(* What the invariant says of the scan and of the processes.               *)
LEMMA InvariantSays ==
  ASSUME MbrIInv
  PROVE  ScanFindsAll /\ NeverBefore /\ SameAsScanned
<1>1. /\ TypeOK /\ Answered /\ Listing \in Seq(Extent) /\ Len(Listing) \in Nat
      /\ found \in Seq(Extent) /\ Len(found) \in Nat /\ MaxPart \in Nat
      /\ Len(found) <= MaxPart /\ phase \in {"scan", "open"}
  BY ListingIsRest, LenProperties, DisksAssumption DEF MbrIInv, TypeOK
<1>2. ScanFindsAll
  <2> SUFFICES ASSUME phase = "open", fault.scan = {}
               PROVE  found = SubSeq(Listing, 1, Lower(MaxPart, Len(Listing)))
    BY DEF ScanFindsAll
  <2> DEFINE m == Lower(MaxPart, Len(Listing))
  <2>1. Len(found) = m /\ InOrder
    BY <1>1 DEF Answered
  <2>2. m \in 0..Len(Listing)
    BY <1>1 DEF Lower
  <2> HIDE DEF m
  <2>3. /\ SubSeq(Listing, 1, m) \in Seq(Extent) /\ Len(SubSeq(Listing, 1, m)) = m
        /\ \A i \in 1..m : SubSeq(Listing, 1, m)[i] = Listing[i]
    BY <1>1, <2>2, SubSeqProperties, ElementOfSeq
  <2>4. \A i \in 1..m : found[i] = SubSeq(Listing, 1, m)[i]
    BY <2>1, <2>3 DEF InOrder
  <2>5. found = SubSeq(Listing, 1, m)
    BY <1>1, <2>1, <2>3, <2>4, SeqEqual
  <2> QED BY <2>5 DEF m
<1>3. SameAsScanned
  <2> SUFFICES ASSUME no = 0, opened.no # 0, fault.scan = {}, fault.call = {}
               PROVE  opened.part = IF opened.no \in DOMAIN found
                                    THEN found[opened.no] ELSE Null
    BY DEF SameAsScanned
  <2>1. opened.no \in 1..MaxPart
    BY <1>1 DEF TypeOK
  <2>2. phase = "open"
    BY <1>1 DEF Answered, NotOpened
  <2>3. /\ Len(found) = Lower(MaxPart, Len(Listing)) /\ InOrder
        /\ opened.part = IF opened.no <= Len(Listing) THEN Listing[opened.no] ELSE Null
    BY <1>1, <2>2 DEF Answered
  <2>4. opened.no \in DOMAIN found <=> opened.no <= Len(Listing)
    BY <1>1, <2>1, <2>3 DEF Lower
  <2>5. opened.no \in DOMAIN found => found[opened.no] = Listing[opened.no]
    BY <1>1, <2>3 DEF InOrder
  <2> QED BY <2>3, <2>4, <2>5
<1> QED BY <1>1, <1>2, <1>3 DEF Answered
=============================================================================
