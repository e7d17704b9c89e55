---------------------------- MODULE DokanOpsProof ----------------------------
(***************************************************************************)
(* Proofs about the callbacks and the lookups they make: no node is used   *)
(* or given back after it was given back, at most one is left behind by a  *)
(* lookup that fails, and the contexts hold exactly the open files; a      *)
(* lookup finds what its path names, reads answer from that file, and a    *)
(* listing gives the directory's entries in their order.                   *)
(***************************************************************************)
EXTENDS DokanOps, SequenceTheorems, FiniteSetTheorems, TLAPS

-----------------------------------------------------------------------------
(***************************************************************************)
(* The shape of the recursion.  A frame's call to itself starts from the   *)
(* frame's old directory, and only the innermost frame runs.               *)
(***************************************************************************)
Frames ==
  [rest : Seq(Name), root : Node \cup {Root}, node : Ref, old : Ref,
   type : FileType, at : {"search", "link", "call", "found"}]

FrameOK(f) ==
  /\ f.at # "search" => f.rest # <<>> /\ f.old # NoNode
  /\ f.at = "search" => f.old = NoNode /\ f.node # NoNode
  /\ f.at = "search" /\ f.rest = <<>> => f.node = Root
  /\ f.at = "link" => f.node \in Node /\ f.node # f.root
  /\ f.at = "call" => f.node = NoNode
  /\ f.at \in {"link", "call"} => f.type = "SYMLINK"
  /\ f.at = "found" => f.node # NoNode /\ (f.node = f.root => f.node = Root)
  /\ f.at = "found" /\ f.type = "REG" => f.node \in Node

ShapeIn(st) ==
  /\ st \in Seq(Frames) /\ Len(st) <= MaxNest
  /\ \A k \in 1..Len(st) : FrameOK(st[k])
  /\ \A k \in 1..(Len(st) - 1) : st[k].at = "call" /\ st[k + 1].root = st[k].old

Shape == ShapeIn(stack) /\ (stack # <<>> => (Top.at = "call" <=> ret # NoRet))

Linked == stack # <<>> /\ Top.at = "link" => Type[heap[Top.node]] = "SYMLINK"

(* The links counted, and the result on its way.                           *)
Counted ==
  /\ nest \in 0..MaxNest /\ Len(stack) <= nest + 1
  /\ nest = MaxNest => ret # NoRet /\ ret.status = 0

Returning ==
  /\ ret = NoRet \/ ret \in [status : {0, 1}, node : Ref, type : FileType \cup {Unset}]
  /\ ret.status = 0 => ret.node = NoNode
  /\ ret.status = 1 => ret.node # NoNode
  /\ ret.type = "REG" => ret.node \in Node

Asked ==
  /\ op = NoOp \/ op \in [kind : {"open", "list"}, path : Paths]
  /\ op = NoOp => stack = <<>> /\ ret = NoRet
  /\ op # NoOp => stack # <<>> \/ ret # NoRet

(***************************************************************************)
(* Who owns what.  A frame owns its two nodes but the one it started from; *)
(* what a frame owns is not what it or an outer frame started from.        *)
(***************************************************************************)
Owns(f) == ({f.node, f.old} \ {f.root}) \cap Node

Frees(f) == f.node = f.old => f.node \notin Owns(f)

ApartIn(st) ==
  /\ \A k \in 1..Len(st) : Frees(st[k])
  /\ \A k, j \in 1..Len(st) : k # j => Owns(st[k]) \cap Owns(st[j]) = {}
  /\ \A k \in 1..Len(st) : \A j \in 1..k : st[j].root \notin Owns(st[k])

(* What is owned or started from is allocated, and no open file has it.    *)
UsedIn(st, hp) ==
  \A k \in 1..Len(st) :
    /\ \A n \in Owns(st[k]) : hp[n] # Free /\ \A h \in Handle : handle[h] # n
    /\ st[k].root \in Node => hp[st[k].root] # Free

Opened ==
  /\ \A h \in Handle : handle[h] \in Node => heap[handle[h]] # Free
  /\ \A h, g \in Handle : handle[h] \in Node /\ h # g => handle[h] # handle[g]

RetApart ==
  ret.node \in Node =>
    /\ heap[ret.node] # Free
    /\ \A h \in Handle : handle[h] # ret.node
    /\ \A k \in 1..Len(stack) : ret.node \notin Owns(stack[k]) /\ ret.node # stack[k].root

LookupOK ==
  /\ heap \in [Node -> Obj \cup {Free}]
  /\ fault \subseteq Fault
  /\ handle \in [Handle -> Node \cup {NoNode}]
  /\ Shape /\ Linked /\ Counted /\ Returning /\ Asked
  /\ ApartIn(stack) /\ UsedIn(stack, heap) /\ Opened /\ RetApart

(***************************************************************************)
(* The callbacks: which lookup each makes, and whose contexts are set.     *)
(***************************************************************************)
Calling ==
  /\ call = NoCall <=> op = NoOp
  /\ call = NoCall \/ call \in [op : {"CreateFile", "FindFiles"}, file : File]
  /\ call.op = "CreateFile" => op.kind = "open" /\ call.file \notin opened
  /\ call.op = "FindFiles" => op.kind = "list"

Holders == { f \in File : context[f] # NoContext }

Held ==
  /\ Holders \subseteq opened
  /\ \A f \in Holders : handle[context[f]] # NoNode
  /\ \A h \in Handle : handle[h] # NoNode => \E f \in Holders : context[f] = h
  /\ \A f, g \in Holders : f # g => context[f] # context[g]

Kept ==
  /\ context \in [File -> Handle \cup {NoContext}] /\ opened \subseteq File
  /\ named \in [File -> Paths \cup {<<>>, Anything}]
  /\ slot \in Nat \ {0} /\ listed \in Seq(Name)
  /\ last \in [ret : {-1, 0}, file : File \cup {NoContext},
               from : Obj \cup {NoData, Minus1}]

IInv == LookupOK /\ Calling /\ Held /\ Kept
-----------------------------------------------------------------------------
(* The stack as a sequence.                                                *)
LEMMA TopIs ==
  ASSUME ShapeIn(stack), stack # <<>>
  PROVE  /\ Len(stack) \in Nat \ {0} /\ Len(stack) \in 1..Len(stack)
         /\ Top = stack[Len(stack)] /\ Top \in Frames /\ FrameOK(Top)
<1>1. stack \in Seq(Frames)
  BY DEF ShapeIn
<1>2. Len(stack) \in Nat \ {0}
  BY <1>1, EmptySeq
<1>3. Len(stack) \in 1..Len(stack)
  BY <1>2
<1>4. Top \in Frames
  BY <1>1, <1>3, ElementOfSeq DEF Top
<1> QED BY <1>2, <1>3, <1>4 DEF Top, ShapeIn

LEMMA SetTopIs ==
  ASSUME ShapeIn(stack), stack # <<>>, NEW f \in Frames
  PROVE  /\ SetTop(f) \in Seq(Frames) /\ Len(SetTop(f)) = Len(stack)
         /\ SetTop(f)[Len(stack)] = f
         /\ \A k \in 1..(Len(stack) - 1) : SetTop(f)[k] = stack[k]
<1>1. stack \in Seq(Frames)
  BY DEF ShapeIn
<1>2. Len(stack) \in 1..Len(stack) /\ Len(stack) \in Nat
  BY TopIs
<1>3. SetTop(f) = [stack EXCEPT ![Len(stack)] = f]
  BY DEF SetTop
<1>4. /\ SetTop(f) \in Seq(Frames) /\ Len(SetTop(f)) = Len(stack)
      /\ \A k \in 1..Len(stack) : SetTop(f)[k] = IF k = Len(stack) THEN f ELSE stack[k]
  BY <1>1, <1>2, <1>3, ExceptSeq
<1>5. \A k \in 1..(Len(stack) - 1) : k \in 1..Len(stack) /\ k # Len(stack)
  BY <1>2
<1> QED BY <1>2, <1>4, <1>5

LEMMA PopIs ==
  ASSUME ShapeIn(stack), stack # <<>>
  PROVE  /\ Pop \in Seq(Frames) /\ Len(Pop) = Len(stack) - 1
         /\ \A k \in 1..(Len(stack) - 1) : Pop[k] = stack[k]
<1>1. stack \in Seq(Frames) /\ Len(stack) \in Nat \ {0}
  BY TopIs DEF ShapeIn
<1>2. PICK m \in Int : m = Len(stack) - 1 /\ m >= 0
  BY <1>1
<1>3. \A k \in 1..m : stack[k] \in Frames
  BY <1>1, <1>2, ElementOfSeq
<1>4. /\ SubSeq(stack, 1, m) \in Seq(Frames)
      /\ Len(SubSeq(stack, 1, m)) = IF 1 <= m THEN m - 1 + 1 ELSE 0
      /\ \A k \in 1..(m - 1 + 1) : SubSeq(stack, 1, m)[k] = stack[1 + k - 1]
  BY <1>2, <1>3, SubSeqProperties
<1> QED BY <1>1, <1>2, <1>4 DEF Pop

LEMMA AppendIs ==
  ASSUME NEW st \in Seq(Frames), NEW g \in Frames
  PROVE  /\ Append(st, g) \in Seq(Frames) /\ Len(Append(st, g)) = Len(st) + 1
         /\ Append(st, g)[Len(st) + 1] = g /\ Append(st, g) # <<>>
         /\ \A k \in 1..Len(st) : Append(st, g)[k] = st[k]
BY AppendProperties, LenProperties

-----------------------------------------------------------------------------
(***************************************************************************)
(* What a step does to the ownership.  The innermost frame is replaced by  *)
(* one that owns no more, but for a node that nobody had (Replaced); a     *)
(* frame that owns nothing is added (Pushed); the innermost frame is gone, *)
(* and one of its nodes may be on its way to the next (Popped).            *)
(***************************************************************************)
Same(hp, N) == \A n \in Node : n \notin N => hp[n] = heap[n]

(* Nobody has any of these nodes.                                          *)
Loose(n) ==
  /\ \A h \in Handle : handle[h] # n
  /\ \A k \in 1..Len(stack) : n \notin Owns(stack[k]) /\ n # stack[k].root

LEMMA FreshIsLoose ==
  ASSUME LookupOK, NEW n \in Node, heap[n] = Free
  PROVE  Loose(n)
BY DEF LookupOK, UsedIn, Opened, Loose

LEMMA RetIsLoose ==
  ASSUME LookupOK, ret.node \in Node
  PROVE  Loose(ret.node)
BY DEF LookupOK, RetApart, Loose

LEMMA Replaced ==
  ASSUME LookupOK, stack # <<>>, NEW f \in Frames, f.root = Top.root, FrameOK(f), Frees(f),
         NEW N \in SUBSET Node, \A n \in N : Loose(n),
         Owns(f) \subseteq Owns(Top) \cup N,
         NEW hp, Same(hp, Owns(Top) \cup N), \A n \in Owns(f) : hp[n] # Free
  PROVE  /\ ShapeIn(SetTop(f)) /\ Len(SetTop(f)) = Len(stack)
         /\ SetTop(f)[Len(stack)] = f
         /\ ApartIn(SetTop(f)) /\ UsedIn(SetTop(f), hp)
<1> DEFINE n == Len(stack)
           st == SetTop(f)
<1>1. ShapeIn(stack) /\ ApartIn(stack) /\ UsedIn(stack, heap)
  BY DEF LookupOK, Shape
<1>2. n \in Nat \ {0} /\ n \in 1..n /\ Top = stack[n] /\ stack \in Seq(Frames)
  BY <1>1, TopIs DEF ShapeIn
<1>3. /\ st \in Seq(Frames) /\ Len(st) = n /\ st[n] = f
      /\ \A k \in 1..(n - 1) : st[k] = stack[k]
  BY <1>1, SetTopIs
<1> HIDE DEF n, st
<1>4. /\ \A k \in 1..n : k # n => k \in 1..(n - 1) /\ st[k] = stack[k]
      /\ \A k \in 1..n : st[k].root = stack[k].root
  BY <1>2, <1>3
<1>5. ShapeIn(st)
  <2>1. \A k \in 1..n : FrameOK(st[k])
    BY <1>1, <1>2, <1>3, <1>4 DEF ShapeIn, n
  <2>2. ASSUME NEW k \in 1..(n - 1)
        PROVE  st[k].at = "call" /\ st[k + 1].root = st[k].old
    <3>1. k + 1 \in 1..n /\ k \in 1..n
      BY <1>2
    <3>2. stack[k].at = "call" /\ stack[k + 1].root = stack[k].old
      BY <1>1 DEF ShapeIn, n
    <3> QED BY <1>3, <1>4, <3>1, <3>2
  <2> QED BY <1>1, <1>2, <1>3, <2>1, <2>2 DEF ShapeIn, n
<1>6. ApartIn(st)
  <2>1. \A k \in 1..n : Frees(st[k])
    BY <1>1, <1>2, <1>3, <1>4 DEF ApartIn, n
  <2>2. ASSUME NEW k \in 1..n, k # n
        PROVE  Owns(st[k]) \cap Owns(f) = {}
    <3>1. Owns(stack[k]) \cap Owns(stack[n]) = {}
      BY <1>1, <1>2, <2>2 DEF ApartIn, n
    <3>2. Owns(stack[k]) \cap N = {}
      BY DEF Loose, n
    <3> QED BY <1>2, <1>4, <2>2, <3>1, <3>2
  <2>3. ASSUME NEW k \in 1..n, NEW j \in 1..n, k # j
        PROVE  Owns(st[k]) \cap Owns(st[j]) = {}
    <3>1. CASE k = n
      BY <1>3, <2>2, <2>3, <3>1
    <3>2. CASE j = n
      BY <1>3, <2>2, <2>3, <3>2
    <3>3. CASE k # n /\ j # n
      BY <1>1, <1>4, <2>3, <3>3 DEF ApartIn, n
    <3> QED BY <3>1, <3>2, <3>3
  <2>4. ASSUME NEW k \in 1..n, NEW j \in 1..k
        PROVE  st[j].root \notin Owns(st[k])
    <3>1. j \in 1..n
      BY <1>2
    <3>2. stack[j].root \notin Owns(stack[k])
      BY <1>1 DEF ApartIn, n
    <3>3. stack[j].root \notin N
      BY <3>1 DEF Loose, n
    <3> QED BY <1>2, <1>3, <1>4, <3>1, <3>2, <3>3
  <2> QED BY <1>3, <2>1, <2>3, <2>4 DEF ApartIn
<1>7. UsedIn(st, hp)
  <2>1. ASSUME NEW k \in 1..n, NEW x \in Owns(st[k])
        PROVE  hp[x] # Free /\ \A h \in Handle : handle[h] # x
    <3>1. CASE k = n
      BY <1>1, <1>2, <1>3, <2>1, <3>1 DEF UsedIn, Loose, n
    <3>2. CASE k # n
      <4>1. x \in Owns(stack[k]) /\ x \in Node
        BY <1>4, <2>1, <3>2 DEF Owns
      <4>2. x \notin Owns(Top) \cup N
        BY <1>1, <1>2, <3>2, <4>1 DEF ApartIn, Loose, n
      <4> QED BY <1>1, <4>1, <4>2 DEF UsedIn, Same, n
    <3> QED BY <3>1, <3>2
  <2>2. ASSUME NEW k \in 1..n, st[k].root \in Node
        PROVE  hp[st[k].root] # Free
    <3>1. stack[k].root \in Node /\ stack[k].root \notin Owns(Top) \cup N
      BY <1>1, <1>2, <1>4, <2>2 DEF ApartIn, Loose, n
    <3> QED BY <1>1, <1>4, <3>1 DEF UsedIn, Same, n
  <2> QED BY <1>3, <2>1, <2>2 DEF UsedIn
<1> QED BY <1>3, <1>5, <1>6, <1>7 DEF n, st

LEMMA Pushed ==
  ASSUME NEW st, ShapeIn(st), st # <<>>, Len(st) < MaxNest, ApartIn(st),
         NEW hp, UsedIn(st, hp), st[Len(st)].at = "call",
         NEW g \in Frames, FrameOK(g), Owns(g) = {}, g.root = st[Len(st)].old
  PROVE  /\ ShapeIn(Append(st, g)) /\ ApartIn(Append(st, g)) /\ UsedIn(Append(st, g), hp)
         /\ Append(st, g) # <<>> /\ Len(Append(st, g)) = Len(st) + 1
         /\ Append(st, g)[Len(st) + 1] = g
<1> DEFINE n == Len(st)
           s == Append(st, g)
<1>1. st \in Seq(Frames) /\ n \in Nat \ {0} /\ n \in 1..n /\ MaxNest \in Nat /\ n + 1 <= MaxNest
  <2>1. st \in Seq(Frames) /\ n \in Nat \ {0}
    BY EmptySeq DEF ShapeIn
  <2> QED BY <2>1, MemoryAssumption
<1>2. /\ s \in Seq(Frames) /\ Len(s) = n + 1 /\ s[n + 1] = g /\ s # <<>>
      /\ \A k \in 1..n : s[k] = st[k]
  BY <1>1, AppendIs
<1> HIDE DEF n, s
<1>3. \A k \in 1..(n + 1) : k # n + 1 => k \in 1..n
  BY <1>1
<1>4. ShapeIn(s)
  <2>1. \A k \in 1..(n + 1) : FrameOK(s[k])
    BY <1>2, <1>3 DEF ShapeIn, n
  <2>2. ASSUME NEW k \in 1..n
        PROVE  s[k].at = "call" /\ s[k + 1].root = s[k].old
    <3>1. CASE k = n
      BY <1>1, <1>2, <3>1 DEF n
    <3>2. CASE k # n
      <4>1. k \in 1..(n - 1) /\ k + 1 \in 1..n
        BY <1>1, <3>2
      <4> QED BY <1>2, <4>1 DEF ShapeIn, n
    <3> QED BY <3>1, <3>2
  <2>3. n + 1 - 1 = n
    BY <1>1
  <2> QED BY <1>1, <1>2, <2>1, <2>2, <2>3 DEF ShapeIn
<1>5. ApartIn(s)
  <2>1. \A k \in 1..(n + 1) : Frees(s[k])
    BY <1>2, <1>3 DEF ApartIn, Frees, n
  <2>2. \A k, j \in 1..(n + 1) : k # j => Owns(s[k]) \cap Owns(s[j]) = {}
    BY <1>2, <1>3 DEF ApartIn, n
  <2>3. ASSUME NEW k \in 1..(n + 1), NEW j \in 1..k
        PROVE  s[j].root \notin Owns(s[k])
    <3>1. CASE k = n + 1
      BY <1>2, <3>1
    <3>2. CASE k # n + 1
      <4>1. k \in 1..n /\ j \in 1..n
        BY <1>1, <1>3, <3>2
      <4> QED BY <1>2, <4>1 DEF ApartIn, n
    <3> QED BY <3>1, <3>2
  <2> QED BY <1>2, <2>1, <2>2, <2>3 DEF ApartIn
<1>6. UsedIn(s, hp)
  <2>1. st[n].old \in Node => hp[st[n].old] # Free
    <3>1. st[n] \in Frames
      BY <1>1, ElementOfSeq DEF n
    <3>2. st[n].old \in Node => st[n].old \in Owns(st[n]) \/ st[n].old = st[n].root
      BY DEF Owns
    <3> QED BY <1>1, <3>2 DEF UsedIn, n
  <2>2. ASSUME NEW k \in 1..(n + 1)
        PROVE  /\ \A x \in Owns(s[k]) : hp[x] # Free /\ \A h \in Handle : handle[h] # x
               /\ s[k].root \in Node => hp[s[k].root] # Free
    BY <1>2, <1>3, <2>1 DEF UsedIn, n
  <2> QED BY <1>2, <2>2 DEF UsedIn
<1> QED BY <1>2, <1>4, <1>5, <1>6 DEF n, s

LEMMA Popped ==
  ASSUME LookupOK, stack # <<>>, NEW hp, Same(hp, Owns(Top))
  PROVE  /\ ShapeIn(Pop) /\ ApartIn(Pop) /\ UsedIn(Pop, hp)
         /\ Len(Pop) = Len(stack) - 1
         /\ Pop # <<>> => Pop[Len(Pop)].at = "call"
         /\ \A n \in Owns(Top) :
              /\ \A h \in Handle : handle[h] # n
              /\ \A k \in 1..Len(Pop) : n \notin Owns(Pop[k]) /\ n # Pop[k].root
<1> DEFINE n == Len(stack)
           m == Len(Pop)
<1>1. ShapeIn(stack) /\ ApartIn(stack) /\ UsedIn(stack, heap)
  BY DEF LookupOK, Shape
<1>2. n \in Nat \ {0} /\ n \in 1..n /\ Top = stack[n] /\ stack \in Seq(Frames)
  BY <1>1, TopIs DEF ShapeIn
<1>3. Pop \in Seq(Frames) /\ m = n - 1 /\ \A k \in 1..(n - 1) : Pop[k] = stack[k]
  BY <1>1, PopIs
<1> HIDE DEF n, m
<1>4. \A k \in 1..m : k \in 1..n /\ k # n /\ Pop[k] = stack[k]
  BY <1>2, <1>3
<1>5. ShapeIn(Pop)
  <2>1. \A k \in 1..m : FrameOK(Pop[k])
    BY <1>1, <1>4 DEF ShapeIn, n
  <2>2. ASSUME NEW k \in 1..(m - 1)
        PROVE  Pop[k].at = "call" /\ Pop[k + 1].root = Pop[k].old
    <3>1. k \in 1..m /\ k + 1 \in 1..m /\ k \in 1..(n - 1)
      BY <1>2, <1>3
    <3> QED BY <1>1, <1>4, <3>1 DEF ShapeIn, n
  <2>3. m <= MaxNest
    BY <1>1, <1>2, <1>3, MemoryAssumption DEF ShapeIn, n
  <2> QED BY <1>3, <2>1, <2>2, <2>3 DEF ShapeIn, m
<1>6. ApartIn(Pop)
  <2>1. /\ \A k \in 1..m : Frees(Pop[k])
        /\ \A k, j \in 1..m : k # j => Owns(Pop[k]) \cap Owns(Pop[j]) = {}
    BY <1>1, <1>4 DEF ApartIn, n
  <2>2. ASSUME NEW k \in 1..m, NEW j \in 1..k
        PROVE  Pop[j].root \notin Owns(Pop[k])
    <3>1. j \in 1..m
      BY <1>2, <1>3
    <3> QED BY <1>1, <1>4, <3>1 DEF ApartIn, n
  <2> QED BY <2>1, <2>2 DEF ApartIn, m
<1>7. UsedIn(Pop, hp)
  <2>1. ASSUME NEW k \in 1..m, NEW x \in Owns(Pop[k])
        PROVE  hp[x] # Free /\ \A h \in Handle : handle[h] # x
    <3>1. x \in Owns(stack[k]) /\ x \in Node /\ x \notin Owns(Top)
      BY <1>1, <1>2, <1>4, <2>1 DEF Owns, ApartIn, n
    <3> QED BY <1>1, <1>4, <3>1 DEF UsedIn, Same, n
  <2>2. ASSUME NEW k \in 1..m, Pop[k].root \in Node
        PROVE  hp[Pop[k].root] # Free
    <3>1. stack[k].root \in Node /\ stack[k].root \notin Owns(Top)
      <4>1. k \in 1..n
        BY <1>4
      <4> QED BY <1>1, <1>2, <1>4, <2>2, <4>1 DEF ApartIn, n
    <3> QED BY <1>1, <1>4, <3>1 DEF UsedIn, Same, n
  <2> QED BY <2>1, <2>2 DEF UsedIn, m
<1>8. Pop # <<>> => Pop[m].at = "call"
  <2>1. Pop # <<>> => m \in 1..(n - 1) /\ m \in 1..m
    <3>1. Pop # <<>> => m \in Nat \ {0}
      BY <1>3, EmptySeq DEF m
    <3> QED BY <1>2, <1>3, <3>1
  <2> QED BY <1>1, <1>4, <2>1 DEF ShapeIn, n
<1>9. ASSUME NEW x \in Owns(Top)
      PROVE  /\ \A h \in Handle : handle[h] # x
             /\ \A k \in 1..m : x \notin Owns(Pop[k]) /\ x # Pop[k].root
  <2>1. \A h \in Handle : handle[h] # x
    BY <1>1, <1>2, <1>9 DEF UsedIn, n
  <2>2. ASSUME NEW k \in 1..m PROVE x \notin Owns(Pop[k]) /\ x # Pop[k].root
    BY <1>1, <1>2, <1>4, <1>9 DEF ApartIn, n
  <2> QED BY <2>1, <2>2
<1> QED BY <1>3, <1>5, <1>6, <1>7, <1>8, <1>9 DEF n, m

LEMMA OpenedKept ==
  ASSUME LookupOK, stack # <<>>, NEW N \in SUBSET Node, \A n \in N : Loose(n),
         Same(heap', Owns(Top) \cup N), handle' = handle
  PROVE  Opened'
<1>1. ShapeIn(stack) /\ UsedIn(stack, heap) /\ Opened
  BY DEF LookupOK, Shape
<1>2. Len(stack) \in 1..Len(stack) /\ Top = stack[Len(stack)]
  BY <1>1, TopIs
<1>3. \A h \in Handle : handle[h] \notin Owns(Top) \cup N
  BY <1>1, <1>2 DEF UsedIn, Loose
<1> QED BY <1>1, <1>3 DEF Opened, Same

LEMMA FreedIs ==
  ASSUME heap \in [Node -> Obj \cup {Free}], NEW refs, NEW r
  PROVE  /\ Freed(refs, r) \in [Node -> Obj \cup {Free}]
         /\ \A n \in Node : n \notin refs \ {r} => Freed(refs, r)[n] = heap[n]
BY DEF Freed

(* What is no node.                                                        *)
LEMMA NoNodeIs ==
  /\ Root \notin Node /\ NoNode \notin Node /\ Root # NoNode /\ NoRet.node = NoNode
  /\ NoRet.status = -1 /\ NoRet.type = Unset
BY MemoryAssumption DEF Root, NoNode, NoRet

(***************************************************************************)
(* The ways a call goes on: it returns to the frame below, or its frame    *)
(* moves.                                                                  *)
(***************************************************************************)
LEMMA ReturnKeeps ==
  ASSUME LookupOK, stack # <<>>, op # NoOp,
         NEW status \in {0, 1}, NEW r \in Ref, NEW type \in FileType \cup {Unset},
         Return(status, r, type),
         heap' \in [Node -> Obj \cup {Free}], Same(heap', Owns(Top)),
         r \in Owns(Top) \cup {NoNode, Root}, r \in Node => heap'[r] # Free,
         status = 0 => r = NoNode, status = 1 => r # NoNode, type = "REG" => r \in Node,
         fault' \subseteq Fault, handle' = handle, op' = op,
         nest' \in nest..MaxNest, nest' = MaxNest => status = 0
  PROVE  LookupOK'
<1>1. /\ ShapeIn(stack) /\ Counted /\ Asked /\ Len(stack) \in Nat \ {0}
      /\ handle \in [Handle -> Node \cup {NoNode}]
  BY TopIs DEF LookupOK, Shape
<1>2. stack' = Pop /\ ret' = [status |-> status, node |-> r, type |-> type]
  BY DEF Return
<1>3. ret' # NoRet /\ ret'.status = status /\ ret'.node = r /\ ret'.type = type
  BY <1>2 DEF NoRet
<1>4. /\ ShapeIn(stack') /\ ApartIn(stack') /\ Len(stack') = Len(stack) - 1
      /\ stack' # <<>> => stack'[Len(stack')].at = "call"
      /\ \A n \in Owns(Top) :
           /\ \A h \in Handle : handle[h] # n
           /\ \A k \in 1..Len(stack') : n \notin Owns(stack'[k]) /\ n # stack'[k].root
  BY <1>2, Popped
<1>5. UsedIn(stack, heap)'
  <2>1. UsedIn(Pop, heap')
    BY Popped
  <2> QED BY <1>2, <2>1 DEF UsedIn
<1>6. Shape'
  BY <1>3, <1>4 DEF Shape, Top
<1>7. Counted'
  BY <1>1, <1>3, <1>4, MemoryAssumption DEF Counted
<1>8. Returning'
  BY <1>2, <1>3 DEF Returning
<1>9. Asked'
  BY <1>1, <1>3 DEF Asked
<1>10. RetApart'
  <2>1. r \in Node => r \in Owns(Top)
    BY NoNodeIs
  <2> QED BY <1>3, <1>4, <2>1 DEF RetApart
<1>11. Opened'
  <2>1. PICK N \in SUBSET Node : N = {}
    OBVIOUS
  <2>2. Same(heap', Owns(Top) \cup N) /\ \A n \in N : Loose(n)
    BY <2>1 DEF Same
  <2> QED BY <2>2, OpenedKept
<1>12. Linked'
  BY <1>4 DEF Linked, Top
<1> QED BY <1>12, <1>1, <1>4, <1>5, <1>6, <1>7, <1>8, <1>9, <1>10, <1>11 DEF LookupOK

LEMMA MoveKeeps ==
  ASSUME LookupOK, stack # <<>>, op # NoOp,
         NEW f \in Frames, stack' = SetTop(f), f.root = Top.root, FrameOK(f), Frees(f),
         f.at # "call", NEW N \in SUBSET Node, \A n \in N : Loose(n),
         Owns(f) \subseteq Owns(Top) \cup N,
         heap' \in [Node -> Obj \cup {Free}], Same(heap', Owns(Top) \cup N),
         \A n \in Owns(f) : heap'[n] # Free,
         f.at = "link" => Type[heap'[f.node]] = "SYMLINK",
         ret' = NoRet, fault' \subseteq Fault, handle' = handle, op' = op,
         nest' = nest, nest # MaxNest
  PROVE  LookupOK'
<1>1. /\ ShapeIn(stack) /\ Counted /\ Asked /\ Len(stack) \in Nat \ {0}
      /\ handle \in [Handle -> Node \cup {NoNode}]
  BY TopIs DEF LookupOK, Shape
<1>2. /\ ShapeIn(stack') /\ ApartIn(stack') /\ Len(stack') = Len(stack)
      /\ stack'[Len(stack')] = f /\ UsedIn(SetTop(f), heap')
  <2>1. PICK st, hp : st = SetTop(f) /\ hp = heap'
    OBVIOUS
  <2>2. Same(hp, Owns(Top) \cup N) /\ \A n \in Owns(f) : hp[n] # Free
    BY <2>1
  <2>3. /\ ShapeIn(SetTop(f)) /\ Len(SetTop(f)) = Len(stack) /\ SetTop(f)[Len(stack)] = f
        /\ ApartIn(SetTop(f)) /\ UsedIn(SetTop(f), hp)
    BY <2>2, Replaced
  <2> QED BY <2>1, <2>3
<1>3. UsedIn(stack, heap)'
  BY <1>2 DEF UsedIn
<1>4. Shape'
  BY <1>2 DEF Shape, Top
<1>5. stack' # <<>>
  BY <1>1, <1>2, EmptySeq
<1>6. Counted'
  BY <1>1, <1>2 DEF Counted
<1>7. Returning' /\ RetApart'
  BY NoNodeIs DEF Returning, RetApart, Unset
<1>8. Asked'
  BY <1>1, <1>5 DEF Asked
<1>9. Opened'
  BY OpenedKept
<1>10. Linked'
  BY <1>2 DEF Linked, Top
<1> QED BY <1>10, <1>1, <1>2, <1>3, <1>4, <1>6, <1>7, <1>8, <1>9 DEF LookupOK

-----------------------------------------------------------------------------
(* The innermost frame, when it runs and when it is resumed.               *)
LEMMA TopOf ==
  ASSUME LookupOK, stack # <<>>
  PROVE  /\ op # NoOp /\ Top \in Frames /\ FrameOK(Top) /\ Frees(Top)
         /\ heap \in [Node -> Obj \cup {Free}] /\ fault \subseteq Fault
         /\ nest \in 0..MaxNest /\ MaxNest \in Nat
         /\ \A n \in Owns(Top) : heap[n] # Free
         /\ Top.root \in Node => heap[Top.root] # Free
         /\ Top.at = "call" <=> ret # NoRet
         /\ ret = NoRet => nest + 1 <= MaxNest /\ nest # MaxNest
<1>1. ShapeIn(stack) /\ UsedIn(stack, heap) /\ ApartIn(stack) /\ Asked /\ Counted /\ Shape
  BY DEF LookupOK, Shape
<1>2. Len(stack) \in 1..Len(stack) /\ Top = stack[Len(stack)] /\ Top \in Frames /\ FrameOK(Top)
  BY <1>1, TopIs
<1>3. nest \in 0..MaxNest /\ MaxNest \in Nat /\ (ret = NoRet => nest # MaxNest)
  BY <1>1, MemoryAssumption DEF Counted
<1> QED BY <1>1, <1>2, <1>3 DEF LookupOK, Asked, ApartIn, UsedIn, Shape

(* A node of the innermost frame describes an object.                      *)
LEMMA TopObject ==
  ASSUME LookupOK, stack # <<>>, Top.node # NoNode
  PROVE  Object(Top.node) \in Obj /\ (Top.node \in Node => heap[Top.node] \in Obj)
<1>1. Top.node \in Node \cup {Root}
  BY TopOf DEF Frames, Ref
<1>2. Top.node \in Node => heap[Top.node] # Free
  BY TopOf DEF Owns
<1> QED BY <1>1, <1>2, TopOf, TreeAssumption, NoNodeIs DEF Object

LEMMA EmptyPathKeeps ==
  ASSUME LookupOK, EmptyPath
  PROVE  LookupOK'
<1>1. stack # <<>> /\ Top.at = "search" /\ Top.rest = <<>> /\ Return(1, Top.node, Unset)
  BY DEF EmptyPath, Running
<1>2. Top.node = Root
  BY <1>1, TopOf DEF FrameOK
<1>3. nest' \in nest..MaxNest /\ nest' # MaxNest
  BY <1>1, TopOf DEF EmptyPath, Running
<1>4. Same(heap', Owns(Top))
  BY DEF EmptyPath, Same
<1>5. Root \in Ref /\ Unset # "REG" /\ Root # NoNode /\ Root \notin Node
  BY NoNodeIs DEF Ref, Unset
<1>6. Return(1, Root, Unset)
  BY <1>1, <1>2
<1>7. heap' = heap /\ fault' = fault /\ handle' = handle /\ op' = op
  BY DEF EmptyPath
<1> QED BY ONLY <1>1, <1>3, <1>4, <1>5, <1>6, <1>7, TopOf, ReturnKeeps, LookupOK

(* A call that gives up, and frees no more than its frame owned.           *)
LEMMA GivesUp ==
  ASSUME LookupOK, stack # <<>>, Return(0, NoNode, Unset),
         heap' \in [Node -> Obj \cup {Free}], Same(heap', Owns(Top)),
         fault' \subseteq Fault, handle' = handle, op' = op,
         nest' \in nest..MaxNest
  PROVE  LookupOK'
<1>1. NoNode \in Ref /\ Unset # "REG" /\ NoNode \notin Node /\ Unset \in FileType \cup {Unset}
  BY NoNodeIs DEF Ref, Unset
<1>2. op # NoOp
  BY TopOf
<1> QED BY <1>1, <1>2, ReturnKeeps

LEMMA NotDirectoryKeeps ==
  ASSUME LookupOK, NotDirectory
  PROVE  LookupOK'
<1>1. stack # <<>> /\ Return(0, NoNode, Unset) /\ heap' = Freed({Top.node}, Top.root)
  BY DEF NotDirectory, Running
<1>2. nest' \in nest..MaxNest
  BY <1>1, TopOf DEF NotDirectory, Running
<1>3. Same(heap', Owns(Top)) /\ heap' \in [Node -> Obj \cup {Free}]
  BY <1>1, TopOf, FreedIs DEF Same, Owns
<1>4. fault' \subseteq Fault /\ handle' = handle /\ op' = op
  BY <1>1, TopOf DEF NotDirectory
<1> QED BY <1>1, <1>2, <1>3, <1>4, GivesUp

LEMMA SearchFailsKeeps ==
  ASSUME LookupOK, SearchFails
  PROVE  LookupOK'
<1>1. stack # <<>> /\ Return(0, NoNode, Unset) /\ heap' = heap
  BY DEF SearchFails, Searching, Running
<1>2. nest' \in nest..MaxNest
  BY <1>1, TopOf DEF SearchFails
<1>3. Same(heap', Owns(Top)) /\ heap' \in [Node -> Obj \cup {Free}]
  BY <1>1, TopOf DEF Same
<1>4. fault' \subseteq Fault /\ handle' = handle /\ op' = op
  BY <1>1, TopOf DEF SearchFails, Failing, Misled, Fault
<1> QED BY <1>1, <1>2, <1>3, <1>4, GivesUp

LEMMA LinkFailsKeeps ==
  ASSUME LookupOK, NestExceeded \/ LinkUnreadable
  PROVE  LookupOK'
<1>1. /\ stack # <<>> /\ Return(0, NoNode, Unset) /\ Top.at = "link" /\ ret = NoRet
      /\ heap' = Freed({Top.node, Top.old}, Top.root) /\ nest' = nest + 1
  BY DEF NestExceeded, LinkUnreadable, Running
<1>2. nest' \in nest..MaxNest
  BY <1>1, TopOf
<1>3. Same(heap', Owns(Top)) /\ heap' \in [Node -> Obj \cup {Free}]
  BY <1>1, TopOf, FreedIs DEF Same, Owns
<1>4. fault' \subseteq Fault /\ handle' = handle /\ op' = op
  BY <1>1, TopOf DEF NestExceeded, LinkUnreadable, Failing, Fault
<1> QED BY <1>1, <1>2, <1>3, <1>4, GivesUp

LEMMA SearchFindsKeeps ==
  ASSUME LookupOK, SearchFinds
  PROVE  LookupOK'
<1>1. /\ stack # <<>> /\ Top.at = "search" /\ ret = NoRet /\ Top.rest # <<>>
      /\ Head(Top.rest) \in Names(Top.node) /\ \E m \in Node : heap[m] = Free
  BY DEF SearchFinds, Searching, Running
<1>2. PICK n \in Node : n = (CHOOSE m \in Node : heap[m] = Free) /\ heap[n] = Free
  BY <1>1
<1>3. /\ Top \in Frames /\ FrameOK(Top) /\ op # NoOp /\ nest # MaxNest
      /\ heap \in [Node -> Obj \cup {Free}]
  BY <1>1, TopOf
<1>4. Top.node # NoNode
  BY <1>1, <1>3 DEF FrameOK
<1>5. PICK found \in Obj : found = FirstEntry(Top.node, Head(Top.rest))
  <2>1. Object(Top.node) \in Obj
    BY <1>1, <1>4, TopObject
  <2> QED BY <1>1, <2>1, TreeAssumption DEF Names, StaleNames, FirstEntry
<1>6. /\ heap' = [heap EXCEPT ![n] = found]
      /\ stack' = SetTop([Top EXCEPT
           !.old = Top.node, !.node = n, !.type = Type[found],
           !.at = IF Type[found] = "SYMLINK" THEN "link" ELSE "found"])
      /\ nest' = nest /\ ret' = ret /\ op' = op /\ handle' = handle
      /\ fault' = fault \/ fault' = fault \cup {"deleted"}
  BY <1>2, <1>5 DEF SearchFinds, Misled
<1>7. PICK t \in FileType, a \in {"link", "found"} :
        t = Type[found] /\ a = IF Type[found] = "SYMLINK" THEN "link" ELSE "found"
  BY TreeAssumption
<1>8. PICK f \in Frames :
        /\ stack' = SetTop(f) /\ f.rest = Top.rest /\ f.root = Top.root /\ f.node = n
        /\ f.old = Top.node /\ f.type = t /\ f.at = a
  <2>1. stack' = SetTop([Top EXCEPT !.old = Top.node, !.node = n, !.type = t, !.at = a])
    BY <1>6, <1>7
  <2>2. n \in Ref /\ Top.node \in Ref
    BY <1>3 DEF Frames, Ref
  <2>3. PICK f \in Frames :
          f = [Top EXCEPT !.old = Top.node, !.node = n, !.type = t, !.at = a]
    BY <1>3, <2>2 DEF Frames
  <2>4. /\ f.rest = Top.rest /\ f.root = Top.root /\ f.node = n
        /\ f.old = Top.node /\ f.type = t /\ f.at = a
    BY <1>3, <2>3 DEF Frames
  <2> QED BY <2>1, <2>3, <2>4
<1>9. Top.root # n /\ Top.node # n
  <2>1. Top.root # n
    BY <1>1, <1>2, TopOf
  <2>2. Top.node \in Node => heap[Top.node] # Free
    BY <1>1, TopOf DEF Owns
  <2> QED BY <1>2, <2>1, <2>2
<1>10. FrameOK(f) /\ Frees(f)
  <2>1. a = "link" => t = "SYMLINK"
    BY <1>7
  <2>2. f.at = "link" \/ f.at = "found"
    BY <1>8
  <2>3. f.at = "link" => f.type = "SYMLINK"
    BY <1>8, <2>1
  <2>4. f.node \in Node /\ f.node # f.root /\ f.node # f.old /\ f.old # NoNode /\ f.rest # <<>>
    BY <1>1, <1>4, <1>8, <1>9
  <2>5. FrameOK(f)
    BY <2>2, <2>3, <2>4, MemoryAssumption DEF FrameOK
  <2> QED BY <2>4, <2>5 DEF Frees
<1>11. Loose(n)
  BY <1>2, FreshIsLoose
<1>12. PICK N \in SUBSET Node : N = {n}
  OBVIOUS
<1>13. \A x \in N : Loose(x)
  BY <1>11, <1>12
<1>14. Owns(f) \subseteq Owns(Top) \cup N
  BY <1>8, <1>12 DEF Owns
<1>15. /\ heap' \in [Node -> Obj \cup {Free}] /\ Same(heap', Owns(Top) \cup N)
       /\ heap'[n] = found
  BY <1>3, <1>6, <1>12 DEF Same
<1>16. \A x \in Owns(f) : heap'[x] # Free
  <2>1. \A x \in Owns(Top) : heap[x] # Free
    BY <1>1, TopOf
  <2> QED BY <1>3, <1>6, <1>12, <1>14, <1>15, <2>1, MemoryAssumption DEF Owns
<1>17. /\ f.at # "call" /\ (f.at = "link" => Type[heap'[f.node]] = "SYMLINK")
       /\ fault' \subseteq Fault
  BY <1>1, <1>6, <1>7, <1>15, <1>8, TopOf DEF Fault
<1> QED BY <1>1, <1>3, <1>6, <1>8, <1>10, <1>13, <1>14, <1>15, <1>16, <1>17, MoveKeeps

(* What a link is followed to is a path, from the root or from here.       *)
LEMMA LinkIs ==
  ASSUME LookupOK, stack # <<>>, Top.at = "link",
         NEW link \in {Target[Object(Top.node)]} \cup Torn[Object(Top.node)]
  PROVE  link.abs \in BOOLEAN /\ link.path \in Seq(Name)
<1>1. Top.node \in Node /\ Top.node # NoNode /\ Top.node # Root
  BY TopOf, MemoryAssumption DEF FrameOK
<1>2. PICK o \in Obj : o = Object(Top.node) /\ Type[o] = "SYMLINK"
  <2>1. Object(Top.node) = heap[Top.node] /\ Object(Top.node) \in Obj
    BY <1>1, TopObject DEF Object
  <2> QED BY <2>1 DEF LookupOK, Linked
<1>3. link = Target[o] \/ link \in Torn[o]
  BY <1>2
<1> QED BY <1>2, <1>3, TreeAssumption

LEMMA FollowKeeps ==
  ASSUME LookupOK, Follow, Intact'
  PROVE  LookupOK'
<1>1. stack # <<>> /\ Top.at = "link" /\ ret = NoRet
  BY DEF Follow, Running
<1>2. PICK link \in {Target[Object(Top.node)]} \cup Torn[Object(Top.node)],
           old \in {Root, Top.old} :
        /\ old = IF link.abs THEN Root ELSE Top.old
        /\ heap' = Freed({Top.node} \cup IF link.abs THEN {Top.old} ELSE {}, Top.root)
        /\ stack' = Append(SetTop([Top EXCEPT !.node = NoNode, !.old = old, !.at = "call"]),
                           Frame(link.path, old))
        /\ fault' = fault \cup LinkFault(link, Target[Object(Top.node)], old)
  BY DEF Follow
<1>3. /\ nest' = nest + 1 /\ nest + 1 # MaxNest /\ ret' = ret /\ op' = op /\ handle' = handle
  BY DEF Follow
<1>4. /\ Top \in Frames /\ FrameOK(Top) /\ Frees(Top) /\ op # NoOp
      /\ heap \in [Node -> Obj \cup {Free}] /\ nest \in 0..MaxNest /\ MaxNest \in Nat
      /\ nest + 1 <= MaxNest
  BY <1>1, TopOf
<1>5. /\ Top.old # NoNode /\ Top.rest # <<>> /\ Top.type = "SYMLINK" /\ Top.node \in Node
      /\ Top.node # Top.root
  BY <1>1, <1>4 DEF FrameOK
<1>6. link.abs \in BOOLEAN /\ link.path \in Seq(Name) /\ (link.path = <<>> => old = Root)
  <2>1. link.path = <<>> /\ old # Root => "empty" \in fault'
    BY <1>2 DEF LinkFault
  <2> QED BY <1>1, <2>1, LinkIs DEF Intact
<1>7. old \in Node \cup {Root} /\ old \in Ref /\ old # NoNode
  BY <1>2, <1>4, <1>5, NoNodeIs DEF Frames, Ref
<1>8. PICK f \in Frames :
        /\ f = [Top EXCEPT !.node = NoNode, !.old = old, !.at = "call"]
        /\ f.rest = Top.rest /\ f.root = Top.root /\ f.node = NoNode
        /\ f.old = old /\ f.type = Top.type /\ f.at = "call"
  <2>1. PICK f \in Frames : f = [Top EXCEPT !.node = NoNode, !.old = old, !.at = "call"]
    BY <1>4, <1>7 DEF Frames, Ref
  <2>2. /\ f.rest = Top.rest /\ f.root = Top.root /\ f.node = NoNode
        /\ f.old = old /\ f.type = Top.type /\ f.at = "call"
    BY <1>4, <2>1 DEF Frames
  <2> QED BY <2>1, <2>2
<1>9. PICK g \in Frames :
        /\ g = Frame(link.path, old) /\ g.rest = link.path /\ g.root = old /\ g.node = old
        /\ g.old = NoNode /\ g.at = "search"
  <2>1. "DIRECTORY" \in FileType
    BY DEF FileType
  <2>2. PICK g \in Frames :
          g = [rest |-> link.path, root |-> old, node |-> old, old |-> NoNode,
               type |-> "DIRECTORY", at |-> "search"]
    BY <1>6, <1>7, <2>1 DEF Frames, Ref
  <2> QED BY <2>2 DEF Frame
<1>10. FrameOK(f) /\ Frees(f) /\ FrameOK(g) /\ Owns(g) = {}
  <2>1. FrameOK(f)
    BY <1>5, <1>7, <1>8 DEF FrameOK
  <2>2. FrameOK(g)
    BY <1>6, <1>7, <1>9 DEF FrameOK
  <2> QED BY <1>7, <1>8, <1>9, <2>1, <2>2, NoNodeIs DEF Frees, Owns
<1>11. Owns(f) \subseteq Owns(Top)
  BY <1>2, <1>8, NoNodeIs DEF Owns
<1>12. Same(heap', Owns(Top)) /\ heap' \in [Node -> Obj \cup {Free}]
  BY <1>2, <1>4, FreedIs DEF Same, Owns
<1>13. \A n \in Owns(f) : heap'[n] # Free
  <2>1. SUFFICES ASSUME NEW n \in Owns(f) PROVE heap'[n] # Free
    OBVIOUS
  <2>2. n \in Node /\ n = old /\ n # Root /\ n \in Owns(Top)
    BY <1>8, <1>11, NoNodeIs DEF Owns
  <2>3. ~link.abs /\ n = Top.old
    BY <1>2, <1>6, <2>2
  <2>4. n # Top.node
    BY <1>4, <2>2, <2>3 DEF Frees
  <2>5. heap'[n] = heap[n]
    BY <1>2, <1>4, <2>2, <2>3, <2>4, FreedIs
  <2> QED BY <1>1, <2>2, <2>5, TopOf
<1>14. /\ ShapeIn(SetTop(f)) /\ Len(SetTop(f)) = Len(stack) /\ SetTop(f)[Len(stack)] = f
       /\ ApartIn(SetTop(f)) /\ UsedIn(SetTop(f), heap')
  <2>1. PICK N \in SUBSET Node : N = {}
    OBVIOUS
  <2>2. /\ \A n \in N : Loose(n)
        /\ Owns(f) \subseteq Owns(Top) \cup N /\ Same(heap', Owns(Top) \cup N)
    BY <1>11, <1>12, <2>1 DEF Same
  <2> QED BY <1>1, <1>8, <1>10, <1>13, <2>2, Replaced
<1>15. Len(stack) \in Nat \ {0} /\ Len(stack) <= nest + 1
  BY <1>1, TopIs DEF LookupOK, Shape, Counted
<1>16. SetTop(f) # <<>> /\ Len(SetTop(f)) < MaxNest
  BY <1>3, <1>4, <1>14, <1>15, EmptySeq
<1>17. stack' = Append(SetTop(f), g)
  BY <1>2, <1>8, <1>9
<1>18. /\ ShapeIn(stack') /\ ApartIn(stack') /\ UsedIn(Append(SetTop(f), g), heap')
       /\ stack' # <<>> /\ Len(stack') = Len(stack) + 1 /\ stack'[Len(stack')] = g
  <2>1. PICK st, hp : st = SetTop(f) /\ hp = heap'
    OBVIOUS
  <2>2. /\ ShapeIn(st) /\ ApartIn(st) /\ UsedIn(st, hp) /\ st # <<>> /\ Len(st) < MaxNest
        /\ Len(st) = Len(stack) /\ st[Len(st)] = f
    BY <1>14, <1>16, <2>1
  <2>3. st[Len(st)].at = "call" /\ g.root = st[Len(st)].old
    BY <1>8, <1>9, <2>2
  <2>4. /\ ShapeIn(Append(st, g)) /\ ApartIn(Append(st, g)) /\ UsedIn(Append(st, g), hp)
        /\ Append(st, g) # <<>> /\ Len(Append(st, g)) = Len(st) + 1
        /\ Append(st, g)[Len(st) + 1] = g
    BY <1>10, <2>2, <2>3, Pushed
  <2> QED BY <1>17, <2>1, <2>2, <2>4
<1>19. UsedIn(stack, heap)'
  BY <1>3, <1>17, <1>18 DEF UsedIn
<1>20. Shape' /\ Linked'
  BY <1>1, <1>3, <1>9, <1>18 DEF Shape, Linked, Top
<1>21. Counted'
  BY <1>3, <1>4, <1>15, <1>18 DEF Counted
<1>22. Returning' /\ RetApart'
  BY <1>1, <1>3, NoNodeIs DEF Returning, RetApart, Unset
<1>23. Asked'
  BY <1>3, <1>4, <1>18 DEF LookupOK, Asked
<1>24. Opened'
  <2>1. PICK N \in SUBSET Node : N = {}
    OBVIOUS
  <2>2. Same(heap', Owns(Top) \cup N) /\ \A n \in N : Loose(n)
    BY <1>12, <2>1 DEF Same
  <2> QED BY <1>1, <1>3, <2>2, OpenedKept
<1>25. fault' \subseteq Fault /\ handle' \in [Handle -> Node \cup {NoNode}]
  BY <1>1, <1>2, <1>3, TopOf DEF LookupOK, LinkFault, Fault
<1> QED BY <1>12, <1>18, <1>19, <1>20, <1>21, <1>22, <1>23, <1>24, <1>25 DEF LookupOK

LEMMA ResumeKeeps ==
  ASSUME LookupOK, Resume
  PROVE  LookupOK'
<1>1. stack # <<>> /\ ret # NoRet /\ Top.at = "call"
  BY TopOf DEF Resume
<1>2. /\ Top \in Frames /\ FrameOK(Top) /\ Frees(Top) /\ op # NoOp
      /\ heap \in [Node -> Obj \cup {Free}] /\ nest \in 0..MaxNest /\ MaxNest \in Nat
      /\ fault \subseteq Fault
  BY <1>1, TopOf
<1>3. nest' = nest /\ op' = op /\ fault' = fault /\ handle' = handle
  BY DEF Resume
<1>4. Top.old # NoNode /\ Top.rest # <<>> /\ Top.type = "SYMLINK" /\ Top.node = NoNode
  BY <1>1, <1>2 DEF FrameOK
<1>5. ret \in [status : {0, 1}, node : Ref, type : FileType \cup {Unset}] /\ Returning /\ Counted
  BY <1>1 DEF LookupOK, Returning
<1>6. CASE ret.status = 0
  <2>1. heap' = Freed({Top.old}, Top.root) /\ Return(0, NoNode, Unset)
    BY <1>6 DEF Resume
  <2>2. Same(heap', Owns(Top)) /\ heap' \in [Node -> Obj \cup {Free}]
    BY <1>2, <2>1, FreedIs DEF Same, Owns
  <2>3. nest' \in nest..MaxNest /\ fault' \subseteq Fault
    BY <1>2, <1>3
  <2> QED BY <1>1, <1>3, <2>1, <2>2, <2>3, GivesUp
<1>7. CASE ret.status = 1
  <2>1. /\ heap' = heap /\ ret' = NoRet
        /\ stack' = SetTop([Top EXCEPT !.node = ret.node, !.at = "found",
                                       !.type = IF ret.type = Unset THEN @ ELSE ret.type])
    BY <1>7 DEF Resume
  <2>2. PICK n \in Ref, t \in FileType :
          /\ n = ret.node /\ t = IF ret.type = Unset THEN Top.type ELSE ret.type
    BY <1>2, <1>5 DEF Frames
  <2>3. n # NoNode /\ n \in Node \cup {Root} /\ (t = "REG" => n \in Node) /\ nest # MaxNest
    BY <1>1, <1>4, <1>5, <1>7, <2>2 DEF Returning, Counted, Ref
  <2>4. PICK f \in Frames :
          /\ f = [Top EXCEPT !.node = n, !.at = "found", !.type = t]
          /\ f.rest = Top.rest /\ f.root = Top.root /\ f.node = n
          /\ f.old = Top.old /\ f.type = t /\ f.at = "found"
    <3>1. PICK f \in Frames : f = [Top EXCEPT !.node = n, !.at = "found", !.type = t]
      BY <1>2, <2>2 DEF Frames
    <3>2. /\ f.rest = Top.rest /\ f.root = Top.root /\ f.node = n
          /\ f.old = Top.old /\ f.type = t /\ f.at = "found"
      BY <1>2, <3>1 DEF Frames
    <3> QED BY <3>1, <3>2
  <2>5. stack' = SetTop(f)
    BY <1>2, <2>1, <2>2, <2>4
  <2>6. n \in Node => Loose(n)
    BY <2>2, RetIsLoose
  <2>7. n \in Node => n \notin Owns(Top) /\ n # Top.root
    <3>1. Len(stack) \in 1..Len(stack) /\ Top = stack[Len(stack)]
      BY <1>1, TopIs DEF LookupOK, Shape
    <3> QED BY <2>6, <3>1 DEF Loose
  <2>8. FrameOK(f) /\ Frees(f)
    <3>1. FrameOK(f)
      BY <1>4, <2>3, <2>4, <2>7 DEF FrameOK
    <3> QED BY <2>3, <2>4, <2>7, <3>1, NoNodeIs DEF Frees, Owns
  <2>9. PICK N \in SUBSET Node : N = {n} \cap Node
    OBVIOUS
  <2>10. /\ \A x \in N : Loose(x)
         /\ Owns(f) \subseteq Owns(Top) \cup N /\ Same(heap', Owns(Top) \cup N)
    <3>1. \A x \in N : Loose(x)
      BY <2>6, <2>9
    <3> QED BY <2>1, <2>4, <2>9, <3>1 DEF Owns, Same
  <2>11. \A x \in Owns(f) : heap'[x] # Free
    <3>1. n \in Node => heap[n] # Free
      BY <2>2 DEF LookupOK, RetApart
    <3>2. \A x \in Owns(Top) : heap[x] # Free
      BY <1>1, TopOf
    <3> QED BY <2>1, <2>9, <2>10, <3>1, <3>2
  <2>12. f.at # "call" /\ f.at # "link" /\ fault' \subseteq Fault
         /\ heap' \in [Node -> Obj \cup {Free}]
    BY <1>2, <1>3, <2>1, <2>4
  <2> QED BY <1>1, <1>2, <1>3, <2>1, <2>3, <2>4, <2>5, <2>8, <2>10, <2>11, <2>12, MoveKeeps
<1> QED BY <1>5, <1>6, <1>7

LEMMA FoundKeeps ==
  ASSUME LookupOK, Found
  PROVE  LookupOK'
<1>1. /\ stack # <<>> /\ ret = NoRet /\ Top.at = "found"
      /\ heap' = Freed({Top.old}, Top.root)
  BY DEF Found, Running
<1>2. /\ Top \in Frames /\ FrameOK(Top) /\ Frees(Top) /\ op # NoOp
      /\ heap \in [Node -> Obj \cup {Free}] /\ nest \in 0..MaxNest /\ MaxNest \in Nat
      /\ nest # MaxNest /\ fault \subseteq Fault
  BY <1>1, TopOf
<1>3. nest' = nest /\ op' = op /\ fault' = fault /\ handle' = handle
  BY DEF Found
<1>4. /\ Top.rest # <<>> /\ Top.node # NoNode /\ Top.node \in Node \cup {Root}
      /\ (Top.node \in Node => Top.node \in Owns(Top) /\ Top.node # Top.old)
      /\ (Top.type = "REG" => Top.node \in Node)
  BY <1>1, <1>2, NoNodeIs DEF FrameOK, Frees, Frames, Ref, Owns
<1>5. Same(heap', Owns(Top)) /\ heap' \in [Node -> Obj \cup {Free}]
  BY <1>1, <1>2, FreedIs DEF Same, Owns
<1>6. Top.node \in Node => heap'[Top.node] # Free
  <2>1. Top.node \in Node => heap'[Top.node] = heap[Top.node]
    BY <1>1, <1>2, <1>4, FreedIs
  <2> QED BY <1>1, <1>4, <2>1, TopOf
<1>7. CASE Len(Top.rest) = 1
  <2>1. Return(1, Top.node, Top.type)
    BY <1>7 DEF Found
  <2>2. PICK n \in Ref, t \in FileType \cup {Unset} : n = Top.node /\ t = Top.type
    BY <1>2 DEF Frames
  <2>3. PICK s \in {0, 1} : s = 1
    OBVIOUS
  <2>4. /\ Return(s, n, t) /\ n \in Owns(Top) \cup {NoNode, Root}
        /\ (n \in Node => heap'[n] # Free) /\ n # NoNode /\ (t = "REG" => n \in Node)
    BY <1>4, <1>6, <2>1, <2>2, <2>3
  <2>5. nest' \in nest..MaxNest /\ fault' \subseteq Fault
    BY <1>2, <1>3
  <2>6. (s = 0 => n = NoNode) /\ (s = 1 => n # NoNode) /\ (nest' = MaxNest => s = 0)
    BY <1>2, <1>3, <2>3, <2>4
  <2> QED BY <1>1, <1>2, <1>3, <1>5, <2>4, <2>5, <2>6, ReturnKeeps
<1>8. CASE Len(Top.rest) # 1
  <2>1. /\ stack' = SetTop([Top EXCEPT !.rest = Tail(Top.rest), !.old = NoNode,
                                       !.at = "search"])
        /\ ret' = NoRet
    BY <1>1, <1>2, <1>8 DEF Found, Frames
  <2>2. PICK r \in Seq(Name) : r = Tail(Top.rest) /\ r # <<>>
    <3>1. Top.rest \in Seq(Name)
      BY <1>2 DEF Frames
    <3>2. Len(Top.rest) \in Nat \ {0}
      BY <1>4, <3>1, EmptySeq
    <3>3. Tail(Top.rest) \in Seq(Name) /\ Len(Tail(Top.rest)) = Len(Top.rest) - 1
      BY <1>4, <3>1, HeadTailProperties
    <3>4. Len(Tail(Top.rest)) # 0
      BY <1>8, <3>2, <3>3
    <3> QED BY <3>3, <3>4, EmptySeq
  <2>3. PICK f \in Frames :
          /\ f = [Top EXCEPT !.rest = r, !.old = NoNode, !.at = "search"]
          /\ f.rest = r /\ f.root = Top.root /\ f.node = Top.node
          /\ f.old = NoNode /\ f.type = Top.type /\ f.at = "search"
    <3>1. PICK f \in Frames : f = [Top EXCEPT !.rest = r, !.old = NoNode, !.at = "search"]
      BY <1>2, <2>2 DEF Frames, Ref
    <3>2. /\ f.rest = r /\ f.root = Top.root /\ f.node = Top.node
          /\ f.old = NoNode /\ f.type = Top.type /\ f.at = "search"
      BY <1>2, <3>1 DEF Frames
    <3> QED BY <3>1, <3>2
  <2>4. stack' = SetTop(f)
    BY <2>1, <2>2, <2>3
  <2>5. FrameOK(f) /\ Frees(f)
    BY <1>4, <2>2, <2>3 DEF FrameOK, Frees
  <2>6. PICK N \in SUBSET Node : N = {}
    OBVIOUS
  <2>7. /\ \A x \in N : Loose(x)
        /\ Owns(f) \subseteq Owns(Top) \cup N /\ Same(heap', Owns(Top) \cup N)
    BY <1>5, <2>3, <2>6, NoNodeIs DEF Owns, Same
  <2>8. \A x \in Owns(f) : heap'[x] # Free
    BY <1>6, <2>3, NoNodeIs DEF Owns
  <2>9. f.at # "call" /\ f.at # "link" /\ fault' \subseteq Fault
    BY <1>2, <1>3, <2>3
  <2> QED BY <1>1, <1>2, <1>3, <1>5, <2>1, <2>3, <2>4, <2>5, <2>7, <2>8, <2>9, MoveKeeps
<1> QED BY <1>7, <1>8

LEMMA LookupStepKeeps ==
  ASSUME LookupOK, LookupStep, Intact'
  PROVE  LookupOK'
<1>1. CASE EmptyPath \/ NotDirectory \/ SearchFails \/ SearchFinds
  BY <1>1, EmptyPathKeeps, NotDirectoryKeeps, SearchFailsKeeps, SearchFindsKeeps
<1>2. CASE NestExceeded \/ LinkUnreadable \/ Follow \/ Resume \/ Found
  BY <1>2, LinkFailsKeeps, FollowKeeps, ResumeKeeps, FoundKeeps
<1> QED BY <1>1, <1>2 DEF LookupStep

-----------------------------------------------------------------------------
(* The callers of find_file, which run when no frame does.                 *)
LEMMA Unchanged ==
  ASSUME LookupOK, UNCHANGED <<heap, stack, nest, ret, op, handle>>,
         fault' \subseteq Fault
  PROVE  LookupOK'
<1>1. UsedIn(stack, heap)' <=> UsedIn(stack, heap)
  BY DEF UsedIn
<1> QED BY <1>1
  DEF LookupOK, Shape, Linked, Counted, Returning, Asked, Opened, RetApart, Top

LEMMA EmptyStack ==
  /\ <<>> \in Seq(Frames) /\ Len(<<>>) = 0
  /\ 1..Len(<<>>) = {} /\ 1..(Len(<<>>) - 1) = {}
BY EmptySeq

LEMMA Ended ==
  ASSUME stack' = <<>>, ret' = NoRet, op' = NoOp, nest' \in 0..(MaxNest - 1),
         fault' \subseteq Fault, heap' \in [Node -> Obj \cup {Free}],
         handle' \in [Handle -> Node \cup {NoNode}], Opened'
  PROVE  LookupOK'
<1>1. MaxNest \in Nat \ {0}
  BY MemoryAssumption
<1>2. Shape' /\ Linked' /\ ApartIn(stack)' /\ UsedIn(stack, heap)'
  BY <1>1, EmptyStack DEF Shape, ShapeIn, Linked, ApartIn, UsedIn
<1>3. Counted'
  <2>1. Len(stack') = 0
    BY EmptyStack
  <2>2. PICK x \in 0..(MaxNest - 1) : x = nest'
    OBVIOUS
  <2>3. x \in 0..MaxNest /\ x # MaxNest /\ 0 <= x + 1
    BY ONLY <1>1, x \in 0..(MaxNest - 1)
  <2> QED BY <2>1, <2>2, <2>3 DEF Counted
<1>4. Returning' /\ RetApart' /\ Asked'
  BY NoNodeIs DEF Returning, RetApart, Asked, Unset
<1> QED BY <1>2, <1>3, <1>4 DEF LookupOK

LEMMA AskKeeps ==
  ASSUME LookupOK, NEW kind \in {"open", "list"}, NEW path \in Paths, Ask(kind, path)
  PROVE  LookupOK' /\ op' # NoOp /\ op'.kind = kind
<1>1. /\ op = NoOp /\ op' = [kind |-> kind, path |-> path] /\ stack' = <<Frame(path, Root)>>
      /\ nest' = 0 /\ fault' \subseteq fault /\ heap' = heap /\ ret' = ret /\ handle' = handle
  BY DEF Ask
<1>2. stack = <<>> /\ ret = NoRet /\ Opened
  BY <1>1 DEF LookupOK, Asked
<1>3. PICK f \in Frames :
        /\ f = Frame(path, Root) /\ f.rest = path /\ f.root = Root /\ f.node = Root
        /\ f.old = NoNode /\ f.at = "search"
  <2>1. "DIRECTORY" \in FileType /\ path \in Seq(Name)
    BY TreeAssumption DEF FileType
  <2>2. PICK f \in Frames :
          f = [rest |-> path, root |-> Root, node |-> Root, old |-> NoNode,
               type |-> "DIRECTORY", at |-> "search"]
    BY <2>1 DEF Frames, Ref
  <2> QED BY <2>2 DEF Frame
<1>4. FrameOK(f) /\ Frees(f) /\ Owns(f) = {}
  BY <1>3, NoNodeIs DEF FrameOK, Frees, Owns
<1>5. /\ stack' \in Seq(Frames) /\ Len(stack') = 1 /\ stack'[1] = f /\ stack' # <<>>
      /\ 1..Len(stack') = {1}
  <2>1. stack' = <<f>>
    BY <1>1, <1>3
  <2> QED BY <2>1
<1>6. Shape' /\ Linked'
  <2>1. MaxNest \in Nat \ {0}
    BY MemoryAssumption
  <2>2. 1..(Len(stack') - 1) = {} /\ Len(stack') <= MaxNest
    BY <1>5, <2>1
  <2> QED BY <1>1, <1>2, <1>3, <1>4, <1>5, <2>2 DEF Shape, ShapeIn, Linked, Top
<1>7. ApartIn(stack)' /\ UsedIn(stack, heap)'
  <2>1. \A j \in 1..1 : j = 1
    OBVIOUS
  <2> QED BY <1>3, <1>4, <1>5, <2>1, NoNodeIs DEF ApartIn, UsedIn
<1>8. Counted'
  BY <1>1, <1>5, MemoryAssumption DEF Counted
<1>9. Returning' /\ RetApart' /\ Asked' /\ op' # NoOp /\ op'.kind = kind
  BY <1>1, <1>2, <1>5, NoNodeIs DEF Returning, RetApart, Asked, Unset, NoOp
<1>10. Opened' /\ fault' \subseteq Fault
  BY <1>1, <1>2 DEF Opened, LookupOK
<1> QED BY <1>1, <1>6, <1>7, <1>8, <1>9, <1>10 DEF LookupOK

(* What the caller of a lookup that is over may rely on.                   *)
LEMMA ResultIs ==
  ASSUME LookupOK, NEW kind, Returned(kind)
  PROVE  /\ stack = <<>> /\ ret # NoRet /\ op # NoOp /\ op.kind = kind
         /\ heap \in [Node -> Obj \cup {Free}]
         /\ handle \in [Handle -> Node \cup {NoNode}] /\ Opened
         /\ (FoundType = "REG" => ret.node \in Node)
         /\ (ret.status = 1 => ret.node \in Node \cup {Root} /\ Object(ret.node) \in Obj)
         /\ ret.status \in {0, 1}
         /\ (ret.node \in Node =>
               heap[ret.node] # Free /\ \A h \in Handle : handle[h] # ret.node)
<1>1. stack = <<>> /\ ret # NoRet /\ op.kind = kind /\ Returning /\ Asked /\ RetApart
  BY DEF Returned, LookupOK
<1>2. ret \in [status : {0, 1}, node : Ref, type : FileType \cup {Unset}]
  BY <1>1 DEF Returning
<1>3. FoundType = "REG" => ret.node \in Node
  BY <1>1 DEF FoundType, Returning
<1>4. ret.node \in Node =>
        heap[ret.node] # Free /\ \A h \in Handle : handle[h] # ret.node
  BY <1>1 DEF RetApart
<1>5. ret.status = 1 => ret.node \in Node \cup {Root}
  BY <1>1, <1>2 DEF Returning, Ref
<1>6. heap \in [Node -> Obj \cup {Free}] /\ handle \in [Handle -> Node \cup {NoNode}] /\ Opened
  BY DEF LookupOK
<1>7. ret.status = 1 => Object(ret.node) \in Obj
  BY <1>4, <1>5, <1>6, TreeAssumption, NoNodeIs DEF Object
<1> QED BY <1>1, <1>2, <1>3, <1>4, <1>5, <1>6, <1>7 DEF Asked

LEMMA OpDoneIs ==
  ASSUME OpDone, stack' = <<>>, heap' \in [Node -> Obj \cup {Free}],
         handle' \in [Handle -> Node \cup {NoNode}], Opened'
  PROVE  LookupOK'
<1>1. fault' \subseteq Fault
  BY DEF OpDone, Fault
<1> QED BY <1>1, Ended, MemoryAssumption DEF OpDone

LEMMA OpenEndsKeeps ==
  ASSUME LookupOK, OpenEnds
  PROVE  LookupOK'
<1>1. Returned("open") /\ OpDone /\ stack' = stack
  BY DEF OpenEnds
<1>2. /\ stack = <<>> /\ heap \in [Node -> Obj \cup {Free}]
      /\ handle \in [Handle -> Node \cup {NoNode}] /\ Opened
      /\ (FoundType = "REG" => ret.node \in Node)
      /\ (ret.node \in Node =>
            heap[ret.node] # Free /\ \A h \in Handle : handle[h] # ret.node)
  BY <1>1, ResultIs
<1>3. CASE /\ FoundType = "REG" /\ heap' = heap
           /\ \E h \in Handle : handle' = [handle EXCEPT ![h] = ret.node]
  <2>1. Opened' /\ handle' \in [Handle -> Node \cup {NoNode}]
    BY <1>2, <1>3 DEF Opened
  <2> QED BY <1>1, <1>2, <1>3, <2>1, OpDoneIs
<1>4. CASE heap' = Freed({ret.node}, Root) /\ handle' = handle
  <2>1. heap' \in [Node -> Obj \cup {Free}] /\ \A n \in Node : n # ret.node => heap'[n] = heap[n]
    BY <1>2, <1>4, FreedIs
  <2>2. Opened'
    BY <1>2, <1>4, <2>1 DEF Opened
  <2> QED BY <1>1, <1>2, <1>4, <2>1, <2>2, OpDoneIs
<1>5. CASE heap' = heap /\ handle' = handle
  <2>1. Opened'
    BY <1>2, <1>5 DEF Opened
  <2> QED BY <1>1, <1>2, <1>5, <2>1, OpDoneIs
<1> QED BY <1>3, <1>4, <1>5 DEF OpenEnds

LEMMA ListEndsKeeps ==
  ASSUME LookupOK, ListEnds
  PROVE  LookupOK'
<1>1. Returned("list") /\ OpDone /\ stack' = stack /\ handle' = handle
      /\ (heap' = Freed({ret.node}, Root) \/ heap' = heap)
  BY DEF ListEnds
<1>2. /\ stack = <<>> /\ heap \in [Node -> Obj \cup {Free}]
      /\ handle \in [Handle -> Node \cup {NoNode}] /\ Opened
      /\ (ret.node \in Node => \A h \in Handle : handle[h] # ret.node)
  BY <1>1, ResultIs
<1>3. heap' \in [Node -> Obj \cup {Free}] /\ \A n \in Node : n # ret.node => heap'[n] = heap[n]
  BY <1>1, <1>2, FreedIs
<1>4. Opened'
  BY <1>1, <1>2, <1>3 DEF Opened
<1> QED BY <1>1, <1>2, <1>3, <1>4, OpDoneIs

LEMMA CloseKeeps ==
  ASSUME LookupOK, NEW h \in Handle, Close(h)
  PROVE  LookupOK'
<1>1. /\ op = NoOp /\ heap' = Freed({handle[h]}, Root)
      /\ handle' = [handle EXCEPT ![h] = NoNode]
      /\ UNCHANGED <<stack, nest, ret, op, fault>>
  BY DEF Close
<1>2. /\ stack = <<>> /\ ret = NoRet /\ heap \in [Node -> Obj \cup {Free}] /\ Opened
      /\ handle \in [Handle -> Node \cup {NoNode}] /\ nest \in 0..MaxNest /\ nest # MaxNest
      /\ fault \subseteq Fault
  BY <1>1 DEF LookupOK, Asked, Counted
<1>3. /\ heap' \in [Node -> Obj \cup {Free}]
      /\ \A n \in Node : n # handle[h] => heap'[n] = heap[n]
  BY <1>1, <1>2, FreedIs
<1>4. Opened' /\ handle' \in [Handle -> Node \cup {NoNode}]
  BY <1>1, <1>2, <1>3, NoNodeIs DEF Opened
<1>5. nest' \in 0..(MaxNest - 1)
  BY <1>1, <1>2, MemoryAssumption
<1> QED BY <1>1, <1>2, <1>3, <1>4, <1>5, Ended

-----------------------------------------------------------------------------
(* The callbacks.                                                          *)
LEMMA HeldKept ==
  ASSUME Held, UNCHANGED <<handle, context, opened>>
  PROVE  Held'
BY DEF Held, Holders

LEMMA SuccessIs ==
  Success \in [ret : {-1, 0}, file : File \cup {NoContext}, from : Obj \cup {NoData, Minus1}]
BY DEF Success, Reply

LEMMA BeginsKeeps ==
  ASSUME IInv, NEW f \in File, NEW path \in Paths, CreateFile(f, path) \/ FindFiles(f, path)
  PROVE  IInv'
<1>1. /\ Ask("open", path) \/ Ask("list", path)
      /\ handle' = handle /\ context' = context /\ opened' = opened
  BY DEF CreateFile, FindFiles, Ask, kvars
<1>2. LookupOK' /\ op' # NoOp
  BY <1>1, AskKeeps DEF IInv
<1>3. Held'
  BY <1>1, HeldKept DEF IInv
<1>4. Calling'
  <2>1. CASE CreateFile(f, path)
    <3>1. /\ call' = [op |-> "CreateFile", file |-> f] /\ f \notin opened
          /\ op'.kind = "open"
      BY <2>1, AskKeeps DEF CreateFile, IInv
    <3> QED BY <1>1, <1>2, <3>1 DEF Calling, NoCall
  <2>2. CASE FindFiles(f, path)
    <3>1. call' = [op |-> "FindFiles", file |-> f] /\ op'.kind = "list"
      BY <2>2, AskKeeps DEF FindFiles, IInv
    <3> QED BY <1>1, <1>2, <3>1 DEF Calling, NoCall
  <2> QED BY <2>1, <2>2
<1>5. Kept'
  <2>1. /\ context \in [File -> Handle \cup {NoContext}] /\ opened \subseteq File
        /\ named \in [File -> Paths \cup {<<>>, Anything}]
        /\ slot \in Nat \ {0} /\ listed \in Seq(Name)
    BY DEF IInv, Kept
  <2>2. last' = Success /\ (named' = named \/ named' = [named EXCEPT ![f] = path])
    BY DEF CreateFile, FindFiles, kvars
  <2>3. named' \in [File -> Paths \cup {<<>>, Anything}]
    BY <2>1, <2>2
  <2>4. (slot' = slot /\ listed' = listed) \/ (slot' = 1 /\ listed' = <<>>)
    BY DEF CreateFile, FindFiles, lvars
  <2>5. <<>> \in Seq(Name) /\ 1 \in Nat \ {0}
    BY EmptySeq
  <2>6. slot' \in Nat \ {0} /\ listed' \in Seq(Name)
    BY <2>1, <2>4, <2>5
  <2> QED BY <1>1, <2>1, <2>2, <2>3, <2>6, SuccessIs DEF Kept
<1> QED BY <1>2, <1>3, <1>4, <1>5 DEF IInv

LEMMA FileCreatedKeeps ==
  ASSUME IInv, FileCreated
  PROVE  IInv'
<1>1. call.op = "CreateFile" /\ OpenEnds /\ call' = NoCall
  BY DEF FileCreated
<1>2. PICK f \in File : f = call.file /\ f \notin opened /\ f \notin Holders
  BY <1>1 DEF IInv, Calling, Held, NoCall
<1>3. LookupOK' /\ op' = NoOp
  BY <1>1, OpenEndsKeeps DEF IInv, OpenEnds, OpDone
<1>4. /\ handle \in [Handle -> Node \cup {NoNode}]
      /\ \/ handle' = handle
         \/ \E h \in Handle : /\ handle[h] = NoNode /\ ret.node \in Node
                             /\ handle' = [handle EXCEPT ![h] = ret.node]
  <2>1. Returned("open") /\ LookupOK
    BY <1>1 DEF OpenEnds, IInv
  <2>2. FoundType = "REG" => ret.node \in Node
    BY <2>1, ResultIs
  <2> QED BY <1>1, <2>1, <2>2, ResultIs DEF OpenEnds
<1>5. /\ context' = [context EXCEPT
             ![f] = IF { h \in Handle : handle'[h] # handle[h] } = {} THEN NoContext
                    ELSE CHOOSE h \in { h \in Handle : handle'[h] # handle[h] } : TRUE]
      /\ named' = [named EXCEPT
             ![f] = CASE { h \in Handle : handle'[h] # handle[h] } = {} -> <<>>
                      [] Astray -> Anything
                      [] OTHER -> named[f]]
      /\ opened' = opened \cup {f} /\ last' = Success
      /\ slot' = slot /\ listed' = listed
  BY <1>2 DEF FileCreated, IInv, Kept, lvars
<1>6. /\ context \in [File -> Handle \cup {NoContext}] /\ named \in [File -> Paths \cup {<<>>, Anything}]
      /\ opened \subseteq File /\ Held /\ NoContext \notin Handle
  BY SlotsAssumption DEF IInv, Kept
<1>7. /\ context' \in [File -> Handle \cup {NoContext}] /\ Held'
  <2>1. CASE handle' = handle
    <3>1. { h \in Handle : handle'[h] # handle[h] } = {}
      BY <2>1
    <3>2. context' = [context EXCEPT ![f] = NoContext]
      BY <1>5, <3>1
    <3>3. context' = context
      BY <1>2, <1>6, <3>2 DEF Holders
    <3>4. Holders' = Holders
      BY <3>3 DEF Holders
    <3> QED BY <1>5, <1>6, <2>1, <3>3, <3>4 DEF Held
  <2>2. ASSUME NEW h \in Handle, handle[h] = NoNode, ret.node \in Node,
               handle' = [handle EXCEPT ![h] = ret.node]
        PROVE  context' \in [File -> Handle \cup {NoContext}] /\ Held'
    <3>1. handle'[h] # handle[h] /\ \A g \in Handle : g # h => handle'[g] = handle[g]
      BY <1>4, <2>2, NoNodeIs
    <3>2. { g \in Handle : handle'[g] # handle[g] } = {h}
      BY <3>1
    <3>3. context' = [context EXCEPT ![f] = h]
      BY <1>5, <3>2
    <3>4. Holders' = Holders \cup {f} /\ context'[f] = h
          /\ \A g \in File : g # f => context'[g] = context[g]
      BY <1>6, <3>3 DEF Holders
    <3>5. \A g \in Holders : context[g] # h /\ g # f /\ context[g] \in Handle
      BY <1>2, <1>6, <2>2 DEF Held, Holders
    <3>6. handle'[h] # NoNode
      BY <1>4, <2>2, NoNodeIs
    <3>7. \A g \in Holders : g \in File
      BY DEF Holders
    <3> QED BY <1>5, <1>6, <3>1, <3>3, <3>4, <3>5, <3>6, <3>7 DEF Held
  <2> QED BY <1>4, <2>1, <2>2
<1>8. Kept'
  <2>1. PICK p \in Paths \cup {<<>>, Anything} : named' = [named EXCEPT ![f] = p]
    BY <1>5, <1>6
  <2> QED BY <1>5, <1>6, <1>7, <2>1, SuccessIs DEF IInv, Kept
<1>9. Calling'
  BY <1>1, <1>3 DEF Calling, NoCall
<1> QED BY <1>3, <1>7, <1>8, <1>9 DEF IInv

LEMMA OpenDirectoryKeeps ==
  ASSUME IInv, NEW f \in File, OpenDirectory(f)
  PROVE  IInv'
<1>1. /\ f \notin opened /\ opened' = opened \cup {f} /\ last' = Success
      /\ context' = [context EXCEPT ![f] = NoContext]
      /\ UNCHANGED <<vars, named, call, lvars>> /\ call = NoCall
  BY DEF OpenDirectory, Idle
<1>2. context' = context
  BY <1>1 DEF IInv, Kept, Held, Holders
<1>3. UNCHANGED <<heap, stack, nest, ret, op, handle>> /\ fault' = fault
  BY <1>1 DEF vars
<1>4. LookupOK'
  BY <1>3, Unchanged DEF IInv, LookupOK
<1>5. Held'
  BY <1>1, <1>2, <1>3 DEF IInv, Held, Holders
<1>6. Calling' /\ Kept'
  BY <1>1, <1>2, <1>3, SuccessIs DEF IInv, Calling, Kept, NoCall, lvars
<1> QED BY <1>4, <1>5, <1>6 DEF IInv

LEMMA CloseFileKeeps ==
  ASSUME IInv, NEW f \in File, CloseFile(f)
  PROVE  IInv'
<1>1. /\ call = NoCall /\ call' = call /\ slot' = slot /\ listed' = listed
      /\ context' = [context EXCEPT ![f] = NoContext] /\ named' = [named EXCEPT ![f] = <<>>]
      /\ opened' = opened \ {f} /\ last' = Success
      /\ IF context[f] # NoContext THEN Close(context[f]) ELSE UNCHANGED vars
  BY DEF CloseFile, Idle, lvars
<1>2. /\ context \in [File -> Handle \cup {NoContext}] /\ named \in [File -> Paths \cup {<<>>, Anything}]
      /\ opened \subseteq File /\ Held /\ LookupOK /\ NoContext \notin Handle
      /\ handle \in [Handle -> Node \cup {NoNode}]
  BY SlotsAssumption DEF IInv, Kept, LookupOK
<1>3. Holders' = Holders \ {f} /\ \A g \in File : g # f => context'[g] = context[g]
  BY <1>1, <1>2 DEF Holders
<1>4. op' = op
  BY <1>1 DEF Close, vars
<1>5. CASE context[f] # NoContext
  <2>1. PICK h \in Handle : h = context[f] /\ Close(h)
    BY <1>1, <1>2, <1>5
  <2>2. LookupOK'
    BY <1>2, <2>1, CloseKeeps
  <2>3. /\ handle' = [handle EXCEPT ![h] = NoNode] /\ f \in Holders
        /\ handle'[h] = NoNode /\ \A g \in Handle : g # h => handle'[g] = handle[g]
    BY <1>2, <1>5, <2>1 DEF Close, Holders
  <2>4. \A g \in Holders : g \in File /\ context[g] \in Handle /\ (g # f => context[g] # h)
    BY <1>2, <2>1, <2>3 DEF Held, Holders
  <2>5. Held'
    BY <1>1, <1>2, <1>3, <2>1, <2>3, <2>4 DEF Held
  <2> QED BY <2>2, <2>5, <1>1, <1>2, <1>4, SuccessIs DEF IInv, Calling, Kept, NoCall
<1>6. CASE context[f] = NoContext
  <2>1. UNCHANGED <<heap, stack, nest, ret, op, handle>> /\ fault' = fault
    BY <1>1, <1>6 DEF vars
  <2>2. LookupOK'
    BY <1>2, <2>1, Unchanged DEF LookupOK
  <2>3. Holders' = Holders /\ context' = context
    BY <1>1, <1>2, <1>3, <1>6 DEF Holders
  <2>4. Held'
    BY <1>1, <1>2, <1>6, <2>1, <2>3 DEF Held, Holders
  <2> QED BY <2>2, <2>4, <1>1, <1>2, <1>4, SuccessIs DEF IInv, Calling, Kept, NoCall
<1> QED BY <1>5, <1>6

LEMMA ReplyIs ==
  ASSUME NEW r \in {-1, 0}, NEW f \in File, NEW from \in Obj \cup {NoData, Minus1}
  PROVE  /\ Reply(r, f, from) \in [ret : {-1, 0}, file : File \cup {NoContext},
                                   from : Obj \cup {NoData, Minus1}]
         /\ Reply(r, NoContext, NoData) \in [ret : {-1, 0}, file : File \cup {NoContext},
                                             from : Obj \cup {NoData, Minus1}]
BY DEF Reply

LEMMA DataIs ==
  ASSUME IInv, NEW f \in File, context[f] # NoContext
  PROVE  Data(f) \in Obj
<1>1. f \in Holders /\ context[f] \in Handle
  BY DEF IInv, Kept, Holders
<1>2. PICK h \in Handle : h = context[f] /\ handle[h] # NoNode
  BY <1>1 DEF IInv, Held
<1>3. handle[h] \in Node /\ heap[handle[h]] # Free /\ heap[handle[h]] \in Obj \cup {Free}
  BY <1>2 DEF IInv, LookupOK, Opened
<1>4. handle[h] # Root
  BY <1>3, MemoryAssumption
<1> QED BY <1>2, <1>3, <1>4 DEF Data, Object

(* A callback that only answers.                                           *)
LEMMA AnswersKeep ==
  ASSUME IInv, NEW f \in File, ReadFile(f) \/ GetFileInformation(f) \/ Change(f)
  PROVE  IInv'
<1>1. UNCHANGED <<vars, kvars, call, lvars>>
  BY DEF ReadFile, GetFileInformation, Change
<1>2. UNCHANGED <<heap, stack, nest, ret, op, handle>> /\ fault' = fault
  BY <1>1 DEF vars
<1>3. LookupOK'
  BY <1>2, Unchanged DEF IInv, LookupOK
<1>4. Held' /\ Calling'
  BY <1>1, <1>2, HeldKept DEF IInv, Calling, NoCall, kvars
<1>5. last' \in [ret : {-1, 0}, file : File \cup {NoContext}, from : Obj \cup {NoData, Minus1}]
  <2>1. \/ last' = Success \/ last' = Reply(-1, NoContext, NoData)
        \/ last' = Reply(0, f, Minus1)
        \/ context[f] # NoContext /\ last' = Reply(0, f, Data(f))
    BY DEF ReadFile, GetFileInformation, Change
  <2>2. CASE context[f] # NoContext /\ last' = Reply(0, f, Data(f))
    BY <2>2, DataIs, ReplyIs
  <2>3. Minus1 \in Obj \cup {NoData, Minus1} /\ -1 \in {-1, 0} /\ 0 \in {-1, 0}
    OBVIOUS
  <2> QED BY <2>1, <2>2, <2>3, SuccessIs, ReplyIs
<1>6. Kept'
  BY <1>1, <1>5 DEF IInv, Kept, kvars, lvars
<1> QED BY <1>3, <1>4, <1>6 DEF IInv

(* A step of the listing, which keeps the directory it lists.              *)
LEMMA ListingKeeps ==
  ASSUME IInv, ListEntry \/ ListNameless \/ ListCut
  PROVE  IInv'
<1>1. /\ UNCHANGED <<heap, stack, nest, ret, op, handle>>
      /\ UNCHANGED <<context, opened, named, call, last>>
      /\ fault' = fault \/ fault' = fault \cup {"failed"}
  BY DEF ListEntry, ListNameless, ListCut, vars, kvars, Failing
<1>2. LookupOK'
  BY <1>1, Unchanged DEF IInv, LookupOK, Fault
<1>3. Held' /\ Calling'
  BY <1>1, HeldKept DEF IInv, Calling, NoCall
<1>4. Object(ret.node) \in Obj /\ slot \in Nat \ {0} /\ listed \in Seq(Name) /\ slot <= Len(Dir)
  <2>1. Returned("list") /\ ret.status = 1 /\ slot <= Len(Dir)
    BY DEF ListEntry, ListNameless, ListCut, ListLeft, DirFound
  <2> QED BY <2>1, ResultIs DEF IInv, Kept
<1>5. Dir \in Seq([name : Name, kind : {"live", "stale", "nameless"}])
  BY <1>4, SlotsAssumption DEF Dir
<1>6. Len(Dir) \in Nat
  BY <1>5
<1>7. slot' \in Nat \ {0}
  <2>1. slot' = slot + 1 \/ slot' = Len(Dir) + 1
    BY DEF ListEntry, ListNameless, ListCut, OnwardTo
  <2> QED BY <1>4, <1>6, <2>1
<1>8. listed' \in Seq(Name)
  <2>1. CASE ListEntry
    <3>1. slot \in 1..Len(Dir)
      BY <1>4, <1>6
    <3>2. PICK e \in [name : Name, kind : {"live", "stale", "nameless"}] : e = Dir[slot]
      BY <1>5, <3>1, ElementOfSeq
    <3>3. e.name \in Name
      OBVIOUS
    <3>4. listed' = Append(listed, e.name)
      BY <2>1, <3>2 DEF ListEntry
    <3> QED BY <1>4, <3>3, <3>4, AppendProperties
  <2>2. CASE ListNameless \/ ListCut
    BY <1>4, <2>2 DEF ListNameless, ListCut
  <2> QED BY <2>1, <2>2
<1>9. Kept'
  BY <1>1, <1>7, <1>8 DEF IInv, Kept
<1> QED BY <1>2, <1>3, <1>9 DEF IInv

LEMMA FilesFoundKeeps ==
  ASSUME IInv, FilesFound
  PROVE  IInv'
<1>1. /\ ListEnds /\ call' = NoCall /\ slot' = 1 /\ listed' = <<>> /\ last' = Success
      /\ UNCHANGED <<context, opened, named>>
  BY DEF FilesFound, kvars
<1>2. LookupOK' /\ op' = NoOp /\ handle' = handle
  BY <1>1, ListEndsKeeps DEF IInv, ListEnds, OpDone
<1>3. Held'
  BY <1>1, <1>2, HeldKept DEF IInv
<1>4. Calling'
  BY <1>1, <1>2 DEF Calling, NoCall
<1>5. Kept'
  <2>1. slot' \in Nat \ {0} /\ listed' \in Seq(Name)
    BY <1>1, EmptySeq
  <2> QED BY <1>1, <2>1, SuccessIs DEF IInv, Kept
<1> QED BY <1>2, <1>3, <1>4, <1>5 DEF IInv

LEMMA LookupKeeps ==
  ASSUME IInv, Lookup, Intact'
  PROVE  IInv'
<1>1. LookupStep /\ UNCHANGED <<context, opened, named, call, slot, listed, last>>
  BY DEF Lookup, kvars, lvars
<1>2. op' = op /\ handle' = handle
  BY <1>1 DEF LookupStep, EmptyPath, NotDirectory, SearchFails, SearchFinds, NestExceeded,
    LinkUnreadable, Follow, Resume, Found
<1>3. LookupOK'
  BY <1>1, LookupStepKeeps DEF IInv
<1>4. Held' /\ Calling' /\ Kept'
  BY <1>1, <1>2, HeldKept DEF IInv, Calling, NoCall, Kept
<1> QED BY <1>3, <1>4 DEF IInv

LEMMA DokanInitHolds ==
  ASSUME DokanInit
  PROVE  IInv
<1>1. /\ heap = [n \in Node |-> Free] /\ stack = <<>> /\ nest = 0 /\ ret = NoRet
      /\ op = NoOp /\ fault = {} /\ handle = [h \in Handle |-> NoNode]
      /\ context = [f \in File |-> NoContext] /\ opened = {}
      /\ named = [f \in File |-> <<>>] /\ call = NoCall /\ slot = 1
      /\ listed = <<>> /\ last = Success
  BY DEF DokanInit, Init
<1>2. MaxNest \in Nat \ {0} /\ NoNode \notin Node
  BY MemoryAssumption
<1>3. Shape /\ Linked /\ ApartIn(stack) /\ UsedIn(stack, heap)
  BY <1>1, <1>2, EmptyStack DEF Shape, ShapeIn, Linked, ApartIn, UsedIn
<1>4. Counted
  BY <1>1, <1>2, EmptyStack DEF Counted
<1>5. Returning /\ RetApart /\ Asked
  BY <1>1, NoNodeIs DEF Returning, RetApart, Asked, Unset, NoRet
<1>6. LookupOK
  BY <1>1, <1>2, <1>3, <1>4, <1>5 DEF LookupOK, Opened
<1>7. Held /\ Calling
  BY <1>1 DEF Held, Holders, Calling, NoCall
<1>8. Kept
  BY <1>1, EmptySeq, SuccessIs DEF Kept
<1> QED BY <1>6, <1>7, <1>8 DEF IInv

(* No step forgets that a link had nothing left.                           *)
LEMMA IntactBefore ==
  ASSUME [DokanNext]_dokanvars, Intact'
  PROVE  Intact
<1>1. fault \cap {"empty"} \subseteq fault'
  <2>1. CASE Lookup
    BY <2>1 DEF Lookup, LookupStep, EmptyPath, NotDirectory, SearchFails, SearchFinds, NestExceeded,
       LinkUnreadable, Follow, Resume, Found, Failing, Misled
  <2>2. CASE FileCreated \/ ListEntry \/ ListNameless \/ ListCut \/ FilesFound
    BY <2>2 DEF FileCreated, ListEntry, ListNameless, ListCut, FilesFound, OpenEnds, ListEnds,
       OpDone, Failing, vars
  <2>3. CASE \E f \in File :
               \/ \E path \in Paths : CreateFile(f, path) \/ FindFiles(f, path)
               \/ OpenDirectory(f) \/ CloseFile(f)
               \/ ReadFile(f) \/ GetFileInformation(f) \/ Change(f)
    BY <2>3 DEF CreateFile, FindFiles, OpenDirectory, CloseFile, ReadFile, GetFileInformation,
       Change, Ask, Close, vars
  <2>4. CASE UNCHANGED dokanvars
    BY <2>4 DEF dokanvars, vars
  <2> QED BY <2>1, <2>2, <2>3, <2>4 DEF DokanNext, CallbackStep, Undefined
<1> QED BY <1>1 DEF Intact

LEMMA DokanNextKeeps ==
  ASSUME IInv, [DokanNext]_dokanvars, Intact'
  PROVE  IInv'
<1>1. CASE \E f \in File : \E path \in Paths : CreateFile(f, path) \/ FindFiles(f, path)
  BY <1>1, BeginsKeeps
<1>2. CASE \E f \in File : OpenDirectory(f) \/ CloseFile(f)
  BY <1>2, OpenDirectoryKeeps, CloseFileKeeps
<1>3. CASE \E f \in File : ReadFile(f) \/ GetFileInformation(f) \/ Change(f)
  BY <1>3, AnswersKeep
<1>4. CASE Lookup \/ FileCreated \/ FilesFound
  BY <1>4, LookupKeeps, FileCreatedKeeps, FilesFoundKeeps
<1>5. CASE ListEntry \/ ListNameless \/ ListCut
  BY <1>5, ListingKeeps
<1>6. CASE UNCHANGED dokanvars
  <2>1. /\ UNCHANGED <<heap, stack, nest, ret, op, handle>> /\ fault' = fault
        /\ UNCHANGED <<context, opened, named, call, slot, listed, last>>
    BY <1>6 DEF dokanvars, vars, kvars, lvars
  <2>2. LookupOK'
    BY <2>1, Unchanged DEF IInv, LookupOK
  <2>3. Held' /\ Calling' /\ Kept'
    BY <2>1, HeldKept DEF IInv, Calling, NoCall, Kept
  <2> QED BY <2>2, <2>3 DEF IInv
<1> QED BY <1>1, <1>2, <1>3, <1>4, <1>5, <1>6 DEF DokanNext, CallbackStep, Undefined

-----------------------------------------------------------------------------
(***************************************************************************)
(* The invariant holds for every tree, every number of nodes, handles and  *)
(* file objects and every MaxNest, until nothing was left of a link that   *)
(* was followed.                                                           *)
(***************************************************************************)
THEOREM Invariance == DokanSpec => [](Intact => IInv)
<1>1. DokanInit => (Intact => IInv)
  BY DokanInitHolds
<1>2. (Intact => IInv) /\ [DokanNext]_dokanvars => (Intact => IInv)'
  BY IntactBefore, DokanNextKeeps
<1> QED BY <1>1, <1>2, PTL DEF DokanSpec

(***************************************************************************)
(* Every variable of the lookups and of the callbacks keeps its type; in   *)
(* particular find_file1 never calls itself MaxNest times (ext4.c:799).    *)
(***************************************************************************)
THEOREM DokanTypeCorrect == DokanSpec => [](Intact => DokanTypeOK)
<1>1. IInv => DokanTypeOK
  <2> SUFFICES ASSUME IInv PROVE DokanTypeOK
    OBVIOUS
  <2>1. stack \in Seq(Frames) /\ Len(stack) <= MaxNest
    BY DEF IInv, LookupOK, Shape, ShapeIn
  <2>2. \A k \in DOMAIN stack :
          /\ stack[k].rest \in Seq(Name) /\ stack[k].type \in FileType
          /\ {stack[k].root, stack[k].node, stack[k].old} \subseteq Ref
          /\ stack[k].at \in {"search", "link", "call", "found"}
    <3> SUFFICES ASSUME NEW k \in DOMAIN stack, NEW g, g = stack[k]
                 PROVE  /\ g.rest \in Seq(Name) /\ g.type \in FileType
                        /\ {g.root, g.node, g.old} \subseteq Ref
                        /\ g.at \in {"search", "link", "call", "found"}
      OBVIOUS
    <3>1. g \in Frames
      BY <2>1
    <3> QED BY <3>1 DEF Frames, Ref
  <2>3. ret.status \in {-1, 0, 1} /\ ret.node \in Ref /\ ret.type \in FileType \cup {Unset}
    BY DEF IInv, LookupOK, Returning, NoRet, Ref
  <2>4. /\ op # NoOp => op.kind \in {"open", "list"} /\ op.path \in Paths
        /\ nest \in 0..MaxNest /\ heap \in [Node -> Obj \cup {Free}]
        /\ handle \in [Handle -> Node \cup {NoNode}] /\ fault \subseteq Fault
    BY DEF IInv, LookupOK, Asked, Counted
  <2>5. call \in [op : {"none", "CreateFile", "FindFiles"}, file : File \cup {NoContext}]
    BY DEF IInv, Calling, NoCall
  <2> QED BY <2>1, <2>2, <2>3, <2>4, <2>5 DEF IInv, Kept, DokanTypeOK, TypeOK
<1> QED BY <1>1, Invariance, PTL

-----------------------------------------------------------------------------
(* Who gives a node back, by the way it is referred to.                    *)
LEMMA OwnerIs ==
  ASSUME LookupOK, NEW w \in Owners, NEW n \in Node, OwnedBy(w) = n
  PROVE  \/ \E h \in Handle : w = <<h, n>> /\ handle[h] = n
         \/ \E k \in 1..Len(stack) :
              w = <<k, "node", n>> /\ stack[k].node = n /\ n \in Owns(stack[k])
         \/ \E k \in 1..Len(stack) :
              w = <<k, "old", n>> /\ stack[k].old = n /\ n \in Owns(stack[k])
         \/ w = <<"ret", n>> /\ ret.node = n
<1>1. DOMAIN stack = 1..Len(stack)
  BY DEF LookupOK, Shape, ShapeIn
<1>2. CASE \E h \in Handle : w = <<h, handle[h]>>
  BY <1>2 DEF OwnedBy
<1>3. CASE \E k \in DOMAIN stack : stack[k].node # stack[k].root /\ w = <<k, "node", stack[k].node>>
  <2>1. PICK k \in 1..Len(stack) : stack[k].node # stack[k].root /\ w = <<k, "node", stack[k].node>>
    BY <1>1, <1>3
  <2>2. OwnedBy(w) = stack[k].node
    BY <2>1 DEF OwnedBy
  <2> QED BY <2>1, <2>2 DEF Owns
<1>4. CASE \E k \in DOMAIN stack : stack[k].old # stack[k].root /\ w = <<k, "old", stack[k].old>>
  <2>1. PICK k \in 1..Len(stack) : stack[k].old # stack[k].root /\ w = <<k, "old", stack[k].old>>
    BY <1>1, <1>4
  <2>2. OwnedBy(w) = stack[k].old
    BY <2>1 DEF OwnedBy
  <2> QED BY <2>1, <2>2 DEF Owns
<1>5. CASE w = <<"ret", ret.node>>
  BY <1>5 DEF OwnedBy
<1> QED BY <1>2, <1>3, <1>4, <1>5 DEF Owners

LEMMA OwnedAlone ==
  ASSUME LookupOK, NEW n \in Node, NEW w \in Owners, OwnedBy(w) = n,
         NEW v \in Owners, OwnedBy(v) = n
  PROVE  w = v
<1>1. /\ \A h, g \in Handle : handle[h] = n /\ h # g => handle[g] # n
      /\ \A k \in 1..Len(stack) : n \in Owns(stack[k]) => \A h \in Handle : handle[h] # n
      /\ ret.node = n => /\ \A h \in Handle : handle[h] # n
                         /\ \A k \in 1..Len(stack) : n \notin Owns(stack[k])
  BY DEF LookupOK, Opened, UsedIn, RetApart
<1>2. \A k, j \in 1..Len(stack) : n \in Owns(stack[k]) /\ n \in Owns(stack[j]) => k = j
  BY DEF LookupOK, ApartIn
<1>3. \A k \in 1..Len(stack) : n \in Owns(stack[k]) => stack[k].node # n \/ stack[k].old # n
  BY DEF LookupOK, ApartIn, Frees
<1>4. CASE \E h \in Handle : w = <<h, n>> /\ handle[h] = n
  BY <1>1, <1>4, OwnerIs
<1>5. CASE \E k \in 1..Len(stack) :
             w = <<k, "node", n>> /\ stack[k].node = n /\ n \in Owns(stack[k])
  BY <1>1, <1>2, <1>3, <1>5, OwnerIs
<1>6. CASE \E k \in 1..Len(stack) :
             w = <<k, "old", n>> /\ stack[k].old = n /\ n \in Owns(stack[k])
  BY <1>1, <1>2, <1>3, <1>6, OwnerIs
<1>7. CASE w = <<"ret", n>> /\ ret.node = n
  BY <1>1, <1>7, OwnerIs
<1> QED BY <1>4, <1>5, <1>6, <1>7, OwnerIs

(***************************************************************************)
(* No node is used or given back after it was given back, and none is      *)
(* given back twice, however deep the links and whatever fails             *)
(* (ext4.c:744-942), as long as no failed read leaves nothing at all of a  *)
(* link that is found below the root (735).                                *)
(***************************************************************************)
THEOREM NoDoubleFree == DokanSpec => []Ownership
<1>1. (Intact => IInv) => Ownership
  <2> SUFFICES ASSUME Intact, IInv PROVE Ownership
    BY DEF Ownership
  <2>1. LookupOK
    BY DEF IInv
  <2>2. ASSUME NEW n \in Owned
        PROVE  heap[n] # Free
    <3>1. PICK w \in Owners : OwnedBy(w) = n /\ n \in Node
      BY <2>2 DEF Owned
    <3> QED BY <2>1, <3>1, OwnerIs DEF LookupOK, UsedIn, Opened, RetApart
  <2>3. \A w, v \in Owners : w # v /\ OwnedBy(w) \in Node => OwnedBy(w) # OwnedBy(v)
    BY <2>1, OwnedAlone
  <2>4. \A k \in DOMAIN stack : stack[k].root \in Node => heap[stack[k].root] # Free
    BY <2>1 DEF LookupOK, UsedIn, Shape, ShapeIn
  <2> QED BY <2>2, <2>3, <2>4 DEF Ownership, Dangling
<1> QED BY <1>1, Invariance, PTL

(***************************************************************************)
(* Between callbacks the open files are exactly those the contexts hold,   *)
(* one each, and only open file objects hold one (eokan.c:73-131), as long *)
(* as something was left of every link.                                    *)
(***************************************************************************)
THEOREM ContextsFit == DokanSpec => []ContextsHoldFiles
<1>1. (Intact => IInv) => ContextsHoldFiles
  <2> SUFFICES ASSUME IInv PROVE ContextsHoldFiles
    BY DEF ContextsHoldFiles
  <2>1. /\ context \in [File -> Handle \cup {NoContext}] /\ NoContext \notin Handle
        /\ Holders = { f \in File : context[f] # NoContext }
    BY SlotsAssumption DEF IInv, Kept, Holders
  <2>2. \A f \in Holders : context[f] \in Handle
    BY <2>1
  <2> QED BY <2>1, <2>2 DEF IInv, Held, ContextsHoldFiles
<1> QED BY <1>1, Invariance, PTL

-----------------------------------------------------------------------------
(***************************************************************************)
(* What is left behind.  A step moves the nodes of a set D between owners  *)
(* or gives them back, but for those of L, which it loses.                 *)
(***************************************************************************)
InStack(st, n) == \E k \in 1..Len(st) : n \in Owns(st[k])

Has(n) == (\E h \in Handle : handle[h] = n) \/ InStack(stack, n) \/ ret.node = n

Below(n) == \E k \in 1..(Len(stack) - 1) : n \in Owns(stack[k])

OwnedHas == Owned = { n \in Node : Has(n) }

LEMMA OwnedIs ==
  LookupOK => OwnedHas
<1> SUFFICES ASSUME LookupOK PROVE Owned = { n \in Node : Has(n) }
  BY DEF OwnedHas
<1>1. DOMAIN stack = 1..Len(stack)
  BY DEF LookupOK, Shape, ShapeIn
<1>2. ASSUME NEW n \in Owned
      PROVE  Has(n) /\ n \in Node
  <2>1. PICK w \in Owners : OwnedBy(w) = n /\ n \in Node
    BY <1>2 DEF Owned
  <2> QED BY <2>1, OwnerIs DEF Has, InStack
<1>3. ASSUME NEW n \in Node, Has(n)
      PROVE  n \in Owned
  <2>1. CASE \E h \in Handle : handle[h] = n
    <3>1. PICK h \in Handle : handle[h] = n
      BY <2>1
    <3>2. <<h, n>> \in Owners /\ OwnedBy(<<h, n>>) = n
      BY <3>1 DEF Owners, OwnedBy
    <3> QED BY <3>2 DEF Owned
  <2>2. CASE InStack(stack, n)
    <3>1. PICK k \in DOMAIN stack : n \in Owns(stack[k])
      BY <1>1, <2>2 DEF InStack
    <3>2. CASE stack[k].node = n
      <4>1. <<k, "node", n>> \in Owners /\ OwnedBy(<<k, "node", n>>) = n
        BY <3>1, <3>2 DEF Owners, OwnedBy, Owns
      <4> QED BY <4>1 DEF Owned
    <3>3. CASE stack[k].old = n
      <4>1. <<k, "old", n>> \in Owners /\ OwnedBy(<<k, "old", n>>) = n
        BY <3>1, <3>3 DEF Owners, OwnedBy, Owns
      <4> QED BY <4>1 DEF Owned
    <3> QED BY <3>1, <3>2, <3>3 DEF Owns
  <2>3. CASE ret.node = n
    <3>1. <<"ret", n>> \in Owners /\ OwnedBy(<<"ret", n>>) = n
      BY <2>3 DEF Owners, OwnedBy
    <3> QED BY <3>1 DEF Owned
  <2> QED BY <1>3, <2>1, <2>2, <2>3 DEF Has
<1> QED BY <1>2, <1>3

LEMMA OwnedIsNext ==
  LookupOK' => OwnedHas'
BY OwnedIs, PTL

LEMMA LeakedIs ==
  ASSUME LookupOK, LookupOK', NEW D \in SUBSET Node, NEW L \in SUBSET D,
         \A n \in Node : n \notin D => heap'[n] = heap[n] /\ (Has(n)' <=> Has(n)),
         \A n \in D : heap[n] = Free \/ Has(n),
         \A n \in D : n \notin L => heap'[n] = Free \/ Has(n)',
         \A n \in L : heap'[n] # Free /\ ~Has(n)'
  PROVE  Leaked' = Leaked \cup L /\ Leaked \cap L = {}
BY OwnedIs, OwnedIsNext DEF Leaked, OwnedHas

LEMMA BelowIs ==
  ASSUME LookupOK, stack # <<>>, NEW n \in Node
  PROVE  /\ InStack(stack, n) <=> Below(n) \/ n \in Owns(Top)
         /\ InStack(Pop, n) <=> Below(n)
         /\ \A f \in Frames : InStack(SetTop(f), n) <=> Below(n) \/ n \in Owns(f)
         /\ n \in Owns(Top) => ~Below(n) /\ \A h \in Handle : handle[h] # n
<1>1. /\ ShapeIn(stack) /\ ApartIn(stack) /\ UsedIn(stack, heap)
      /\ Len(stack) \in Nat \ {0} /\ Len(stack) \in 1..Len(stack) /\ Top = stack[Len(stack)]
  BY TopIs DEF LookupOK, Shape
<1>2. PICK m \in Nat \ {0} : m = Len(stack)
  BY <1>1
<1>3. \A k \in 1..m : k = m \/ k \in 1..(m - 1)
  OBVIOUS
<1>4. \A k \in 1..(m - 1) : k \in 1..m /\ k # m
  OBVIOUS
<1>5. InStack(stack, n) <=> Below(n) \/ n \in Owns(Top)
  BY <1>1, <1>2, <1>3, <1>4 DEF InStack, Below
<1>6. InStack(Pop, n) <=> Below(n)
  BY <1>1, PopIs DEF InStack, Below
<1>7. ASSUME NEW f \in Frames
      PROVE  InStack(SetTop(f), n) <=> Below(n) \/ n \in Owns(f)
  <2>1. PICK st : st = SetTop(f)
    OBVIOUS
  <2>2. Len(st) = m /\ st[m] = f /\ \A k \in 1..(m - 1) : st[k] = stack[k]
    BY <1>1, <1>2, <2>1, SetTopIs
  <2> QED BY <1>1, <1>2, <1>3, <1>4, <2>1, <2>2 DEF InStack, Below
<1>8. n \in Owns(Top) => ~Below(n) /\ \A h \in Handle : handle[h] # n
  BY <1>1, <1>2, <1>4 DEF ApartIn, UsedIn, Below
<1> QED BY <1>5, <1>6, <1>7, <1>8

(* A call returns, and loses the nodes of L.                               *)
LEMMA ReturnLeaks ==
  ASSUME LookupOK, LookupOK', stack # <<>>, ret.node \notin Node,
         NEW status, NEW r, NEW type, Return(status, r, type),
         r \in Owns(Top) \cup {NoNode, Root}, handle' = handle, Same(heap', Owns(Top)),
         NEW L \in SUBSET Owns(Top),
         \A n \in Owns(Top) : n \notin L => heap'[n] = Free \/ n = r,
         \A n \in L : heap'[n] # Free /\ n # r
  PROVE  Leaked' = Leaked \cup L /\ Leaked \cap L = {}
<1>1. stack' = Pop /\ ret'.node = r
  BY DEF Return
<1>2. PICK D \in SUBSET Node : D = Owns(Top)
  BY DEF Owns
<1>3. \A n \in Node : n \in Owns(Top) => ~Below(n) /\ \A h \in Handle : handle[h] # n
  BY BelowIs
<1>4. \A n \in Node : Has(n) <=> (\E h \in Handle : handle[h] = n) \/ Below(n) \/ n \in D
  BY <1>2, BelowIs DEF Has
<1>5. \A n \in Node : Has(n)' <=> (\E h \in Handle : handle[h] = n) \/ Below(n) \/ n = r
  BY <1>1, BelowIs DEF Has
<1>6. \A n \in Node : n = r => n \in D
  BY <1>2, NoNodeIs
<1>7. \A n \in Node : n \notin D => heap'[n] = heap[n] /\ (Has(n)' <=> Has(n))
  BY <1>2, <1>4, <1>5, <1>6 DEF Same
<1>8. /\ \A n \in D : heap[n] = Free \/ Has(n)
      /\ \A n \in D : n \notin L => heap'[n] = Free \/ Has(n)'
  BY <1>2, <1>4, <1>5
<1>9. \A n \in L : heap'[n] # Free /\ ~Has(n)'
  BY <1>2, <1>3, <1>5
<1> QED BY <1>2, <1>7, <1>8, <1>9, LeakedIs

(* The innermost frame moves, takes the nodes of N and loses none.         *)
LEMMA MoveLeaksNone ==
  ASSUME LookupOK, LookupOK', stack # <<>>, NEW f \in Frames,
         \A n \in Node : InStack(stack, n)' <=> Below(n) \/ n \in Owns(f),
         NEW N \in SUBSET Node, \A n \in N : heap[n] = Free \/ n = ret.node,
         ret.node \in Node => ret.node \in N, ret'.node \notin Node,
         handle' = handle, Same(heap', Owns(Top) \cup N),
         Owns(f) \subseteq Owns(Top) \cup N,
         \A n \in Owns(Top) \cup N : heap'[n] = Free \/ n \in Owns(f)
  PROVE  Leaked' = Leaked
<1>1. PICK D \in SUBSET Node : D = Owns(Top) \cup N
  BY DEF Owns
<1>2. PICK L \in SUBSET D : L = {}
  OBVIOUS
<1>3. \A n \in Node : Has(n) <=>
        (\E h \in Handle : handle[h] = n) \/ Below(n) \/ n \in Owns(Top) \/ n = ret.node
  BY BelowIs DEF Has
<1>4. \A n \in Node : Has(n)' <=> (\E h \in Handle : handle[h] = n) \/ Below(n) \/ n \in Owns(f)
  BY DEF Has
<1>5. \A n \in Node : n \notin D => heap'[n] = heap[n] /\ (Has(n)' <=> Has(n))
  BY <1>1, <1>3, <1>4 DEF Same
<1>6. /\ \A n \in D : heap[n] = Free \/ Has(n)
      /\ \A n \in D : n \notin L => heap'[n] = Free \/ Has(n)'
  BY <1>1, <1>3, <1>4
<1>7. \A n \in L : heap'[n] # Free /\ ~Has(n)'
  BY <1>2
<1>8. Leaked' = Leaked \cup L
  BY <1>5, <1>6, <1>7, LeakedIs
<1> QED BY <1>2, <1>8

LEMMA SomeLost ==
  ASSUME NEW L \in SUBSET Node, NEW x, L \subseteq {x}, Leaked' = Leaked \cup L, Leaked \cap L = {},
         Leaked' # Leaked
  PROVE  Leaked \subseteq Leaked' /\ Cardinality(Leaked') = Cardinality(Leaked) + 1
<1>1. IsFiniteSet(Leaked)
  BY MemoryAssumption, FS_Subset DEF Leaked
<1>2. L = {x} /\ x \notin Leaked /\ Leaked' = Leaked \cup {x}
  OBVIOUS
<1>3. Cardinality(Leaked \cup {x}) = Cardinality(Leaked) + 1
  BY <1>1, <1>2, FS_AddElement
<1> QED BY <1>2, <1>3

LosesOne ==
  Leaked' # Leaked =>
    /\ Leaked \subseteq Leaked' /\ Cardinality(Leaked') = Cardinality(Leaked) + 1
    /\ \/ ret' # NoRet /\ ret'.status = 0
       \/ op.kind = "list" /\ op' = NoOp /\ FoundType # "DIRECTORY"

(* A call that gives up loses at most one node of its frame.               *)
LEMMA GivingUpLoses ==
  ASSUME LookupOK, LookupOK', stack # <<>>, ret.node \notin Node, Return(0, NoNode, Unset),
         handle' = handle, Same(heap', Owns(Top)), NEW x,
         \A n \in Owns(Top) : heap'[n] = Free \/ n = x
  PROVE  LosesOne
<1>1. PICK L \in SUBSET Owns(Top) : L = { n \in Owns(Top) : heap'[n] # Free }
  OBVIOUS
<1>2. \A n \in Owns(Top) : n # NoNode /\ n \in Node
  BY NoNodeIs DEF Owns
<1>3. \A n \in Owns(Top) : n \notin L => heap'[n] = Free \/ n = NoNode
  BY <1>1
<1>4. \A n \in L : heap'[n] # Free /\ n # NoNode
  BY <1>1, <1>2
<1>5. PICK r \in Owns(Top) \cup {NoNode, Root}, s \in {0}, t \in {Unset} : r = NoNode
  OBVIOUS
<1>6. Leaked' = Leaked \cup L /\ Leaked \cap L = {}
  BY <1>3, <1>4, <1>5, ReturnLeaks
<1>7. L \in SUBSET Node /\ L \subseteq {x}
  BY <1>1, <1>2
<1>8. ret' # NoRet /\ ret'.status = 0
  BY DEF Return, NoRet
<1> QED BY <1>6, <1>7, <1>8, SomeLost DEF LosesOne

LEMMA GaveUp ==
  ASSUME LookupOK, LookupOK', NotDirectory \/ SearchFails \/ NestExceeded \/ LinkUnreadable
  PROVE  LosesOne
<1>1. /\ stack # <<>> /\ ret = NoRet /\ Return(0, NoNode, Unset) /\ handle' = handle
  BY DEF NotDirectory, SearchFails, Searching, NestExceeded, LinkUnreadable, Running
<1>2. ret.node \notin Node
  BY <1>1, NoNodeIs
<1>3. FrameOK(Top) /\ heap \in [Node -> Obj \cup {Free}]
  BY <1>1, TopOf
<1>4. CASE NotDirectory
  <2>1. heap' = Freed({Top.node}, Top.root) /\ Top.old = NoNode
    BY <1>3, <1>4 DEF NotDirectory, Running, FrameOK
  <2>2. Same(heap', Owns(Top))
    BY <1>3, <2>1, FreedIs DEF Same, Owns
  <2>3. \A n \in Owns(Top) : heap'[n] = Free \/ n = Top.node
    BY <2>1, NoNodeIs DEF Owns
  <2> QED BY <1>1, <1>2, <2>2, <2>3, GivingUpLoses
<1>5. CASE SearchFails
  <2>1. heap' = heap /\ Top.old = NoNode
    BY <1>3, <1>5 DEF SearchFails, Searching, Running, FrameOK
  <2>2. Same(heap', Owns(Top))
    BY <2>1 DEF Same
  <2>3. \A n \in Owns(Top) : heap'[n] = Free \/ n = Top.node
    BY <2>1, NoNodeIs DEF Owns
  <2> QED BY <1>1, <1>2, <2>2, <2>3, GivingUpLoses
<1>6. CASE NestExceeded \/ LinkUnreadable
  <2>1. heap' = Freed({Top.node, Top.old}, Top.root)
    BY <1>6 DEF NestExceeded, LinkUnreadable
  <2>2. Same(heap', Owns(Top))
    BY <1>3, <2>1, FreedIs DEF Same, Owns
  <2>3. \A n \in Owns(Top) : heap'[n] = Free \/ n = NoNode
    BY <2>1 DEF Owns, Freed
  <2> QED BY <1>1, <1>2, <2>2, <2>3, GivingUpLoses
<1> QED BY <1>4, <1>5, <1>6

LEMMA EmptyPathLoses ==
  ASSUME LookupOK, LookupOK', EmptyPath
  PROVE  Leaked' = Leaked
<1>1. /\ stack # <<>> /\ ret = NoRet /\ Return(1, Top.node, Unset)
      /\ Top.at = "search" /\ Top.rest = <<>> /\ heap' = heap /\ handle' = handle
  BY DEF EmptyPath, Running
<1>2. Top.node = Root /\ Top.old = NoNode
  BY <1>1, TopOf DEF FrameOK
<1>3. Owns(Top) = {} /\ ret.node \notin Node /\ Same(heap', Owns(Top))
  BY <1>1, <1>2, NoNodeIs DEF Owns, Same
<1>4. PICK r, s, t : r = Root /\ s = 1 /\ t = Unset /\ Return(s, r, t)
  BY <1>1, <1>2
<1>5. PICK L \in SUBSET Owns(Top) : L = {}
  OBVIOUS
<1>6. Leaked' = Leaked \cup L
  BY <1>1, <1>3, <1>4, <1>5, ReturnLeaks
<1> QED BY <1>5, <1>6

LEMMA SearchFindsLoses ==
  ASSUME LookupOK, LookupOK', SearchFinds
  PROVE  Leaked' = Leaked
<1>1. /\ stack # <<>> /\ Top.at = "search" /\ ret = NoRet /\ \E m \in Node : heap[m] = Free
      /\ ret' = ret /\ handle' = handle
  BY DEF SearchFinds, Searching, Running
<1>2. PICK n \in Node : n = (CHOOSE m \in Node : heap[m] = Free) /\ heap[n] = Free
  BY <1>1
<1>3. PICK found : found = FirstEntry(Top.node, Head(Top.rest))
  OBVIOUS
<1>4. PICK f : f = [Top EXCEPT
        !.old = Top.node, !.node = n, !.type = Type[found],
        !.at = IF Type[found] = "SYMLINK" THEN "link" ELSE "found"]
  OBVIOUS
<1>5. heap' = [heap EXCEPT ![n] = found] /\ stack' = SetTop(f)
  BY <1>2, <1>3, <1>4 DEF SearchFinds
<1>6. Top \in Frames /\ FrameOK(Top) /\ heap \in [Node -> Obj \cup {Free}]
  BY <1>1, TopOf
<1>7. f.root = Top.root /\ f.node = n /\ f.old = Top.node /\ Top.old = NoNode
  BY <1>1, <1>4, <1>6 DEF Frames, FrameOK
<1>8. f \in Frames
  <2>1. ShapeIn(stack') /\ Len(stack') = Len(stack) /\ stack'[Len(stack)] = f
        /\ Len(stack) \in 1..Len(stack)
    <3>1. ShapeIn(stack) /\ Len(stack) \in Nat \ {0} /\ stack \in Seq(Frames)
      BY <1>1, TopIs DEF LookupOK, Shape, ShapeIn
    <3> QED BY <1>5, <3>1 DEF LookupOK, Shape, SetTop
  <2> QED BY <2>1, ElementOfSeq DEF ShapeIn
<1>9. Top.root # n
  BY <1>1, <1>2, TopOf
<1>10. PICK N \in SUBSET Node : N = {n}
  OBVIOUS
<1>11. /\ \A x \in Node : InStack(stack, x)' <=> Below(x) \/ x \in Owns(f)
       /\ \A x \in N : heap[x] = Free \/ x = ret.node
       /\ ret.node \notin Node /\ ret'.node \notin Node
  BY <1>1, <1>2, <1>5, <1>8, <1>10, BelowIs, NoNodeIs DEF InStack
<1>12. Same(heap', Owns(Top) \cup N)
  BY <1>5, <1>6, <1>10 DEF Same
<1>13. Owns(f) = Owns(Top) \cup N
  BY <1>7, <1>9, <1>10, NoNodeIs DEF Owns
<1>14. /\ Owns(f) \subseteq Owns(Top) \cup N
       /\ \A x \in Owns(Top) \cup N : heap'[x] = Free \/ x \in Owns(f)
  BY <1>13
<1> QED BY <1>1, <1>8, <1>11, <1>12, <1>14, MoveLeaksNone

LEMMA FollowLoses ==
  ASSUME LookupOK, LookupOK', Follow
  PROVE  Leaked' = Leaked
<1>1. stack # <<>> /\ Top.at = "link" /\ ret = NoRet /\ ret' = ret /\ handle' = handle
  BY DEF Follow, Running
<1>2. PICK abs, old, g :
        /\ abs \in {{}, {Top.old}} /\ old \in {Root, Top.old}
        /\ abs = {} => old = Top.old
        /\ abs = {Top.old} => old = Root \/ old = Top.old
        /\ old # Top.old => abs = {Top.old}
        /\ old = Top.old => abs = {} \/ Top.old = Root
        /\ heap' = Freed({Top.node} \cup abs, Top.root)
        /\ stack' = Append(SetTop([Top EXCEPT !.node = NoNode, !.old = old, !.at = "call"]), g)
        /\ g.root = old /\ g.node = old /\ g.old = NoNode
  <2>1. PICK link \in {Target[Object(Top.node)]} \cup Torn[Object(Top.node)] :
          LET old == IF link.abs THEN Root ELSE Top.old
          IN  /\ heap' = Freed({Top.node} \cup IF link.abs THEN {Top.old} ELSE {}, Top.root)
              /\ stack' = Append(SetTop([Top EXCEPT !.node = NoNode, !.old = old, !.at = "call"]),
                                 Frame(link.path, old))
    BY DEF Follow
  <2>2. PICK old, g : old = (IF link.abs THEN Root ELSE Top.old) /\ g = Frame(link.path, old)
    OBVIOUS
  <2>3. g.root = old /\ g.node = old /\ g.old = NoNode
    BY <2>2 DEF Frame
  <2>4. CASE link.abs
    BY <2>1, <2>2, <2>3, <2>4
  <2>5. CASE ~link.abs
    BY <2>1, <2>2, <2>3, <2>5
  <2> QED BY <2>4, <2>5
<1>3. /\ Top \in Frames /\ FrameOK(Top) /\ heap \in [Node -> Obj \cup {Free}]
  BY <1>1, TopOf
<1>4. PICK f \in Frames :
        /\ f = [Top EXCEPT !.node = NoNode, !.old = old, !.at = "call"]
        /\ f.root = Top.root /\ f.node = NoNode /\ f.old = old
  <2>1. old \in Ref
    BY <1>2, <1>3 DEF Frames, Ref
  <2>2. PICK f \in Frames : f = [Top EXCEPT !.node = NoNode, !.old = old, !.at = "call"]
    BY <1>3, <2>1 DEF Frames, Ref
  <2>3. f.root = Top.root /\ f.node = NoNode /\ f.old = old
    BY <1>3, <2>2 DEF Frames
  <2> QED BY <2>2, <2>3
<1>5. stack' = Append(SetTop(f), g)
  BY <1>2, <1>4
<1>6. Owns(g) = {}
  BY <1>2, NoNodeIs DEF Owns
<1>7. /\ Len(stack) \in Nat \ {0} /\ Len(SetTop(f)) = Len(stack)
      /\ SetTop(f) \in Seq(Frames)
  BY <1>1, TopIs, SetTopIs DEF LookupOK, Shape
<1>8. PICK st \in Seq(Frames) : st = SetTop(f)
  BY <1>7
<1>9. /\ Len(stack') = Len(st) + 1 /\ stack'[Len(st) + 1] = g
      /\ \A k \in 1..Len(st) : stack'[k] = st[k]
  <2>1. Len(st) \in Nat /\ stack' = Append(st, g)
    BY <1>5, <1>7, <1>8
  <2> QED BY <1>8, <2>1
<1>10. \A x \in Node : InStack(stack, x)' <=> InStack(st, x)
  <2>1. PICK m \in Nat : m = Len(st)
    BY <1>8
  <2>2. \A k \in 1..(m + 1) : k = m + 1 \/ k \in 1..m
    OBVIOUS
  <2>3. \A k \in 1..m : k \in 1..(m + 1)
    OBVIOUS
  <2> QED BY <1>6, <1>9, <2>1, <2>2, <2>3 DEF InStack
<1>11. \A x \in Node : InStack(stack, x)' <=> Below(x) \/ x \in Owns(f)
  BY <1>1, <1>8, <1>10, BelowIs
<1>12. PICK N \in SUBSET Node : N = {}
  OBVIOUS
<1>13. Same(heap', Owns(Top) \cup N) /\ Owns(f) \subseteq Owns(Top) \cup N
  <2>1. Same(heap', Owns(Top))
    BY <1>2, <1>3, FreedIs DEF Same, Owns
  <2>2. Owns(f) \subseteq Owns(Top)
    BY <1>2, <1>4, NoNodeIs DEF Owns
  <2> QED BY <1>12, <2>1, <2>2
<1>14. \A x \in Owns(Top) \cup N : heap'[x] = Free \/ x \in Owns(f)
  <2>1. SUFFICES ASSUME NEW x \in Owns(Top) PROVE heap'[x] = Free \/ x \in Owns(f)
    BY <1>12
  <2>2. x \in Node /\ x # Top.root /\ (x = Top.node \/ x = Top.old) /\ x # Root
    BY NoNodeIs DEF Owns
  <2>3. x \in {Top.node} \cup abs => heap'[x] = Free
    BY <1>2, <2>2 DEF Freed
  <2>4. x = old => x \in Owns(f)
    BY <1>4, <2>2 DEF Owns
  <2> QED BY <1>2, <2>2, <2>3, <2>4
<1>15. ret.node \notin Node /\ ret'.node \notin Node /\ \A x \in N : heap[x] = Free \/ x = ret.node
  BY <1>1, <1>12, NoNodeIs
<1> QED BY <1>1, <1>11, <1>13, <1>14, <1>15, MoveLeaksNone

LEMMA ResumeLoses ==
  ASSUME LookupOK, LookupOK', Resume
  PROVE  LosesOne
<1>1. stack # <<>> /\ ret # NoRet /\ Top.at = "call" /\ handle' = handle
  BY TopOf DEF Resume
<1>2. /\ Top \in Frames /\ FrameOK(Top) /\ heap \in [Node -> Obj \cup {Free}]
      /\ Top.node = NoNode /\ Returning
  BY <1>1, TopOf DEF FrameOK, LookupOK
<1>3. CASE ret.status = 0
  <2>1. heap' = Freed({Top.old}, Top.root) /\ Return(0, NoNode, Unset)
    BY <1>3 DEF Resume
  <2>2. Same(heap', Owns(Top)) /\ ret.node \notin Node
    BY <1>2, <1>3, <2>1, FreedIs, NoNodeIs DEF Same, Owns, Returning
  <2>3. \A n \in Owns(Top) : heap'[n] = Free \/ n = NoNode
    BY <1>2, <2>1 DEF Owns, Freed
  <2> QED BY <1>1, <2>1, <2>2, <2>3, GivingUpLoses
<1>4. CASE ret.status = 1
  <2>1. PICK n \in Ref, t \in FileType :
          /\ n = ret.node /\ t = IF ret.type = Unset THEN Top.type ELSE ret.type
    BY <1>1, <1>2 DEF Frames, Returning
  <2>2. heap' = heap /\ ret' = NoRet
        /\ stack' = SetTop([Top EXCEPT !.node = n, !.at = "found", !.type = t])
    BY <1>2, <1>4, <2>1 DEF Resume, Frames
  <2>3. PICK f \in Frames :
          /\ f = [Top EXCEPT !.node = n, !.at = "found", !.type = t]
          /\ f.root = Top.root /\ f.node = n /\ f.old = Top.old
    <3>1. PICK f \in Frames : f = [Top EXCEPT !.node = n, !.at = "found", !.type = t]
      BY <1>2, <2>1 DEF Frames
    <3>2. f.root = Top.root /\ f.node = n /\ f.old = Top.old
      BY <1>2, <3>1 DEF Frames
    <3> QED BY <3>1, <3>2
  <2>4. n \in Node => n # Top.root
    <3>1. n \in Node => Loose(n)
      BY <2>1, RetIsLoose
    <3>2. Len(stack) \in 1..Len(stack) /\ Top = stack[Len(stack)]
      BY <1>1, TopIs DEF LookupOK, Shape
    <3> QED BY <3>1, <3>2 DEF Loose
  <2>5. PICK N \in SUBSET Node : N = {n} \cap Node
    OBVIOUS
  <2>6. Owns(f) = Owns(Top) \cup N
    BY <1>2, <2>3, <2>4, <2>5, NoNodeIs DEF Owns
  <2>7. /\ Same(heap', Owns(Top) \cup N) /\ Owns(f) \subseteq Owns(Top) \cup N
        /\ \A x \in Owns(Top) \cup N : heap'[x] = Free \/ x \in Owns(f)
    BY <2>2, <2>6 DEF Same
  <2>8. \A x \in Node : InStack(stack, x)' <=> Below(x) \/ x \in Owns(f)
    <3>1. stack' = SetTop(f)
      BY <2>2, <2>3
    <3> QED BY <1>1, <3>1, BelowIs DEF InStack
  <2>9. /\ \A x \in N : heap[x] = Free \/ x = ret.node
        /\ ret.node \in Node => ret.node \in N
        /\ ret'.node \notin Node
    BY <2>1, <2>2, <2>5, NoNodeIs
  <2>10. Leaked' = Leaked
    BY <1>1, <2>7, <2>8, <2>9, MoveLeaksNone
  <2> QED BY <2>10 DEF LosesOne
<1> QED BY <1>1, <1>2, <1>3, <1>4 DEF Returning

LEMMA FoundLoses ==
  ASSUME LookupOK, LookupOK', Found
  PROVE  Leaked' = Leaked
<1>1. /\ stack # <<>> /\ ret = NoRet /\ Top.at = "found" /\ handle' = handle
      /\ heap' = Freed({Top.old}, Top.root)
  BY DEF Found, Running
<1>2. Top \in Frames /\ FrameOK(Top) /\ heap \in [Node -> Obj \cup {Free}]
  BY <1>1, TopOf
<1>3. /\ Top.node \in Node => Top.node \in Owns(Top)
      /\ Top.node \in Node \cup {Root} /\ ret.node \notin Node
  BY <1>1, <1>2, NoNodeIs DEF FrameOK, Frames, Ref, Owns
<1>4. Same(heap', Owns(Top))
  BY <1>1, <1>2, FreedIs DEF Same, Owns
<1>5. \A n \in Owns(Top) : heap'[n] = Free \/ n = Top.node
  BY <1>1 DEF Owns, Freed
<1>6. CASE Len(Top.rest) = 1
  <2>1. PICK r, s, t : r = Top.node /\ s = 1 /\ t = Top.type /\ Return(s, r, t)
    BY <1>6 DEF Found
  <2>2. PICK L \in SUBSET Owns(Top) : L = {}
    OBVIOUS
  <2>3. r \in Owns(Top) \cup {NoNode, Root}
    BY <1>3, <2>1
  <2>4. \A n \in Owns(Top) : n \notin L => heap'[n] = Free \/ n = r
    BY <1>5, <2>1
  <2>5. \A n \in L : heap'[n] # Free /\ n # r
    BY <2>2
  <2>6. stack # <<>> /\ ret.node \notin Node /\ handle' = handle /\ Return(s, r, t)
    BY <1>1, <1>3, <2>1
  <2>7. Leaked' = Leaked \cup L
    BY ONLY LookupOK, LookupOK', L \in SUBSET Owns(Top), <1>4, <2>3, <2>4, <2>5, <2>6, ReturnLeaks
  <2> QED BY <2>2, <2>7
<1>7. CASE Len(Top.rest) # 1
  <2>1. PICK f : f = [Top EXCEPT !.rest = Tail(@), !.old = NoNode, !.at = "search"]
    OBVIOUS
  <2>2. stack' = SetTop(f) /\ ret' = NoRet
    BY <1>1, <1>7, <2>1 DEF Found
  <2>3. f.root = Top.root /\ f.node = Top.node /\ f.old = NoNode
    BY <1>2, <2>1 DEF Frames
  <2>4. f \in Frames
    <3>1. ShapeIn(stack) /\ Len(stack) \in Nat \ {0} /\ stack \in Seq(Frames)
      BY <1>1, TopIs DEF LookupOK, Shape, ShapeIn
    <3>2. ShapeIn(stack') /\ Len(stack') = Len(stack) /\ stack'[Len(stack)] = f
          /\ Len(stack) \in 1..Len(stack)
      BY <2>2, <3>1 DEF LookupOK, Shape, SetTop
    <3> QED BY <3>2, ElementOfSeq DEF ShapeIn
  <2>5. PICK N \in SUBSET Node : N = {}
    OBVIOUS
  <2>6. \A x \in Node : InStack(stack, x)' <=> Below(x) \/ x \in Owns(f)
    BY <1>1, <2>2, <2>4, BelowIs DEF InStack
  <2>7. Owns(f) = Owns(Top) \cap {Top.node}
    BY <1>3, <2>3, NoNodeIs DEF Owns
  <2>8. /\ Same(heap', Owns(Top) \cup N) /\ Owns(f) \subseteq Owns(Top) \cup N
        /\ \A x \in Owns(Top) \cup N : heap'[x] = Free \/ x \in Owns(f)
    BY <1>4, <1>5, <2>5, <2>7 DEF Same
  <2>9. ret'.node \notin Node /\ \A x \in N : heap[x] = Free \/ x = ret.node
    BY <2>2, <2>5, NoNodeIs
  <2> QED BY <1>1, <1>3, <2>4, <2>6, <2>8, <2>9, MoveLeaksNone
<1> QED BY <1>6, <1>7

LEMMA LookupStepLoses ==
  ASSUME LookupOK, LookupOK', LookupStep
  PROVE  LosesOne
<1>1. CASE NotDirectory \/ SearchFails \/ NestExceeded \/ LinkUnreadable
  BY <1>1, GaveUp
<1>2. CASE EmptyPath \/ SearchFinds \/ Follow \/ Found
  BY <1>2, EmptyPathLoses, SearchFindsLoses, FollowLoses, FoundLoses DEF LosesOne
<1>3. CASE Resume
  BY <1>3, ResumeLoses
<1> QED BY <1>1, <1>2, <1>3 DEF LookupStep

(* When no call runs, the open files and the result own everything.        *)
LEMMA IdleHas ==
  ASSUME NEW n \in Node
  PROVE  /\ stack = <<>> => (Has(n) <=> (\E h \in Handle : handle[h] = n) \/ ret.node = n)
         /\ stack' = <<>> => (Has(n)' <=> (\E h \in Handle : handle'[h] = n) \/ ret'.node = n)
BY EmptyStack DEF Has, InStack

(* Outside a call the nodes of D change hands, are given back or lost.     *)
LEMMA IdleLoses ==
  ASSUME LookupOK, LookupOK', stack = <<>>, stack' = <<>>, NEW x, NEW y,
         ret.node = y, ret'.node \notin Node,
         \A n \in Node : n \notin {x, y} =>
            /\ heap'[n] = heap[n]
            /\ (\E h \in Handle : handle'[h] = n) <=> (\E h \in Handle : handle[h] = n),
         x \in Node => \E h \in Handle : handle[h] = x,
         NEW L, L = {} \/ L = {y} \cap Node,
         \A n \in {x, y} \cap Node : n \notin L =>
            heap'[n] = Free \/ \E h \in Handle : handle'[h] = n,
         \A n \in L : heap'[n] # Free /\ \A h \in Handle : handle'[h] # n
  PROVE  Leaked' = Leaked \cup L /\ Leaked \cap L = {}
<1>1. PICK D \in SUBSET Node : D = {x, y} \cap Node
  OBVIOUS
<1>2. L \in SUBSET D
  BY <1>1
<1>3. \A n \in Node : Has(n) <=> (\E h \in Handle : handle[h] = n) \/ n = y
  BY IdleHas
<1>4. \A n \in Node : Has(n)' <=> \E h \in Handle : handle'[h] = n
  BY IdleHas
<1>5. \A n \in Node : n \notin D => heap'[n] = heap[n] /\ (Has(n)' <=> Has(n))
  BY <1>1, <1>3, <1>4
<1>6. \A n \in D : heap[n] = Free \/ Has(n)
  BY <1>1, <1>3
<1>7. \A n \in D : n \notin L => heap'[n] = Free \/ Has(n)'
  BY <1>1, <1>4
<1>8. \A n \in L : heap'[n] # Free /\ ~Has(n)'
  BY <1>1, <1>2, <1>4
<1> QED BY <1>2, <1>5, <1>6, <1>7, <1>8, LeakedIs

LEMMA OpenLoses ==
  ASSUME LookupOK, LookupOK', OpenEnds
  PROVE  Leaked' = Leaked
<1>1. Returned("open") /\ stack' = stack /\ ret' = NoRet
  BY DEF OpenEnds, OpDone
<1>2. /\ stack = <<>> /\ stack' = <<>> /\ ret'.node \notin Node
      /\ handle \in [Handle -> Node \cup {NoNode}] /\ heap \in [Node -> Obj \cup {Free}]
      /\ (ret.status = 0 => ret.node \notin Node)
  BY <1>1, NoNodeIs DEF Returned, LookupOK, Returning
<1>3. PICK y : y = ret.node
  OBVIOUS
<1>4. PICK L : L = {}
  OBVIOUS
<1>5. \A n \in Node : n # y => heap'[n] = heap[n]
  BY <1>2, <1>3, FreedIs DEF OpenEnds
<1>6. /\ \A n \in Node : n # y =>
            ((\E h \in Handle : handle'[h] = n) <=> (\E h \in Handle : handle[h] = n))
      /\ y \in Node => heap'[y] = Free \/ \E h \in Handle : handle'[h] = y
  <2>1. CASE \E h \in Handle : handle[h] = NoNode /\ handle' = [handle EXCEPT ![h] = ret.node]
    <3>1. PICK h \in Handle : handle[h] = NoNode /\ handle' = [handle EXCEPT ![h] = y]
      BY <1>3, <2>1
    <3>2. handle'[h] = y /\ \A g \in Handle : g # h => handle'[g] = handle[g]
      BY <1>2, <3>1
    <3> QED BY <3>1, <3>2, NoNodeIs
  <2>2. CASE handle' = handle /\ heap' = Freed({ret.node}, Root)
    BY <1>3, <2>2, NoNodeIs DEF Freed
  <2>3. CASE handle' = handle /\ ret.status = 0
    BY <1>2, <1>3, <2>3
  <2> QED BY <2>1, <2>2, <2>3 DEF OpenEnds
<1>7. PICK x : x = NoNode
  OBVIOUS
<1>8. Leaked' = Leaked \cup L /\ Leaked \cap L = {}
  <2>1. x \notin Node
    BY <1>7, NoNodeIs
  <2>2. \A n \in Node : n \notin {x, y} =>
            /\ heap'[n] = heap[n]
            /\ (\E h \in Handle : handle'[h] = n) <=> (\E h \in Handle : handle[h] = n)
    BY <1>5, <1>6
  <2>3. \A n \in {x, y} \cap Node : n \notin L =>
            heap'[n] = Free \/ \E h \in Handle : handle'[h] = n
    BY <1>6, <2>1
  <2>4. \A n \in L : heap'[n] # Free /\ \A h \in Handle : handle'[h] # n
    BY <1>4
  <2>5. L = {} \/ L = {y} \cap Node
    BY <1>4
  <2>6. x \in Node => \E h \in Handle : handle[h] = x
    BY <2>1
  <2>7. stack = <<>> /\ stack' = <<>> /\ ret'.node \notin Node /\ ret.node = y
    BY <1>2, <1>3
  <2> QED BY ONLY LookupOK, LookupOK', <2>2, <2>3, <2>4, <2>5, <2>6, <2>7, IdleLoses, SMTT(30)
<1> QED BY <1>4, <1>8

LEMMA ListLoses ==
  ASSUME LookupOK, LookupOK', ListEnds
  PROVE  LosesOne
<1>1. Returned("list") /\ stack' = stack /\ ret' = NoRet /\ op' = NoOp /\ handle' = handle
  BY DEF ListEnds, OpDone
<1>2. /\ stack = <<>> /\ stack' = <<>> /\ ret'.node \notin Node /\ op.kind = "list"
      /\ heap \in [Node -> Obj \cup {Free}] /\ ret.status \in {0, 1}
      /\ (ret.status = 0 => ret.node \notin Node)
      /\ (ret.node \in Node => heap[ret.node] # Free /\ \A h \in Handle : handle[h] # ret.node)
  BY <1>1, NoNodeIs, ResultIs DEF Returned, LookupOK, Returning
<1>3. PICK x, y : x = NoNode /\ y = ret.node
  OBVIOUS
<1>4. PICK L : L = IF ret.status = 1 /\ FoundType = "DIRECTORY" THEN {} ELSE {y} \cap Node
  OBVIOUS
<1>5. heap' = Freed({ret.node}, Root) \/ heap' = heap
  BY DEF ListEnds
<1>6. \A n \in Node : n \notin {x, y} =>
         /\ heap'[n] = heap[n]
         /\ (\E h \in Handle : handle'[h] = n) <=> (\E h \in Handle : handle[h] = n)
  BY <1>1, <1>2, <1>3, <1>5, FreedIs
<1>7. x \notin Node /\ Root \notin Node
  BY <1>3, NoNodeIs
<1>8. \A n \in {x, y} \cap Node : n \notin L =>
         heap'[n] = Free \/ \E h \in Handle : handle'[h] = n
  <2>1. CASE ret.status = 1 /\ FoundType = "DIRECTORY"
    <3>1. heap' = Freed({y}, Root)
      BY <1>3, <2>1 DEF ListEnds
    <3> QED BY <1>7, <3>1 DEF Freed
  <2>2. CASE ~(ret.status = 1 /\ FoundType = "DIRECTORY")
    BY <1>4, <1>7, <2>2
  <2> QED BY <2>1, <2>2
<1>9. \A n \in L : heap'[n] # Free /\ \A h \in Handle : handle'[h] # n
  <2>1. CASE ret.status = 1 /\ FoundType = "DIRECTORY"
    BY <1>4, <2>1
  <2>2. CASE ~(ret.status = 1 /\ FoundType = "DIRECTORY")
    BY <1>1, <1>2, <1>3, <1>4, <2>2 DEF ListEnds
  <2> QED BY <2>1, <2>2
<1>10. L = {} \/ L = {y} \cap Node
  BY <1>4
<1>11. Leaked' = Leaked \cup L /\ Leaked \cap L = {}
  BY ONLY LookupOK, LookupOK', <1>2, <1>3, <1>6, <1>7, <1>8, <1>9, <1>10, IdleLoses, SMTT(30)
<1>12. L \in SUBSET Node /\ L \subseteq {y}
  BY <1>10
<1>13. L # {} => FoundType # "DIRECTORY"
  BY <1>2, <1>3, <1>4
<1> QED BY <1>1, <1>2, <1>11, <1>12, <1>13, SomeLost DEF LosesOne

LEMMA CloseLoses ==
  ASSUME LookupOK, LookupOK', NEW h \in Handle, Close(h)
  PROVE  Leaked' = Leaked
<1>1. /\ op = NoOp /\ heap' = Freed({handle[h]}, Root) /\ handle[h] # NoNode
      /\ handle' = [handle EXCEPT ![h] = NoNode] /\ stack' = stack /\ ret' = ret
  BY DEF Close
<1>2. /\ stack = <<>> /\ stack' = <<>> /\ ret.node = NoNode /\ ret'.node \notin Node
      /\ handle \in [Handle -> Node \cup {NoNode}] /\ heap \in [Node -> Obj \cup {Free}]
  BY <1>1, NoNodeIs DEF LookupOK, Asked
<1>3. PICK x, y, L : x = handle[h] /\ y = NoNode /\ L = {}
  OBVIOUS
<1>4. x \in Node /\ y \notin Node /\ ret.node = y
  BY <1>1, <1>2, <1>3, NoNodeIs
<1>5. \A n \in Node : n # x => heap'[n] = heap[n]
  BY <1>1, <1>2, <1>3, FreedIs
<1>6. heap'[x] = Free
  BY <1>1, <1>3, <1>4, NoNodeIs DEF Freed
<1>7. \A n \in Node : n # x =>
         ((\E g \in Handle : handle'[g] = n) <=> (\E g \in Handle : handle[g] = n))
  <2>1. handle'[h] = NoNode /\ \A g \in Handle : g # h => handle'[g] = handle[g]
    BY <1>1, <1>2
  <2> QED BY <1>3, <2>1, NoNodeIs
<1>8. /\ \A n \in Node : n \notin {x, y} =>
            /\ heap'[n] = heap[n]
            /\ (\E g \in Handle : handle'[g] = n) <=> (\E g \in Handle : handle[g] = n)
      /\ x \in Node => \E g \in Handle : handle[g] = x
  BY <1>3, <1>5, <1>7
<1>9. /\ \A n \in {x, y} \cap Node : n \notin L =>
            heap'[n] = Free \/ \E g \in Handle : handle'[g] = n
      /\ \A n \in L : heap'[n] # Free /\ \A g \in Handle : handle'[g] # n
      /\ L = {} \/ L = {y} \cap Node
  BY <1>3, <1>4, <1>6
<1>10. Leaked' = Leaked \cup L /\ Leaked \cap L = {}
  BY ONLY LookupOK, LookupOK', <1>2, <1>4, <1>8, <1>9, IdleLoses
<1> QED BY <1>3, <1>10

LEMMA AskLoses ==
  ASSUME LookupOK, LookupOK', NEW kind, NEW path, Ask(kind, path)
  PROVE  Leaked' = Leaked
<1>1. /\ op = NoOp /\ stack' = <<Frame(path, Root)>> /\ heap' = heap /\ ret' = ret
      /\ handle' = handle
  BY DEF Ask
<1>2. stack = <<>>
  BY <1>1 DEF LookupOK, Asked
<1>3. Owns(Frame(path, Root)) = {}
  <2>1. PICK g : g = Frame(path, Root)
    OBVIOUS
  <2>2. g.node = Root /\ g.old = NoNode
    BY <2>1 DEF Frame
  <2> QED BY <2>1, <2>2, NoNodeIs DEF Owns
<1>4. \A n \in Node : ~InStack(stack, n) /\ ~InStack(stack, n)'
  <2>1. PICK g : g = Frame(path, Root)
    OBVIOUS
  <2>2. Len(stack') = 1 /\ stack'[1] = g /\ \A k \in 1..1 : k = 1
    BY <1>1, <2>1
  <2> QED BY <1>2, <1>3, <2>1, <2>2, EmptyStack DEF InStack
<1>5. PICK D \in SUBSET Node : D = {}
  OBVIOUS
<1>6. PICK L \in SUBSET D : L = {}
  OBVIOUS
<1>7. \A n \in Node : heap'[n] = heap[n] /\ (Has(n)' <=> Has(n))
  BY <1>1, <1>4 DEF Has
<1>8. Leaked' = Leaked \cup L
  BY <1>5, <1>6, <1>7, LeakedIs
<1> QED BY <1>6, <1>8

(***************************************************************************)
(* A step leaves at most one node behind that nobody owns, and only when   *)
(* a call of find_file1 gives up (ext4.c:787) or a path that was to be     *)
(* listed is no directory (ext4.c:1014), as long as something was left of  *)
(* every link.                                                             *)
(***************************************************************************)
THEOREM LosesOnFailure == DokanSpec => LeaksOnlyOnFailure
<1>1. (Intact => IInv) /\ (Intact => IInv)' /\ [DokanNext]_dokanvars => (Intact' => LosesOne)
  <2> SUFFICES ASSUME IInv, IInv', [DokanNext]_dokanvars PROVE LosesOne
    BY IntactBefore
  <2>1. LookupOK /\ LookupOK'
    BY DEF IInv
  <2>2. CASE \E f \in File : \E path \in Paths : CreateFile(f, path) \/ FindFiles(f, path)
    BY <2>1, <2>2, AskLoses DEF CreateFile, FindFiles, LosesOne
  <2>3. CASE \E f \in File : CloseFile(f) /\ context[f] # NoContext
    <3>1. PICK f \in File : CloseFile(f) /\ context[f] # NoContext
      BY <2>3
    <3>2. PICK h \in Handle : h = context[f]
      BY <3>1 DEF IInv, Kept
    <3> QED BY <2>1, <3>1, <3>2, CloseLoses DEF CloseFile, LosesOne
  <2>4. CASE Lookup \/ FileCreated \/ FilesFound
    BY <2>1, <2>4, LookupStepLoses, OpenLoses, ListLoses
      DEF Lookup, FileCreated, FilesFound, LosesOne
  <2>5. CASE UNCHANGED <<heap, stack, ret, handle>>
    BY <2>5 DEF LosesOne, Leaked, Owned, Owners
  <2>6. CASE UNCHANGED dokanvars
    BY <2>5, <2>6 DEF dokanvars, vars
  <2>7. CASE ListEntry \/ ListNameless \/ ListCut
    BY <2>5, <2>7 DEF ListEntry, ListNameless, ListCut, vars
  <2>8. CASE \E f \in File : OpenDirectory(f) \/ (CloseFile(f) /\ context[f] = NoContext)
    BY <2>5, <2>8 DEF OpenDirectory, CloseFile, vars
  <2>9. CASE \E f \in File : ReadFile(f) \/ GetFileInformation(f) \/ Change(f)
    BY <2>5, <2>9 DEF ReadFile, GetFileInformation, Change, vars
  <2> QED BY <2>2, <2>3, <2>4, <2>6, <2>7, <2>8, <2>9 DEF DokanNext, CallbackStep, Undefined
<1>2. (Intact' => LosesOne) =>
        [Leaked' # Leaked /\ Intact' =>
           /\ Leaked \subseteq Leaked' /\ Cardinality(Leaked') = Cardinality(Leaked) + 1
           /\ \/ ret' # NoRet /\ ret'.status = 0
              \/ op.kind = "list" /\ op' = NoOp /\ FoundType # "DIRECTORY"]_vars
  BY DEF LosesOne
<1> QED BY <1>1, <1>2, Invariance, PTL DEF DokanSpec, LeaksOnlyOnFailure

-----------------------------------------------------------------------------
(***************************************************************************)
(* The reference.  Its recursion has a solution: where the places lead     *)
(* that follow one another.                                                *)
(***************************************************************************)
Ends(p) == p.path = <<>> \/ Stuck(p)
End(p) == IF p.path = <<>> THEN p.at ELSE Free

Way(g, n, p) ==
  /\ g \in [0..n -> Places] /\ g[0] = p
  /\ \A i \in 0..(n - 1) : ~Ends(g[i]) /\ g[i + 1] = Beyond(g[i])
  /\ Ends(g[n])

LeadsTo(p, x) == \E n \in Nat : \E g : Way(g, n, p) /\ x = End(g[n])

IsResolve(f) ==
  f = [p \in Places |->
         IF p.path = <<>> THEN p.at ELSE IF Stuck(p) THEN Free ELSE f[Beyond(p)]]

LEMMA BeyondIs ==
  ASSUME NEW p \in Places, ~Ends(p)
  PROVE  /\ Beyond(p) \in Places /\ Head(p.path) \in Name /\ Tail(p.path) \in Seq(Name)
         /\ Child(p) \in Obj
<1>1. p.path \in Seq(Name) /\ p.path # <<>> /\ p.at \in Obj /\ p.left \in 0..MaxNest
  BY DEF Places, Ends
<1>2. Head(p.path) \in Name /\ Tail(p.path) \in Seq(Name)
  BY <1>1, HeadTailProperties
<1>3. Child(p) \in Obj /\ (Type[Child(p)] = "SYMLINK" => p.left # 0)
  BY <1>1, TreeAssumption DEF Ends, Stuck, Child
<1>4. PICK e \in Obj : e = Child(p)
  BY <1>3
<1>5. Beyond(p) = IF Type[e] # "SYMLINK" THEN Place(p.left, e, Tail(p.path))
                  ELSE Place(p.left - 1, IF Target[e].abs THEN RootObj ELSE p.at,
                             Target[e].path \o Tail(p.path))
  BY <1>4 DEF Beyond
<1>6. CASE Type[e] # "SYMLINK"
  <2>1. PICK q \in Seq(Name), l \in 0..MaxNest : q = Tail(p.path) /\ l = p.left
    BY <1>1, <1>2
  <2>2. Beyond(p) = Place(l, e, q)
    BY <1>5, <1>6, <2>1
  <2>3. Place(l, e, q) \in Places
    BY DEF Place, Places
  <2> QED BY <1>2, <1>3, <2>2, <2>3
<1>7. CASE Type[e] = "SYMLINK"
  <2>1. PICK l \in 0..MaxNest : l = p.left - 1
    BY <1>1, <1>3, <1>4, <1>7, MemoryAssumption
  <2>2. PICK o \in Obj : o = IF Target[e].abs THEN RootObj ELSE p.at
    BY <1>1, TreeAssumption
  <2>3. PICK q \in Seq(Name) : q = Target[e].path \o Tail(p.path)
    BY <1>2, TreeAssumption, ConcatProperties
  <2>4. Beyond(p) = Place(l, o, q)
    BY <1>5, <1>7, <2>1, <2>2, <2>3
  <2>5. Place(l, o, q) \in Places
    BY DEF Place, Places
  <2> QED BY <1>2, <1>3, <2>4, <2>5
<1> QED BY <1>2, <1>3, <1>6, <1>7

LEMMA LeadsOn ==
  ASSUME NEW p \in Places, ~Ends(p), NEW x
  PROVE  LeadsTo(p, x) <=> LeadsTo(Beyond(p), x)
<1>1. ASSUME LeadsTo(p, x) PROVE LeadsTo(Beyond(p), x)
  <2>0. PICK n \in Nat : \E g : Way(g, n, p) /\ x = End(g[n])
    BY <1>1 DEF LeadsTo
  <2>1. PICK g : Way(g, n, p) /\ x = End(g[n])
    BY <2>0
  <2>2. n # 0
    BY <2>1 DEF Way
  <2>3. PICK m \in Nat : n = m + 1
    <3>1. n - 1 \in Nat /\ n = (n - 1) + 1
      BY <2>2
    <3> QED BY <3>1
  <2>4. PICK h : h = [i \in 0..m |-> g[i + 1]]
    OBVIOUS
  <2>5. \A i \in 0..m : i + 1 \in 0..n /\ h[i] = g[i + 1]
    BY <2>3, <2>4
  <2>6. h \in [0..m -> Places] /\ h[0] = Beyond(p) /\ h[m] = g[n]
    <3>1. h \in [0..m -> Places]
      BY <2>1, <2>4, <2>5 DEF Way
    <3>2. 0 \in 0..m /\ m \in 0..m /\ 0 \in 0..(n - 1) /\ 0 + 1 = 1
      BY <2>3
    <3> QED BY <2>1, <2>3, <2>5, <3>1, <3>2 DEF Way
  <2>7. \A i \in 0..(m - 1) : ~Ends(h[i]) /\ h[i + 1] = Beyond(h[i])
    <3> SUFFICES ASSUME NEW i \in 0..(m - 1) PROVE ~Ends(h[i]) /\ h[i + 1] = Beyond(h[i])
      OBVIOUS
    <3>1. i \in 0..m /\ i + 1 \in 0..m /\ i + 1 \in 0..(n - 1)
      BY <2>3
    <3> QED BY <2>1, <2>5, <3>1 DEF Way
  <2>8. Way(h, m, Beyond(p)) /\ x = End(h[m])
    BY <2>1, <2>6, <2>7 DEF Way
  <2> QED BY <2>8 DEF LeadsTo
<1>2. ASSUME LeadsTo(Beyond(p), x) PROVE LeadsTo(p, x)
  <2>0. PICK m \in Nat : \E h : Way(h, m, Beyond(p)) /\ x = End(h[m])
    BY <1>2 DEF LeadsTo
  <2>1. PICK h : Way(h, m, Beyond(p)) /\ x = End(h[m])
    BY <2>0
  <2>2. PICK n \in Nat : n = m + 1
    OBVIOUS
  <2>3. PICK g : g = [i \in 0..n |-> IF i = 0 THEN p ELSE h[i - 1]]
    OBVIOUS
  <2>4. g[0] = p /\ \A i \in 0..m : i + 1 \in 0..n /\ g[i + 1] = h[i]
    <3>1. \A i \in 0..m : i + 1 \in 0..n /\ i + 1 # 0 /\ (i + 1) - 1 = i
      BY <2>2
    <3>2. 0 \in 0..n
      BY <2>2
    <3> QED BY <2>3, <3>1, <3>2
  <2>5. \A i \in 0..n : i = 0 \/ \E j \in 0..m : i = j + 1
    <3>1. ASSUME NEW i \in 0..n, i # 0 PROVE i - 1 \in 0..m /\ i = (i - 1) + 1
      BY <2>2, <3>1
    <3> QED BY <3>1
  <2>6. g \in [0..n -> Places]
    <3>1. \A i \in 0..n : g[i] \in Places
      <4> SUFFICES ASSUME NEW i \in 0..n PROVE g[i] \in Places
        OBVIOUS
      <4>1. CASE i = 0
        BY <2>4, <4>1
      <4>2. ASSUME NEW j \in 0..m, i = j + 1 PROVE g[i] \in Places
        <5>1. h[j] \in Places
          BY <2>1, <4>2 DEF Way
        <5> QED BY <2>4, <4>2, <5>1
      <4> QED BY <2>5, <4>1, <4>2
    <3> QED BY <2>3, <3>1
  <2>7. \A i \in 0..(n - 1) : ~Ends(g[i]) /\ g[i + 1] = Beyond(g[i])
    <3> SUFFICES ASSUME NEW i \in 0..(n - 1) PROVE ~Ends(g[i]) /\ g[i + 1] = Beyond(g[i])
      OBVIOUS
    <3>1. CASE i = 0
      <4>1. 0 \in 0..m
        OBVIOUS
      <4>2. g[0 + 1] = h[0] /\ h[0] = Beyond(p)
        BY <2>1, <2>4, <4>1 DEF Way
      <4> QED BY <2>4, <3>1, <4>2
    <3>2. CASE i # 0
      <4>1. PICK j \in 0..(m - 1) : i = j + 1
        <5>1. i - 1 \in 0..(m - 1) /\ i = (i - 1) + 1
          BY <2>2, <3>2
        <5> QED BY <5>1
      <4>2. j \in 0..m /\ j + 1 \in 0..m
        OBVIOUS
      <4>3. g[i] = h[j] /\ g[i + 1] = h[j + 1]
        BY <2>4, <4>1, <4>2
      <4> QED BY <2>1, <4>1, <4>3 DEF Way
    <3> QED BY <3>1, <3>2
  <2>8. g[n] = h[m]
    BY <2>2, <2>4
  <2>9. Way(g, n, p) /\ x = End(g[n])
    BY <2>1, <2>4, <2>6, <2>7, <2>8 DEF Way
  <2> QED BY <2>9 DEF LeadsTo
<1> QED BY <1>1, <1>2

LEMMA ResolveExists == \E f : IsResolve(f)
<1> DEFINE f == [p \in Places |-> CHOOSE x : LeadsTo(p, x)]
<1>1. ASSUME NEW p \in Places, Ends(p)
      PROVE  f[p] = End(p)
  <2>1. ASSUME NEW x PROVE LeadsTo(p, x) <=> x = End(p)
    <3>1. ASSUME LeadsTo(p, x) PROVE x = End(p)
      <4>0. PICK n \in Nat : \E g : Way(g, n, p) /\ x = End(g[n])
        BY <3>1 DEF LeadsTo
      <4>1. PICK g : Way(g, n, p) /\ x = End(g[n])
        BY <4>0
      <4>2. n = 0
        <5>1. n # 0 => 0 \in 0..(n - 1)
          OBVIOUS
        <5> QED BY <1>1, <4>1, <5>1 DEF Way
      <4> QED BY <4>1, <4>2 DEF Way
    <3>2. LeadsTo(p, End(p))
      <4>1. PICK g : g = [i \in 0..0 |-> p]
        OBVIOUS
      <4>2. g \in [0..0 -> Places] /\ g[0] = p /\ 0..(0 - 1) = {}
        BY <4>1
      <4>3. Way(g, 0, p)
        BY <1>1, <4>2 DEF Way
      <4> QED BY <4>2, <4>3 DEF LeadsTo
    <3> QED BY <3>1, <3>2
  <2> QED BY <2>1
<1>2. ASSUME NEW p \in Places, ~Ends(p)
      PROVE  f[p] = f[Beyond(p)]
  <2>1. Beyond(p) \in Places
    BY <1>2, BeyondIs
  <2>2. \A x : LeadsTo(p, x) <=> LeadsTo(Beyond(p), x)
    BY <1>2, LeadsOn
  <2>3. (CHOOSE x : LeadsTo(p, x)) = CHOOSE x : LeadsTo(Beyond(p), x)
    BY <2>2
  <2> QED BY <2>1, <2>3
<1>3. f = [p \in Places |-> f[p]]
  OBVIOUS
<1> HIDE DEF f
<1>4. ASSUME NEW p \in Places
      PROVE  f[p] = IF p.path = <<>> THEN p.at ELSE IF Stuck(p) THEN Free ELSE f[Beyond(p)]
  BY <1>1, <1>2, <1>4 DEF Ends, End
<1>5. IsResolve(f)
  BY <1>3, <1>4 DEF IsResolve
<1> QED BY <1>5

LEMMA ResolveIs ==
  ASSUME NEW p \in Places
  PROVE  Resolve[p] = IF p.path = <<>> THEN p.at
                      ELSE IF Stuck(p) THEN Free ELSE Resolve[Beyond(p)]
<1>1. Resolve = CHOOSE f : IsResolve(f)
  BY DEF Resolve, IsResolve
<1>2. IsResolve(Resolve)
  BY <1>1, ResolveExists
<1> QED BY <1>2 DEF IsResolve

-----------------------------------------------------------------------------
(* Paths.                                                                  *)
LEMMA PathOn ==
  ASSUME NEW p \in Seq(Name), p # <<>>, NEW t \in Seq(Name)
  PROVE  /\ p \o t \in Seq(Name) /\ p \o t # <<>> /\ Head(p) \in Name
         /\ Head(p \o t) = Head(p) /\ Tail(p) \in Seq(Name) /\ Tail(p \o t) = Tail(p) \o t
<1>1. /\ p \o t \in Seq(Name) /\ Len(p \o t) = Len(p) + Len(t)
      /\ \A i \in 1..(Len(p) + Len(t)) :
           (p \o t)[i] = IF i <= Len(p) THEN p[i] ELSE t[i - Len(p)]
  BY ConcatProperties
<1>2. Len(p) \in Nat \ {0} /\ Len(t) \in Nat
  BY EmptySeq, LenProperties
<1>3. p \o t # <<>>
  BY <1>1, <1>2, EmptySeq
<1>4. /\ Head(p) \in Name /\ Head(p) = p[1] /\ Tail(p) \in Seq(Name) /\ Len(Tail(p)) = Len(p) - 1
      /\ \A i \in 1..Len(Tail(p)) : Tail(p)[i] = p[i + 1]
  BY HeadTailProperties
<1>5. /\ Head(p \o t) = (p \o t)[1] /\ Tail(p \o t) \in Seq(Name)
      /\ Len(Tail(p \o t)) = Len(p \o t) - 1
      /\ \A i \in 1..Len(Tail(p \o t)) : Tail(p \o t)[i] = (p \o t)[i + 1]
  BY <1>1, <1>3, HeadTailProperties
<1>6. Head(p \o t) = Head(p)
  BY <1>1, <1>2, <1>4, <1>5
<1>7. /\ Tail(p) \o t \in Seq(Name) /\ Len(Tail(p) \o t) = Len(Tail(p)) + Len(t)
      /\ \A i \in 1..(Len(Tail(p)) + Len(t)) :
           (Tail(p) \o t)[i] = IF i <= Len(Tail(p)) THEN Tail(p)[i] ELSE t[i - Len(Tail(p))]
  BY <1>4, ConcatProperties
<1>8. Tail(p \o t) = Tail(p) \o t
  <2>1. PICK n \in Nat \ {0}, m \in Nat : n = Len(p) /\ m = Len(t)
    BY <1>2
  <2>2. Len(Tail(p \o t)) = n + m - 1 /\ Len(Tail(p) \o t) = n + m - 1
    BY <1>1, <1>4, <1>5, <1>7, <2>1
  <2>3. ASSUME NEW i \in 1..(n + m - 1)
        PROVE  Tail(p \o t)[i] = (Tail(p) \o t)[i]
    <3>1. Tail(p \o t)[i] = (p \o t)[i + 1]
      BY <1>5, <2>2
    <3>2. (p \o t)[i + 1] = IF i + 1 <= n THEN p[i + 1] ELSE t[i + 1 - n]
      BY <1>1, <2>1
    <3>3. (Tail(p) \o t)[i] = IF i <= n - 1 THEN Tail(p)[i] ELSE t[i - (n - 1)]
      BY <1>4, <1>7, <2>1
    <3>4. CASE i <= n - 1
      <4>1. i \in 1..Len(Tail(p)) /\ i + 1 <= n
        BY <1>4, <2>1, <3>4
      <4> QED BY <1>4, <3>1, <3>2, <3>3, <3>4, <4>1
    <3>5. CASE ~(i <= n - 1)
      <4>1. ~(i + 1 <= n) /\ i + 1 - n = i - (n - 1)
        BY <2>1, <3>5
      <4> QED BY <3>1, <3>2, <3>3, <3>5, <4>1
    <3> QED BY <3>4, <3>5
  <2> QED BY <1>5, <1>7, <2>2, <2>3, SeqEqual
<1> QED BY <1>1, <1>3, <1>4, <1>6, <1>8

(* One step of the reference, with t still to go after p.                  *)
LEMMA PlaceIs ==
  ASSUME NEW l \in 0..MaxNest, NEW o \in Obj, NEW p \in Seq(Name), p # <<>>, NEW t \in Seq(Name)
  PROVE  \E x \in Places :
           /\ x = Place(l, o, p \o t) /\ x.left = l /\ x.at = o
           /\ Head(x.path) = Head(p) /\ Tail(x.path) = Tail(p) \o t
           /\ Resolve[x] = IF Stuck(x) THEN Free ELSE Resolve[Beyond(x)]
<1>1. PICK q \in Seq(Name) : q = p \o t /\ q # <<>> /\ Head(q) = Head(p) /\ Tail(q) = Tail(p) \o t
  BY PathOn
<1>2. PICK x \in Places : x = Place(l, o, q)
  BY DEF Place, Places
<1>3. x.left = l /\ x.at = o /\ x.path = q
  BY <1>2 DEF Place
<1>4. Resolve[x] = IF Stuck(x) THEN Free ELSE Resolve[Beyond(x)]
  BY <1>1, <1>3, ResolveIs
<1> QED BY <1>1, <1>2, <1>3, <1>4

LEMMA GetsStuck ==
  ASSUME NEW l \in 0..MaxNest, NEW o \in Obj, NEW p \in Seq(Name), p # <<>>, NEW t \in Seq(Name),
         Type[o] # "DIRECTORY" \/ Head(p) \notin DOMAIN Entry[o]
  PROVE  Resolve[Place(l, o, p \o t)] = Free
<1>1. PICK x \in Places :
        /\ x = Place(l, o, p \o t) /\ x.at = o /\ Head(x.path) = Head(p)
        /\ Resolve[x] = IF Stuck(x) THEN Free ELSE Resolve[Beyond(x)]
  BY PlaceIs
<1> QED BY <1>1 DEF Stuck

LEMMA GoesOn ==
  ASSUME NEW l \in 0..MaxNest, NEW o \in Obj, NEW p \in Seq(Name), p # <<>>, NEW t \in Seq(Name),
         Type[o] = "DIRECTORY", Head(p) \in DOMAIN Entry[o],
         NEW e \in Obj, e = Entry[o][Head(p)]
  PROVE  /\ Type[e] # "SYMLINK" =>
              Resolve[Place(l, o, p \o t)] = Resolve[Place(l, e, Tail(p) \o t)]
         /\ Type[e] = "SYMLINK" /\ l = 0 => Resolve[Place(l, o, p \o t)] = Free
         /\ Type[e] = "SYMLINK" /\ l # 0 =>
              Resolve[Place(l, o, p \o t)] =
                Resolve[Place(l - 1, IF Target[e].abs THEN RootObj ELSE o,
                              Target[e].path \o (Tail(p) \o t))]
<1>1. PICK x \in Places :
        /\ x = Place(l, o, p \o t) /\ x.left = l /\ x.at = o
        /\ Head(x.path) = Head(p) /\ Tail(x.path) = Tail(p) \o t
        /\ Resolve[x] = IF Stuck(x) THEN Free ELSE Resolve[Beyond(x)]
  BY ONLY l \in 0..MaxNest, o \in Obj, p \in Seq(Name), p # <<>>, t \in Seq(Name), PlaceIs, SMTT(20)
<1>2. Child(x) = e
  BY <1>1 DEF Child
<1>3. Stuck(x) <=> Type[e] = "SYMLINK" /\ l = 0
  BY <1>1, <1>2 DEF Stuck
<1>4. Beyond(x) = IF Type[e] # "SYMLINK" THEN Place(l, e, Tail(p) \o t)
                  ELSE Place(l - 1, IF Target[e].abs THEN RootObj ELSE o,
                             Target[e].path \o (Tail(p) \o t))
  BY <1>1, <1>2 DEF Beyond
<1> QED BY <1>1, <1>3, <1>4

LEMMA GoesNowhere ==
  ASSUME NEW l \in 0..MaxNest, NEW o \in Obj
  PROVE  Resolve[Place(l, o, <<>>)] = o
<1>1. <<>> \in Seq(Name)
  BY EmptySeq
<1>2. PICK x \in Places : x = Place(l, o, <<>>)
  BY <1>1 DEF Place, Places
<1>3. x.at = o /\ x.path = <<>>
  BY <1>2 DEF Place
<1> QED BY <1>2, <1>3, ResolveIs

-----------------------------------------------------------------------------
(***************************************************************************)
(* What is still to go is what the frames have left, the innermost first;  *)
(* from where the innermost is, that leads where the whole path led from   *)
(* the root.  A link to "/" is found with no type.                         *)
(***************************************************************************)
Tails(st, c) ==
  /\ c \in [1..Len(st) -> Seq(Name)]
  /\ Len(st) # 0 => c[1] = <<>>
  /\ \A k \in 1..(Len(st) - 1) : c[k + 1] = Tail(st[k].rest) \o c[k]

Left == MaxNest - 1 - nest

Reach(o, path) == Expected = Resolve[Place(Left, o, path)]

TypeFits(type, o) == type = Type[o] \/ ("root" \in fault /\ type \in {"SYMLINK", Unset})

Sound(f, t) ==
  /\ f.at = "search" =>
       /\ Reach(Object(f.node), f.rest \o t) /\ TypeFits(f.type, Object(f.node))
       /\ f.rest = <<>> => Len(stack) = 1 \/ "root" \in fault
  /\ f.at = "link" =>
       /\ Type[Object(f.old)] = "DIRECTORY" /\ Head(f.rest) \in DOMAIN Entry[Object(f.old)]
       /\ Object(f.node) = Entry[Object(f.old)][Head(f.rest)]
       /\ Reach(Object(f.old), f.rest \o t)
  /\ f.at = "found" =>
       Reach(Object(f.node), Tail(f.rest) \o t) /\ TypeFits(f.type, Object(f.node))
  /\ f.at = "call" =>
       Reach(Object(ret.node), Tail(f.rest) \o t) /\ TypeFits(ret.type, Object(ret.node))

OnPath ==
  /\ ret.status = 0 => fault # {} \/ Expected = Free
  /\ (~Astray /\ ret.status # 0) =>
       /\ stack # <<>> => \E c : Tails(stack, c) /\ Sound(Top, c[Len(stack)])
       /\ (stack = <<>> /\ ret.status = 1) => Expected = Object(ret.node)

LEMMA LeftIs ==
  ASSUME LookupOK, ret.status # 0
  PROVE  Left \in 0..MaxNest /\ (nest + 1 = MaxNest <=> Left = 0)
<1>1. nest \in 0..MaxNest /\ nest # MaxNest /\ MaxNest \in Nat \ {0}
  BY MemoryAssumption DEF LookupOK, Counted
<1> QED BY <1>1 DEF Left

LEMMA ExpectedKept ==
  /\ op' = op => Expected' = Expected
  /\ nest' = nest => Left' = Left
BY DEF Expected, Left

LEMMA OnPathTop ==
  ASSUME LookupOK, OnPath, stack # <<>>, ~Astray, ret.status # 0
  PROVE  \E c : \E t \in Seq(Name) : Tails(stack, c) /\ t = c[Len(stack)] /\ Sound(Top, t)
<1>1. PICK c : Tails(stack, c) /\ Sound(Top, c[Len(stack)])
  BY DEF OnPath
<1>2. Len(stack) \in 1..Len(stack)
  BY TopIs DEF LookupOK, Shape
<1>3. c[Len(stack)] \in Seq(Name)
  BY <1>1, <1>2 DEF Tails
<1> QED BY <1>1, <1>3

LEMMA FailLeads ==
  ASSUME ret'.status = 0, fault' # {} \/ Expected' = Free
  PROVE  OnPath'
BY DEF OnPath

LEMMA TailsIs ==
  ASSUME NEW st, NEW c, NEW m \in Nat, Len(st) = m + 1
  PROVE  Tails(st, c) <=>
           /\ c \in [1..(m + 1) -> Seq(Name)] /\ c[1] = <<>>
           /\ \A k \in 1..m : c[k + 1] = Tail(st[k].rest) \o c[k]
<1>1. (m + 1) - 1 = m /\ m + 1 # 0
  OBVIOUS
<1> QED BY <1>1 DEF Tails

LEMMA ReturnLeads ==
  ASSUME LookupOK, stack # <<>>, NEW c, Tails(stack, c), NEW t, t = c[Len(stack)],
         NEW r, NEW type, Return(1, r, type), NEW o \in Obj, Object(r)' = o,
         Reach(o, t), Len(stack) = 1 \/ TypeFits(type, o), op' = op, nest' = nest,
         fault' = fault, Left \in 0..MaxNest
  PROVE  OnPath'
<1>1. ShapeIn(stack) /\ ShapeIn(Pop) /\ Len(Pop) = Len(stack) - 1
  <2>1. PICK hp : hp = heap
    OBVIOUS
  <2>2. Same(hp, Owns(Top))
    BY <2>1 DEF Same
  <2>3. ShapeIn(Pop) /\ Len(Pop) = Len(stack) - 1
    BY <2>2, Popped
  <2> QED BY <2>3 DEF LookupOK, Shape
<1>2. ret'.status = 1 /\ ret'.node = r /\ ret'.type = type /\ stack' = Pop
  BY DEF Return
<1>3. PICK n \in Nat \ {0} : n = Len(stack)
  BY <1>1, TopIs
<1>4. Reach(o, t)' /\ Expected' = Expected
  BY ExpectedKept DEF Reach
<1>5. CASE n = 1
  <2>1. t = <<>> /\ stack' = <<>>
    <3>1. Pop \in Seq(Frames) /\ Len(Pop) = 0
      BY <1>1, <1>3, <1>5, PopIs
    <3>2. Pop = <<>>
      BY <3>1, EmptySeq
    <3> QED BY <1>2, <1>3, <1>5, <3>2 DEF Tails
  <2>2. Expected' = o
    <3>1. PICK l \in 0..MaxNest : l = Left
      OBVIOUS
    <3> QED BY <1>4, <2>1, <3>1, GoesNowhere DEF Reach
  <2> QED BY <1>2, <2>1, <2>2 DEF OnPath
<1>6. CASE n # 1
  <2>1. PICK m \in Nat : m # 0 /\ n = m + 1 /\ m = Len(Pop)
    BY <1>1, <1>3, <1>6
  <2>2. /\ Pop \in Seq(Frames) /\ \A k \in 1..m : Pop[k] = stack[k]
        /\ Pop # <<>> /\ Pop[m].at = "call"
    <3>1. \A k \in 1..m : Pop[k] = stack[k]
      BY <1>1, <1>3, <2>1, PopIs
    <3>2. m \in 1..m /\ m \in 1..(n - 1)
      BY <2>1
    <3>3. Pop # <<>>
      BY <2>1, EmptySeq
    <3>4. stack[m].at = "call"
      BY <1>1, <1>3, <3>2 DEF ShapeIn
    <3> QED BY <1>1, <3>1, <3>2, <3>3, <3>4 DEF ShapeIn
  <2>0. PICK p \in Frames : p = Pop[m]
    <3>1. m \in 1..m
      BY <2>1
    <3> QED BY <2>1, <2>2, <3>1, ElementOfSeq
  <2>3. PICK d : d = [k \in 1..m |-> c[k]]
    OBVIOUS
  <2>4. Tails(Pop, d) /\ t = Tail(p.rest) \o d[m]
    <3>1. /\ c \in [1..n -> Seq(Name)] /\ c[1] = <<>>
          /\ \A k \in 1..m : c[k + 1] = Tail(stack[k].rest) \o c[k]
      <4>1. PICK st : st = stack
        OBVIOUS
      <4>2. Len(st) = m + 1
        BY <1>3, <2>1, <4>1
      <4>3. Tails(st, c)
        BY <4>1
      <4>4. /\ c \in [1..(m + 1) -> Seq(Name)] /\ c[1] = <<>>
            /\ \A k \in 1..m : c[k + 1] = Tail(st[k].rest) \o c[k]
        <5>1. (m + 1) - 1 = m /\ m + 1 # 0
          OBVIOUS
        <5> QED BY <4>2, <4>3, <5>1 DEF Tails
      <4> QED BY <2>1, <4>1, <4>4
    <3>2. /\ 1..m \subseteq 1..n /\ 1 \in 1..m /\ m \in 1..m
          /\ \A k \in 1..(m - 1) : k \in 1..m /\ k + 1 \in 1..m
      BY <2>1
    <3>3. d \in [1..m -> Seq(Name)] /\ d[1] = <<>> /\ d[m] = c[m]
      BY <2>3, <3>1, <3>2
    <3>4. \A k \in 1..(m - 1) : d[k + 1] = Tail(Pop[k].rest) \o d[k]
      BY <2>2, <2>3, <3>1, <3>2
    <3>5. t = Tail(p.rest) \o d[m]
      BY <1>3, <2>0, <2>1, <2>2, <3>1, <3>2, <3>3
    <3> QED BY <2>1, <3>3, <3>4, <3>5 DEF Tails
  <2>5. TypeFits(type, o)
    BY <1>3, <1>6
  <2>6. PICK s : s = d[m]
    OBVIOUS
  <2>7. Sound(p, s)'
    <3>1. p.at = "call" /\ t = Tail(p.rest) \o s
      BY <2>0, <2>2, <2>4, <2>6
    <3>2. Reach(Object(ret.node), Tail(p.rest) \o s)' /\ TypeFits(ret.type, Object(ret.node))'
      BY <1>2, <1>4, <2>5, <3>1 DEF Reach, TypeFits
    <3> QED BY <3>1, <3>2 DEF Sound
  <2>8. Tails(stack, d)' /\ Sound(Top, d[Len(stack)])'
    <3>1. Len(stack') = m /\ Top' = p
      BY <1>2, <2>0, <2>1 DEF Top
    <3> QED BY <1>2, <2>4, <2>6, <2>7, <3>1 DEF Tails, Sound
  <2> QED BY <1>2, <2>2, <2>8 DEF OnPath
<1> QED BY <1>5, <1>6

LEMMA MoveLeads ==
  ASSUME LookupOK, stack # <<>>, NEW c, Tails(stack, c), NEW t, t = c[Len(stack)],
         NEW f \in Frames, stack' = SetTop(f), ret' = NoRet, Sound(f, t)'
  PROVE  OnPath'
<1>1. ShapeIn(stack)
  BY DEF LookupOK, Shape
<1>2. PICK n \in Nat \ {0} : n = Len(stack)
  BY <1>1, TopIs
<1>3. /\ stack' \in Seq(Frames) /\ Len(stack') = n /\ stack'[n] = f
      /\ \A k \in 1..(n - 1) : stack'[k] = stack[k]
  BY <1>1, <1>2, SetTopIs
<1>4. Tails(stack, c)'
  BY <1>2, <1>3 DEF Tails
<1>5. Sound(Top, c[Len(stack)])'
  BY <1>2, <1>3 DEF Top
<1>6. ret'.status # 0 /\ ret'.status # 1
  BY NoNodeIs
<1>7. stack' # <<>>
  BY <1>2, <1>3, EmptySeq
<1> QED BY <1>4, <1>5, <1>6, <1>7 DEF OnPath

LEMMA PushLeads ==
  ASSUME LookupOK, stack # <<>>, NEW c, Tails(stack, c), NEW t \in Seq(Name), t = c[Len(stack)],
         NEW f \in Frames, f.rest # <<>>, NEW g \in Frames, stack' = Append(SetTop(f), g),
         ret' = NoRet, Sound(g, Tail(f.rest) \o t)'
  PROVE  OnPath'
<1>1. ShapeIn(stack)
  BY DEF LookupOK, Shape
<1>2. PICK n \in Nat \ {0} : n = Len(stack)
  BY <1>1, TopIs
<1>3. PICK st \in Seq(Frames) : st = SetTop(f) /\ Len(st) = n /\ st[n] = f
          /\ \A k \in 1..(n - 1) : st[k] = stack[k]
  BY <1>1, <1>2, SetTopIs
<1>4. /\ stack' \in Seq(Frames) /\ Len(stack') = n + 1 /\ stack'[n + 1] = g /\ stack' # <<>>
      /\ \A k \in 1..n : stack'[k] = st[k]
  BY <1>3, AppendIs
<1>5. PICK s \in Seq(Name) : s = Tail(f.rest) \o t
  <2>1. Tail(f.rest) \in Seq(Name)
    BY HeadTailProperties DEF Frames
  <2> QED BY <2>1, ConcatProperties
<1>6. PICK d : d = [k \in 1..(n + 1) |-> IF k = n + 1 THEN s ELSE c[k]]
  OBVIOUS
<1>7. /\ c \in [1..n -> Seq(Name)] /\ c[1] = <<>>
      /\ \A k \in 1..(n - 1) : c[k + 1] = Tail(stack[k].rest) \o c[k]
  BY <1>2 DEF Tails
<1>8. /\ \A k \in 1..(n + 1) : k # n + 1 => k \in 1..n
      /\ \A k \in 1..n : k \in 1..(n + 1) /\ k # n + 1 /\ k + 1 \in 1..(n + 1)
      /\ \A k \in 1..n : k # n => k \in 1..(n - 1) /\ k + 1 # n + 1 /\ k + 1 \in 1..n
      /\ 1 \in 1..n /\ n + 1 \in 1..(n + 1) /\ n \in 1..n /\ n + 1 - 1 = n /\ n + 1 # 0
  BY <1>2
<1>9. d[n + 1] = s /\ \A k \in 1..n : d[k] = c[k]
  BY <1>6, <1>8
<1>10. d \in [1..(n + 1) -> Seq(Name)] /\ d[1] = <<>>
  BY <1>6, <1>7, <1>8
<1>11. ASSUME NEW k \in 1..n
       PROVE  d[k + 1] = Tail(stack'[k].rest) \o d[k]
  <2>1. CASE k = n
    BY <1>2, <1>3, <1>4, <1>5, <1>8, <1>9, <2>1
  <2>2. CASE k # n
    <3>1. d[k + 1] = c[k + 1] /\ d[k] = c[k] /\ stack'[k] = stack[k] /\ k \in 1..(n - 1)
      BY <1>3, <1>4, <1>8, <1>9, <2>2
    <3> QED BY <1>7, <3>1
  <2> QED BY <2>1, <2>2
<1>12. Tails(stack, d)'
  <2>1. PICK q : q = stack'
    OBVIOUS
  <2>2. Tails(q, d)
    BY <1>4, <1>10, <1>11, <2>1, TailsIs
  <2> QED BY <2>1, <2>2 DEF Tails
<1>13. Sound(Top, d[Len(stack)])'
  BY <1>4, <1>5, <1>9 DEF Top
<1>14. ret'.status # 0 /\ ret'.status # 1
  BY NoNodeIs
<1> QED BY <1>4, <1>12, <1>13, <1>14 DEF OnPath

-----------------------------------------------------------------------------
(* A node that is not given back goes on describing what it did.           *)
LEMMA ObjectKept ==
  ASSUME heap \in [Node -> Obj \cup {Free}], NEW r \in Node \cup {Root}, NEW refs, NEW root,
         heap' = Freed(refs, root), r \in Node => r \notin refs \ {root}
  PROVE  Object(r)' = Object(r)
BY FreedIs DEF Object

LEMMA OldObject ==
  ASSUME LookupOK, stack # <<>>, Top.old # NoNode
  PROVE  Object(Top.old) \in Obj /\ Top.old \in Node \cup {Root}
<1>1. Top.old \in Node \cup {Root}
  BY TopOf DEF Frames, Ref
<1>2. Top.old \in Node => heap[Top.old] # Free
  BY TopOf DEF Owns
<1> QED BY <1>1, <1>2, TopOf, TreeAssumption, NoNodeIs DEF Object

(* The innermost frame at its search.                                      *)
LEMMA AtSearch ==
  ASSUME LookupOK, OnPath, stack # <<>>, ~Astray, ret = NoRet, Top.at = "search"
  PROVE  \E c : \E t \in Seq(Name) : \E o \in Obj : \E l \in 0..MaxNest :
           /\ Tails(stack, c) /\ t = c[Len(stack)] /\ o = Object(Top.node) /\ l = Left
           /\ Top.rest \in Seq(Name) /\ Expected = Resolve[Place(l, o, Top.rest \o t)]
           /\ TypeFits(Top.type, o) /\ (Top.rest = <<>> => Len(stack) = 1 \/ "root" \in fault)
<1>1. ret.status # 0 /\ Top \in Frames /\ Top.node # NoNode
  BY TopOf, NoNodeIs DEF FrameOK
<1>2. PICK c : \E t \in Seq(Name) : Tails(stack, c) /\ t = c[Len(stack)] /\ Sound(Top, t)
  BY <1>1, OnPathTop
<1>3. PICK t \in Seq(Name) : Tails(stack, c) /\ t = c[Len(stack)] /\ Sound(Top, t)
  BY <1>2
<1>4. PICK o \in Obj, l \in 0..MaxNest : o = Object(Top.node) /\ l = Left
  BY <1>1, TopObject, LeftIs
<1>5. Top.rest \in Seq(Name)
  BY <1>1 DEF Frames
<1> QED BY <1>3, <1>4, <1>5 DEF Sound, Reach

(* ... at a link it is about to follow.                                    *)
LEMMA AtLink ==
  ASSUME LookupOK, OnPath, stack # <<>>, ~Astray, ret = NoRet, Top.at = "link"
  PROVE  \E c : \E t \in Seq(Name) : \E o, e \in Obj : \E l \in 0..MaxNest :
           /\ Tails(stack, c) /\ t = c[Len(stack)] /\ l = Left
           /\ o = Object(Top.old) /\ e = Object(Top.node)
           /\ Top.rest \in Seq(Name) /\ Top.rest # <<>>
           /\ Type[e] = "SYMLINK" /\ Type[o] = "DIRECTORY"
           /\ l = 0 => Expected = Free
           /\ l # 0 => Expected = Resolve[Place(l - 1, IF Target[e].abs THEN RootObj ELSE o,
                                                Target[e].path \o (Tail(Top.rest) \o t))]
<1>1. /\ ret.status # 0 /\ Top \in Frames /\ Top.node # NoNode /\ Top.old # NoNode
      /\ Top.rest # <<>> /\ Top.node \in Node
  BY TopOf, NoNodeIs DEF FrameOK
<1>2. PICK c : \E t \in Seq(Name) : Tails(stack, c) /\ t = c[Len(stack)] /\ Sound(Top, t)
  BY <1>1, OnPathTop
<1>3. PICK t \in Seq(Name) : Tails(stack, c) /\ t = c[Len(stack)] /\ Sound(Top, t)
  BY <1>2
<1>4. PICK o \in Obj, e \in Obj, l \in 0..MaxNest :
        o = Object(Top.old) /\ e = Object(Top.node) /\ l = Left
  BY <1>1, TopObject, OldObject, LeftIs
<1>5. PICK p \in Seq(Name) : p = Top.rest
  BY <1>1 DEF Frames
<1>6. /\ Type[o] = "DIRECTORY" /\ Head(p) \in DOMAIN Entry[o] /\ e = Entry[o][Head(p)]
      /\ Expected = Resolve[Place(l, o, p \o t)]
  BY <1>3, <1>4, <1>5 DEF Sound, Reach
<1>7. Type[e] = "SYMLINK"
  BY <1>1, <1>4, NoNodeIs DEF LookupOK, Linked, Object
<1>8. /\ l = 0 => Resolve[Place(l, o, p \o t)] = Free
      /\ l # 0 => Resolve[Place(l, o, p \o t)] =
           Resolve[Place(l - 1, IF Target[e].abs THEN RootObj ELSE o,
                         Target[e].path \o (Tail(p) \o t))]
  BY <1>1, <1>5, <1>6, <1>7, GoesOn, SMTT(20)
<1>9. /\ l = 0 => Expected = Free
      /\ l # 0 => Expected = Resolve[Place(l - 1, IF Target[e].abs THEN RootObj ELSE o,
                                           Target[e].path \o (Tail(Top.rest) \o t))]
  BY <1>5, <1>6, <1>8
<1>10. Top.rest \in Seq(Name) /\ Top.rest # <<>> /\ Type[o] = "DIRECTORY"
  BY <1>1, <1>5, <1>6
<1> QED BY <1>3, <1>4, <1>7, <1>9, <1>10

LEMMA EmptyPathLeads ==
  ASSUME LookupOK, OnPath, EmptyPath
  PROVE  OnPath'
<1>1. /\ stack # <<>> /\ ret = NoRet /\ Top.at = "search" /\ Top.rest = <<>>
      /\ Return(1, Top.node, Unset) /\ heap' = heap /\ nest' = nest /\ op' = op /\ fault' = fault
  BY DEF EmptyPath, Running
<1>2. CASE Astray
  <2>1. ret'.status = 1
    BY <1>1 DEF Return
  <2> QED BY <1>1, <1>2, <2>1 DEF OnPath, Astray
<1>3. CASE ~Astray
  <2>1. PICK c : \E t \in Seq(Name) : \E o \in Obj : \E l \in 0..MaxNest :
           /\ Tails(stack, c) /\ t = c[Len(stack)] /\ o = Object(Top.node) /\ l = Left
           /\ Top.rest \in Seq(Name) /\ Expected = Resolve[Place(l, o, Top.rest \o t)]
           /\ TypeFits(Top.type, o) /\ (Top.rest = <<>> => Len(stack) = 1 \/ "root" \in fault)
    BY <1>1, <1>3, AtSearch
  <2>2. PICK t \in Seq(Name), o \in Obj, l \in 0..MaxNest :
           /\ Tails(stack, c) /\ t = c[Len(stack)] /\ o = Object(Top.node) /\ l = Left
           /\ Expected = Resolve[Place(l, o, Top.rest \o t)]
           /\ Len(stack) = 1 \/ "root" \in fault
    BY <1>1, <2>1
  <2>3. Top.rest \o t = t
    BY <1>1, ConcatEmptySeq
  <2>4. PICK r, type : r = Top.node /\ type = Unset
    OBVIOUS
  <2>5. Reach(o, t) /\ Left \in 0..MaxNest
    BY <2>2, <2>3 DEF Reach
  <2>6. Object(r)' = o /\ Return(1, r, type)
    BY <1>1, <2>2, <2>4 DEF Object
  <2>7. Len(stack) = 1 \/ TypeFits(type, o)
    BY <2>2, <2>4 DEF TypeFits
  <2> QED BY <1>1, <2>2, <2>5, <2>6, <2>7, ReturnLeads
<1> QED BY <1>2, <1>3

LEMMA NotDirectoryLeads ==
  ASSUME LookupOK, OnPath, NotDirectory
  PROVE  OnPath'
<1>1. /\ stack # <<>> /\ ret = NoRet /\ Top.at = "search" /\ Top.rest # <<>>
      /\ Top.type # "DIRECTORY" /\ ret'.status = 0 /\ op' = op /\ fault' = fault
  BY DEF NotDirectory, Running, Return
<1>2. CASE fault = {}
  <2>1. PICK c : \E t \in Seq(Name) : \E o \in Obj : \E l \in 0..MaxNest :
           /\ Tails(stack, c) /\ t = c[Len(stack)] /\ o = Object(Top.node) /\ l = Left
           /\ Top.rest \in Seq(Name) /\ Expected = Resolve[Place(l, o, Top.rest \o t)]
           /\ TypeFits(Top.type, o) /\ (Top.rest = <<>> => Len(stack) = 1 \/ "root" \in fault)
    BY <1>1, <1>2, AtSearch DEF Astray
  <2>2. PICK t \in Seq(Name), o \in Obj, l \in 0..MaxNest, p \in Seq(Name) :
           /\ p = Top.rest /\ Expected = Resolve[Place(l, o, p \o t)] /\ TypeFits(Top.type, o)
    BY <2>1
  <2>3. Type[o] # "DIRECTORY"
    BY <1>1, <1>2, <2>2 DEF TypeFits
  <2>4. Expected = Free
    BY <1>1, <2>2, <2>3, GetsStuck
  <2> QED BY <1>1, <2>4, ExpectedKept, FailLeads
<1> QED BY <1>1, <1>2, FailLeads

LEMMA SearchFailsLeads ==
  ASSUME LookupOK, OnPath, SearchFails
  PROVE  OnPath'
<1>1. /\ stack # <<>> /\ ret = NoRet /\ Top.at = "search" /\ Top.rest # <<>>
      /\ ret'.status = 0 /\ op' = op
      /\ \/ Head(Top.rest) \notin Names(Top.node) /\ fault' = fault
         \/ fault' # {}
  BY DEF SearchFails, Searching, Running, Return, Failing, Misled
<1>2. CASE ~Astray /\ Head(Top.rest) \notin Names(Top.node)
  <2>1. PICK c : \E t \in Seq(Name) : \E o \in Obj : \E l \in 0..MaxNest :
           /\ Tails(stack, c) /\ t = c[Len(stack)] /\ o = Object(Top.node) /\ l = Left
           /\ Top.rest \in Seq(Name) /\ Expected = Resolve[Place(l, o, Top.rest \o t)]
           /\ TypeFits(Top.type, o) /\ (Top.rest = <<>> => Len(stack) = 1 \/ "root" \in fault)
    BY <1>1, <1>2, AtSearch
  <2>2. PICK t \in Seq(Name), o \in Obj, l \in 0..MaxNest, p \in Seq(Name) :
           p = Top.rest /\ Expected = Resolve[Place(l, o, p \o t)] /\ o = Object(Top.node)
    BY <2>1
  <2>3. Head(p) \notin DOMAIN Entry[o]
    BY <1>2, <2>2 DEF Names
  <2>4. Expected = Free
    BY <1>1, <2>2, <2>3, GetsStuck
  <2> QED BY <1>1, <2>4, ExpectedKept, FailLeads
<1> QED BY <1>1, <1>2, FailLeads DEF Astray

LEMMA LinkFailsLeads ==
  ASSUME LookupOK, OnPath, NestExceeded \/ LinkUnreadable
  PROVE  OnPath'
<1>1. /\ stack # <<>> /\ ret = NoRet /\ Top.at = "link" /\ ret'.status = 0 /\ op' = op
      /\ (nest + 1 = MaxNest /\ fault' = fault) \/ fault' # {}
  BY DEF NestExceeded, LinkUnreadable, Running, Return, Failing
<1>2. CASE ~Astray /\ nest + 1 = MaxNest
  <2>1. Left = 0
    BY <1>1, <1>2, LeftIs, NoNodeIs
  <2>2. Expected = Free
    <3>1. PICK c : \E t \in Seq(Name) : \E o, e \in Obj : \E l \in 0..MaxNest :
           /\ Tails(stack, c) /\ t = c[Len(stack)] /\ l = Left
           /\ o = Object(Top.old) /\ e = Object(Top.node)
           /\ Top.rest \in Seq(Name) /\ Top.rest # <<>>
           /\ Type[e] = "SYMLINK" /\ Type[o] = "DIRECTORY"
           /\ l = 0 => Expected = Free
           /\ l # 0 => Expected = Resolve[Place(l - 1, IF Target[e].abs THEN RootObj ELSE o,
                                                Target[e].path \o (Tail(Top.rest) \o t))]
      BY <1>1, <1>2, AtLink
    <3> QED BY <2>1, <3>1
  <2> QED BY <1>1, <2>2, ExpectedKept, FailLeads
<1> QED BY <1>1, <1>2, FailLeads DEF Astray

LEMMA SearchFindsLeads ==
  ASSUME LookupOK, OnPath, SearchFinds
  PROVE  OnPath'
<1>1. /\ stack # <<>> /\ Top.at = "search" /\ ret = NoRet /\ Top.rest # <<>>
      /\ Top.type = "DIRECTORY"
      /\ Head(Top.rest) \in Names(Top.node) /\ \E m \in Node : heap[m] = Free
  BY DEF SearchFinds, Searching, Running
<1>2. PICK n \in Node : n = (CHOOSE m \in Node : heap[m] = Free) /\ heap[n] = Free
  BY <1>1
<1>3. /\ Top \in Frames /\ FrameOK(Top) /\ heap \in [Node -> Obj \cup {Free}]
      /\ Top.node # NoNode /\ Top.node \in Node \cup {Root}
  BY <1>1, TopOf DEF FrameOK, Frames, Ref
<1>4. PICK found : found = FirstEntry(Top.node, Head(Top.rest))
  OBVIOUS
<1>5. /\ heap' = [heap EXCEPT ![n] = found]
      /\ stack' = SetTop([Top EXCEPT
           !.old = Top.node, !.node = n, !.type = Type[found],
           !.at = IF Type[found] = "SYMLINK" THEN "link" ELSE "found"])
      /\ nest' = nest /\ ret' = ret /\ op' = op
      /\ fault' = IF Head(Top.rest) \in StaleNames(Top.node)
                  THEN fault \cup {"deleted"} ELSE fault
  BY <1>2, <1>4 DEF SearchFinds, Misled
<1>6. CASE Astray'
  BY <1>1, <1>5, <1>6, NoNodeIs DEF OnPath
<1>7. CASE ~Astray'
  <2>0. ~Astray /\ fault' = fault /\ Head(Top.rest) \notin StaleNames(Top.node)
    BY <1>5, <1>7 DEF Astray
  <2>1. PICK c : \E t \in Seq(Name) : \E o \in Obj : \E l \in 0..MaxNest :
           /\ Tails(stack, c) /\ t = c[Len(stack)] /\ o = Object(Top.node) /\ l = Left
           /\ Top.rest \in Seq(Name) /\ Expected = Resolve[Place(l, o, Top.rest \o t)]
           /\ TypeFits(Top.type, o) /\ (Top.rest = <<>> => Len(stack) = 1 \/ "root" \in fault)
    BY <1>1, <2>0, AtSearch
  <2>2. PICK t \in Seq(Name), o \in Obj, l \in 0..MaxNest, p \in Seq(Name) :
           /\ p = Top.rest /\ Expected = Resolve[Place(l, o, p \o t)] /\ o = Object(Top.node)
           /\ Tails(stack, c) /\ t = c[Len(stack)] /\ l = Left /\ TypeFits(Top.type, o)
    BY <2>1
  <2>3. Type[o] = "DIRECTORY" /\ Head(p) \in DOMAIN Entry[o]
    BY <1>1, <2>0, <2>2 DEF TypeFits, Names, Unset
  <2>4. PICK e \in Obj : e = Entry[o][Head(p)] /\ e = found
    BY <1>4, <2>0, <2>2, <2>3, TreeAssumption DEF FirstEntry
  <2>5. Type[e] # "SYMLINK" => Expected = Resolve[Place(l, e, Tail(p) \o t)]
    <3>1. p # <<>>
      BY <1>1, <2>2
    <3>2. Type[e] # "SYMLINK" =>
            Resolve[Place(l, o, p \o t)] = Resolve[Place(l, e, Tail(p) \o t)]
      BY <2>3, <2>4, <3>1, GoesOn
    <3> QED BY <2>2, <3>2
  <2>6. PICK y \in FileType, a \in {"link", "found"} :
          y = Type[e] /\ a = IF Type[e] = "SYMLINK" THEN "link" ELSE "found"
    BY TreeAssumption
  <2>7. PICK f \in Frames : f = [Top EXCEPT !.old = Top.node, !.node = n, !.type = y, !.at = a]
    BY <1>3, <2>6 DEF Frames, Ref
  <2>8. f.rest = p /\ f.node = n /\ f.old = Top.node /\ f.type = y /\ f.at = a
    BY <1>3, <2>2, <2>7 DEF Frames
  <2>9. stack' = SetTop(f)
    BY <1>5, <2>4, <2>6, <2>7
  <2>10. Object(n)' = e /\ Object(f.old)' = o
    <3>1. Top.node \in Node => heap[Top.node] # Free
      BY <1>1, TopOf DEF Owns
    <3>2. Top.node # n /\ n # Root
      BY <1>2, <3>1, MemoryAssumption
    <3> QED BY <1>3, <1>5, <2>2, <2>4, <2>8, <3>2 DEF Object
  <2>11. Expected' = Expected /\ Left' = l
    BY <1>5, <2>2, ExpectedKept
  <2>12. Sound(f, t)'
    <3>1. CASE Type[e] = "SYMLINK"
      <4>1. f.at = "link"
        BY <2>6, <2>8, <3>1
      <4>2. Reach(Object(f.old), f.rest \o t)'
        BY <2>2, <2>8, <2>10, <2>11 DEF Reach
      <4> QED BY <2>3, <2>4, <2>8, <2>10, <4>1, <4>2 DEF Sound
    <3>2. CASE Type[e] # "SYMLINK"
      <4>1. f.at = "found"
        BY <2>6, <2>8, <3>2
      <4>2. Reach(Object(f.node), Tail(f.rest) \o t)' /\ TypeFits(f.type, Object(f.node))'
        BY <2>5, <2>6, <2>8, <2>10, <2>11, <3>2 DEF Reach, TypeFits
      <4> QED BY <4>1, <4>2 DEF Sound
    <3> QED BY <3>1, <3>2
  <2>13. ret' = NoRet
    BY <1>1, <1>5
  <2> QED BY <1>1, <2>2, <2>9, <2>12, <2>13, MoveLeads
<1> QED BY <1>6, <1>7

LEMMA FollowLeads ==
  ASSUME LookupOK, OnPath, Follow, Intact'
  PROVE  OnPath'
<1>1. /\ stack # <<>> /\ Top.at = "link" /\ ret = NoRet /\ ret' = ret /\ op' = op
      /\ nest + 1 # MaxNest /\ nest' = nest + 1
  BY DEF Follow, Running
<1>2. CASE Astray'
  BY <1>1, <1>2, NoNodeIs DEF OnPath
<1>3. CASE ~Astray'
  <2>1. ~Astray
    BY <1>3 DEF Follow, Astray
  <2>2. PICK c : \E t \in Seq(Name) : \E o, e \in Obj : \E l \in 0..MaxNest :
           /\ Tails(stack, c) /\ t = c[Len(stack)] /\ l = Left
           /\ o = Object(Top.old) /\ e = Object(Top.node)
           /\ Top.rest \in Seq(Name) /\ Top.rest # <<>>
           /\ Type[e] = "SYMLINK" /\ Type[o] = "DIRECTORY"
           /\ l = 0 => Expected = Free
           /\ l # 0 => Expected = Resolve[Place(l - 1, IF Target[e].abs THEN RootObj ELSE o,
                                                Target[e].path \o (Tail(Top.rest) \o t))]
    BY <1>1, <2>1, AtLink
  <2>3. PICK t \in Seq(Name), o \in Obj, e \in Obj, l \in 0..MaxNest :
           /\ Tails(stack, c) /\ t = c[Len(stack)] /\ l = Left
           /\ o = Object(Top.old) /\ e = Object(Top.node)
           /\ Top.rest \in Seq(Name) /\ Top.rest # <<>>
           /\ Type[e] = "SYMLINK" /\ Type[o] = "DIRECTORY"
           /\ l # 0 => Expected = Resolve[Place(l - 1, IF Target[e].abs THEN RootObj ELSE o,
                                                Target[e].path \o (Tail(Top.rest) \o t))]
    BY <2>2
  <2>4. l # 0 /\ Left' = l - 1
    BY <1>1, <2>3, LeftIs, NoNodeIs, MemoryAssumption DEF Left, LookupOK, Counted
  <2>5. PICK link : link = Target[e] /\ link.abs \in BOOLEAN /\ link.path \in Seq(Name)
    BY TreeAssumption
  <2>6. PICK old : old = IF link.abs THEN Root ELSE Top.old
    OBVIOUS
  <2>7. /\ heap' = Freed({Top.node} \cup IF link.abs THEN {Top.old} ELSE {}, Top.root)
        /\ stack' = Append(SetTop([Top EXCEPT !.node = NoNode, !.old = old, !.at = "call"]),
                           Frame(link.path, old))
        /\ link.path = <<>> => "root" \in fault'
    <3>1. PICK whole : whole = Target[e]
      OBVIOUS
    <3>2. PICK l2 \in {whole} \cup Torn[e] :
            \E o2 :
              /\ o2 = (IF l2.abs THEN Root ELSE Top.old)
              /\ heap' = Freed({Top.node} \cup IF l2.abs THEN {Top.old} ELSE {}, Top.root)
              /\ stack' = Append(SetTop([Top EXCEPT !.node = NoNode, !.old = o2, !.at = "call"]),
                                 Frame(l2.path, o2))
              /\ fault' = fault \cup LinkFault(l2, whole, o2)
      BY <2>3, <3>1 DEF Follow
    <3>3. l2 = whole
      BY <1>3, <3>2 DEF LinkFault, Astray
    <3>4. fault' = fault \cup LinkFault(link, whole, old)
      BY <2>5, <2>6, <3>1, <3>2, <3>3
    <3>5. link.path = <<>> => "root" \in fault' \/ "empty" \in fault'
      BY <3>4 DEF LinkFault
    <3>6. "empty" \notin fault'
      BY DEF Intact
    <3> QED BY <2>5, <2>6, <3>1, <3>2, <3>3, <3>5, <3>6
  <2>8. /\ Top \in Frames /\ Top.old # NoNode /\ Top.rest # <<>> /\ Top.node \in Node
        /\ Top.node # Top.root /\ heap \in [Node -> Obj \cup {Free}]
        /\ (Top.node = Top.old => Top.node \notin Owns(Top))
    BY <1>1, TopOf DEF FrameOK, Frees
  <2>9. Top.node # Top.old
    BY <2>8 DEF Owns
  <2>10. Top.old \in Node \cup {Root} /\ old \in Node \cup {Root}
    BY <1>1, <2>6, <2>8, OldObject
  <2>11. PICK at \in Obj : at = (IF link.abs THEN RootObj ELSE o) /\ Object(old)' = at
    <3>1. CASE link.abs
      BY <2>6, <3>1, TreeAssumption DEF Object
    <3>2. CASE ~link.abs
      <4>1. PICK r \in Node \cup {Root} : r = Top.old
        BY <2>10
      <4>2. PICK refs, root : refs = {Top.node} /\ root = Top.root
        OBVIOUS
      <4>3. heap' = Freed(refs, root)
        BY <2>7, <3>2, <4>2
      <4>4. Object(r)' = Object(r)
        BY <2>8, <2>9, <4>1, <4>2, <4>3, ObjectKept
      <4>5. old = r /\ Object(r) = o
        BY <2>3, <2>6, <3>2, <4>1
      <4> QED BY <3>2, <4>4, <4>5
    <3> QED BY <3>1, <3>2
  <2>12. PICK f \in Frames : f = [Top EXCEPT !.node = NoNode, !.old = old, !.at = "call"]
    BY <2>8, <2>10 DEF Frames, Ref
  <2>13. f.rest = Top.rest /\ f.rest # <<>>
    BY <2>8, <2>12 DEF Frames
  <2>14. PICK g \in Frames :
          g = [rest |-> link.path, root |-> old, node |-> old, old |-> NoNode,
               type |-> "DIRECTORY", at |-> "search"]
    BY <2>5, <2>10 DEF Frames, Ref, FileType
  <2>15. /\ g.rest = link.path /\ g.node = old /\ g.type = "DIRECTORY" /\ g.at = "search"
         /\ stack' = Append(SetTop(f), g)
    BY <2>7, <2>12, <2>14 DEF Frame
  <2>16. PICK s : s = Tail(f.rest) \o t
    OBVIOUS
  <2>17. Sound(g, s)'
    <3>1. Reach(Object(g.node), g.rest \o s)'
      BY <1>1, <2>3, <2>4, <2>5, <2>11, <2>13, <2>15, <2>16, ExpectedKept DEF Reach
    <3>2. Type[at] = "DIRECTORY"
      BY <2>3, <2>11, TreeAssumption
    <3>3. TypeFits(g.type, Object(g.node))'
      BY <2>11, <2>15, <3>2 DEF TypeFits
    <3>4. g.rest = <<>> => "root" \in fault'
      BY <2>7, <2>15
    <3> QED BY <2>15, <3>1, <3>3, <3>4 DEF Sound
  <2> QED BY <1>1, <2>3, <2>13, <2>15, <2>16, <2>17, PushLeads DEF Sound
<1> QED BY <1>2, <1>3

LEMMA ResumeLeads ==
  ASSUME LookupOK, OnPath, Resume
  PROVE  OnPath'
<1>1. /\ stack # <<>> /\ ret # NoRet /\ Top.at = "call"
      /\ nest' = nest /\ op' = op /\ fault' = fault
  BY TopOf DEF Resume
<1>2. /\ Top \in Frames /\ Top.type = "SYMLINK" /\ Top.rest # <<>>
      /\ heap \in [Node -> Obj \cup {Free}]
      /\ ret \in [status : {0, 1}, node : Ref, type : FileType \cup {Unset}]
  BY <1>1, TopOf DEF FrameOK, LookupOK, Returning
<1>3. CASE ret.status = 0
  <2>1. ret'.status = 0
    BY <1>3 DEF Resume, Return
  <2>2. fault # {} \/ Expected = Free
    BY <1>3 DEF OnPath
  <2> QED BY <1>1, <2>1, <2>2, ExpectedKept, FailLeads
<1>4. CASE ret.status = 1 /\ Astray
  <2>1. ret' = NoRet
    BY <1>4 DEF Resume
  <2> QED BY <1>1, <1>4, <2>1, NoNodeIs DEF OnPath, Astray
<1>5. CASE ret.status = 1 /\ ~Astray
  <2>1. /\ heap' = heap /\ ret' = NoRet
        /\ stack' = SetTop([Top EXCEPT !.node = ret.node, !.at = "found",
                                       !.type = IF ret.type = Unset THEN @ ELSE ret.type])
    BY <1>5 DEF Resume
  <2>2. PICK n \in Ref, y \in FileType :
          /\ n = ret.node /\ y = IF ret.type = Unset THEN Top.type ELSE ret.type
    BY <1>2 DEF Frames
  <2>3. PICK f \in Frames : f = [Top EXCEPT !.node = n, !.at = "found", !.type = y]
    BY <1>2, <2>2 DEF Frames
  <2>4. f.rest = Top.rest /\ f.node = n /\ f.type = y /\ f.at = "found"
    BY <1>2, <2>3 DEF Frames
  <2>5. stack' = SetTop(f)
    BY <1>2, <2>1, <2>2, <2>3
  <2>6. PICK c : \E t \in Seq(Name) : Tails(stack, c) /\ t = c[Len(stack)] /\ Sound(Top, t)
    BY <1>1, <1>5, OnPathTop
  <2>7. PICK t \in Seq(Name) : Tails(stack, c) /\ t = c[Len(stack)] /\ Sound(Top, t)
    BY <2>6
  <2>8. PICK o : o = Object(n) /\ Object(n)' = o
    BY <2>1 DEF Object
  <2>9. Reach(o, Tail(f.rest) \o t) /\ TypeFits(ret.type, o)
    BY <1>1, <2>2, <2>4, <2>7, <2>8 DEF Sound
  <2>10. Reach(o, Tail(f.rest) \o t)'
    BY <1>1, <2>9, ExpectedKept DEF Reach
  <2>11. TypeFits(y, o)
    <3>1. o \in Obj
      BY <1>1, <1>2, <1>5, <2>2, <2>8, TreeAssumption, NoNodeIs
        DEF LookupOK, Returning, RetApart, Object, Ref
    <3>2. Type[o] # Unset
      BY <3>1, TreeAssumption DEF FileType, Unset
    <3> QED BY <1>2, <2>2, <2>9, <3>2 DEF TypeFits
  <2>12. Sound(f, t)'
    BY <1>1, <2>4, <2>8, <2>10, <2>11 DEF Sound, TypeFits
  <2> QED BY <1>1, <2>1, <2>5, <2>7, <2>12, MoveLeads
<1> QED BY <1>2, <1>3, <1>4, <1>5

LEMMA FoundLeads ==
  ASSUME LookupOK, OnPath, Found
  PROVE  OnPath'
<1>1. /\ stack # <<>> /\ ret = NoRet /\ Top.at = "found"
      /\ heap' = Freed({Top.old}, Top.root) /\ nest' = nest /\ op' = op /\ fault' = fault
  BY DEF Found, Running
<1>2. /\ Top \in Frames /\ Top.rest # <<>> /\ Top.node # NoNode
      /\ Top.node \in Node \cup {Root} /\ heap \in [Node -> Obj \cup {Free}]
      /\ (Top.node = Top.root => Top.node = Root)
      /\ (Top.node = Top.old => Top.node \notin Owns(Top))
  BY <1>1, TopOf DEF FrameOK, Frees, Frames, Ref
<1>3. PICK p \in Seq(Name) : p = Top.rest /\ p # <<>> /\ Len(p) \in Nat \ {0}
  BY <1>2, EmptySeq DEF Frames
<1>4. /\ Tail(p) \in Seq(Name) /\ Len(Tail(p)) = Len(p) - 1
  BY <1>3, HeadTailProperties
<1>5. CASE Astray
  <2>1. ret'.status # 0
    BY <1>1, NoNodeIs DEF Found, Return
  <2> QED BY <1>1, <1>5, <2>1 DEF OnPath, Astray
<1>6. CASE ~Astray
  <2>1. PICK c : \E t \in Seq(Name) : Tails(stack, c) /\ t = c[Len(stack)] /\ Sound(Top, t)
    BY <1>1, <1>6, OnPathTop, NoNodeIs
  <2>2. PICK t \in Seq(Name) : Tails(stack, c) /\ t = c[Len(stack)] /\ Sound(Top, t)
    BY <2>1
  <2>3. PICK o \in Obj : o = Object(Top.node)
    BY <1>1, <1>2, TopObject
  <2>4. PICK r \in Node \cup {Root}, type \in FileType : r = Top.node /\ type = Top.type
    BY <1>2 DEF Frames
  <2>5. Reach(o, Tail(p) \o t) /\ TypeFits(type, o)
    BY <1>1, <1>3, <2>2, <2>3, <2>4 DEF Sound
  <2>6. Object(r)' = o
    <3>1. r \in Node => r # Top.old
      BY <1>2, <2>4, NoNodeIs DEF Owns
    <3>2. PICK refs, root : refs = {Top.old} /\ root = Top.root
      OBVIOUS
    <3>3. heap' = Freed(refs, root)
      BY <1>1, <3>2
    <3>4. r \in Node => r \notin refs \ {root}
      BY <3>1, <3>2
    <3>5. Object(r)' = Object(r)
      BY <1>2, <3>3, <3>4, ObjectKept
    <3> QED BY <2>3, <2>4, <3>5
  <2>7. CASE Len(p) = 1
    <3>1. Tail(p) = <<>>
      <4>1. Len(Tail(p)) = 0
        BY <1>4, <2>7
      <4> QED BY <1>4, <4>1, EmptySeq
    <3>2. Tail(p) \o t = t
      BY <3>1, ConcatEmptySeq
    <3>3. Return(1, r, type)
      BY <1>3, <2>4, <2>7 DEF Found
    <3>4. Reach(o, t)
      BY <2>5, <3>2
    <3>5. Left \in 0..MaxNest
      BY <1>1, LeftIs, NoNodeIs
    <3> QED BY <1>1, <2>2, <2>5, <2>6, <3>3, <3>4, <3>5, ReturnLeads
  <2>8. CASE Len(p) # 1
    <3>1. Tail(p) # <<>>
      <4>1. Len(Tail(p)) # 0
        BY <1>3, <1>4, <2>8
      <4> QED BY <1>4, <4>1, EmptySeq
    <3>2. /\ stack' = SetTop([Top EXCEPT !.rest = Tail(Top.rest), !.old = NoNode,
                                         !.at = "search"])
          /\ ret' = NoRet
      BY <1>1, <1>2, <1>3, <2>8 DEF Found, Frames
    <3>3. PICK q \in Seq(Name) : q = Tail(p)
      BY <1>4
    <3>4. PICK f \in Frames : f = [Top EXCEPT !.rest = q, !.old = NoNode, !.at = "search"]
      BY <1>2, <3>3 DEF Frames, Ref
    <3>5. f.rest = q /\ f.node = r /\ f.type = type /\ f.at = "search"
      BY <1>2, <2>4, <3>4 DEF Frames
    <3>6. stack' = SetTop(f)
      BY <1>3, <3>2, <3>3, <3>4
    <3>7. Reach(o, q \o t)'
      BY <1>1, <2>5, <3>3, ExpectedKept DEF Reach
    <3>8. Sound(f, t)'
      <4>1. TypeFits(type, o)'
        BY <1>1, <2>5 DEF TypeFits
      <4> QED BY <2>6, <3>1, <3>3, <3>5, <3>7, <4>1 DEF Sound, TypeFits
    <3> QED BY <1>1, <2>2, <3>2, <3>6, <3>8, MoveLeads
  <2> QED BY <2>7, <2>8
<1> QED BY <1>5, <1>6

LEMMA LookupStepLeads ==
  ASSUME LookupOK, OnPath, LookupStep, Intact'
  PROVE  OnPath'
<1>1. CASE EmptyPath \/ NotDirectory \/ SearchFails \/ SearchFinds
  BY <1>1, EmptyPathLeads, NotDirectoryLeads, SearchFailsLeads, SearchFindsLeads
<1>2. CASE NestExceeded \/ LinkUnreadable \/ Follow \/ Resume \/ Found
  BY <1>2, LinkFailsLeads, FollowLeads, ResumeLeads, FoundLeads
<1> QED BY <1>1, <1>2 DEF LookupStep

-----------------------------------------------------------------------------
LEMMA Quiet ==
  ASSUME stack' = <<>>, ret' = NoRet
  PROVE  OnPath'
BY NoNodeIs DEF OnPath

LEMMA StillOnPath ==
  ASSUME OnPath, UNCHANGED <<heap, stack, nest, ret, op>>,
         fault' = fault \/ fault' = fault \cup {"failed"}
  PROVE  OnPath'
<1>1. ASSUME NEW f, NEW t
      PROVE  Sound(f, t)' <=> Sound(f, t)
  BY DEF Sound, Reach, Expected, Left, Object, TypeFits
<1>2. PICK f, n : f = Top /\ n = Len(stack) /\ Top' = f /\ Len(stack)' = n
  BY DEF Top
<1>3. ASSUME NEW c
      PROVE  (Tails(stack, c) /\ Sound(Top, c[Len(stack)]))'
               <=> Tails(stack, c) /\ Sound(Top, c[Len(stack)])
  <2>1. PICK t : t = c[n]
    OBVIOUS
  <2>2. Tails(stack, c)' <=> Tails(stack, c)
    BY DEF Tails
  <2>3. Sound(f, t)' <=> Sound(f, t)
    BY <1>1
  <2>4. Sound(Top, c[Len(stack)]) <=> Sound(f, t)
    BY <1>2, <2>1
  <2>5. Sound(Top, c[Len(stack)])' <=> Sound(f, t)'
    BY <1>2, <2>1 DEF Sound
  <2> QED BY <2>2, <2>3, <2>4, <2>5
<1>4. Expected' = Expected /\ Object(ret.node)' = Object(ret.node)
  BY DEF Expected, Object
<1>5. (Astray' <=> Astray) /\ (fault' = {} => fault = {})
  BY DEF Astray
<1> QED BY <1>3, <1>4, <1>5 DEF OnPath

LEMMA AskLeads ==
  ASSUME LookupOK, NEW kind, NEW path \in Paths, Ask(kind, path)
  PROVE  OnPath'
<1>1. /\ op' = [kind |-> kind, path |-> path] /\ stack' = <<Frame(path, Root)>>
      /\ nest' = 0 /\ ret' = NoRet
  BY DEF Ask, LookupOK, Asked
<1>0. PICK f : f = Frame(path, Root)
  OBVIOUS
<1>2. f.rest = path /\ f.node = Root /\ f.type = "DIRECTORY" /\ f.at = "search"
  BY <1>0 DEF Frame
<1>3. stack' = <<f>> /\ Len(stack') = 1 /\ Top' = f
  BY <1>0, <1>1 DEF Top
<1>4. path \in Seq(Name) /\ path \o <<>> = path
  BY TreeAssumption, ConcatEmptySeq
<1>5. Reach(Object(Root), path \o <<>>)'
  <2>1. Left' = MaxNest - 1 /\ Expected' = NamedBy(path) /\ Object(Root)' = RootObj
    BY <1>1, MemoryAssumption DEF Left, Expected, Object
  <2> QED BY <1>4, <2>1 DEF Reach, NamedBy
<1>6. TypeFits(f.type, Object(Root))'
  BY <1>2, TreeAssumption DEF TypeFits, Object
<1>7. Sound(f, <<>>)'
  BY <1>2, <1>3, <1>5, <1>6 DEF Sound
<1>8. PICK c : c = [k \in 1..1 |-> <<>>]
  OBVIOUS
<1>9. c[1] = <<>> /\ c \in [1..1 -> Seq(Name)] /\ 1..(1 - 1) = {}
  BY <1>8, EmptySeq
<1>10. Tails(stack, c)' /\ Sound(Top, c[Len(stack)])'
  BY <1>3, <1>7, <1>9 DEF Tails, Sound
<1> QED BY <1>1, <1>10, NoNodeIs DEF OnPath

LEMMA DokanNextLeads ==
  ASSUME IInv, OnPath, [DokanNext]_dokanvars, Intact'
  PROVE  OnPath'
<1>0. LookupOK
  BY DEF IInv
<1>1. CASE \E f \in File : \E path \in Paths : CreateFile(f, path) \/ FindFiles(f, path)
  BY <1>0, <1>1, AskLeads DEF CreateFile, FindFiles
<1>2. CASE Lookup
  BY <1>0, <1>2, LookupStepLeads DEF Lookup
<1>3. CASE FileCreated \/ FilesFound
  <2>1. stack = <<>> /\ stack' = stack /\ ret' = NoRet
    BY <1>3 DEF FileCreated, FilesFound, OpenEnds, ListEnds, Returned, OpDone
  <2> QED BY <2>1, Quiet
<1>4. CASE \E f \in File : CloseFile(f) /\ context[f] # NoContext
  <2>1. op = NoOp /\ stack' = stack /\ ret' = ret
    BY <1>4 DEF CloseFile, Close
  <2> QED BY <1>0, <2>1, Quiet DEF LookupOK, Asked
<1>5. CASE UNCHANGED <<heap, stack, nest, ret, op>> /\ (fault' = fault \/ fault' = fault \cup {"failed"})
  BY <1>5, StillOnPath
<1>6. CASE ListEntry \/ ListNameless \/ ListCut
  BY <1>5, <1>6 DEF ListEntry, ListNameless, ListCut, vars, Failing
<1>7. CASE \E f \in File : OpenDirectory(f) \/ (CloseFile(f) /\ context[f] = NoContext)
  BY <1>5, <1>7 DEF OpenDirectory, CloseFile, vars
<1>8. CASE \E f \in File : ReadFile(f) \/ GetFileInformation(f) \/ Change(f)
  BY <1>5, <1>8 DEF ReadFile, GetFileInformation, Change, vars
<1>9. CASE UNCHANGED dokanvars
  BY <1>5, <1>9 DEF dokanvars, vars
<1> QED BY <1>1, <1>2, <1>3, <1>4, <1>6, <1>7, <1>8, <1>9 DEF DokanNext, CallbackStep, Undefined

LEMMA OnPathHolds == DokanSpec => [](Intact => OnPath)
<1>1. DokanInit => (Intact => OnPath)
  BY NoNodeIs DEF DokanInit, Init, OnPath
<1>2. (Intact => IInv) /\ (Intact => OnPath) /\ [DokanNext]_dokanvars => (Intact => OnPath)'
  BY IntactBefore, DokanNextLeads
<1> QED BY <1>1, <1>2, Invariance, PTL DEF DokanSpec

(***************************************************************************)
(* What find_file (ext4.c:744-867) ends with is what the path names,       *)
(* however its components, the links in it and the directories they are    *)
(* found in follow one another, unless a name on the way was that of a     *)
(* deleted entry (676) or a link was read in part (735); and it ends with  *)
(* nothing only when the path names nothing, a read or an allocation       *)
(* failed, or one of these or a link to "/" (821) was met.                 *)
(***************************************************************************)
THEOREM FindsIt == DokanSpec => []FindsWhatIsNamed
<1>1. (Intact => OnPath) => FindsWhatIsNamed
  BY DEF OnPath, FindsWhatIsNamed, LookupOver
<1> QED BY <1>1, OnPathHolds, PTL

-----------------------------------------------------------------------------
(* A lookup leaves the open files and what they describe alone.            *)
LEMMA FilesKept ==
  ASSUME LookupOK, LookupStep, NEW h \in Handle, handle[h] \in Node
  PROVE  heap'[handle[h]] = heap[handle[h]] /\ handle' = handle
<1>1. PICK n \in Node : n = handle[h]
  OBVIOUS
<1>2. /\ stack # <<>> /\ handle' = handle
  BY DEF LookupStep, EmptyPath, NotDirectory, SearchFails, SearchFinds, Searching,
    NestExceeded, LinkUnreadable, Follow, Resume, Found, Running
<1>3. Len(stack) \in 1..Len(stack) /\ Top = stack[Len(stack)]
  BY <1>2, TopIs DEF LookupOK, Shape
<1>4. n \notin Owns(Top) /\ heap[n] # Free /\ heap \in [Node -> Obj \cup {Free}]
  BY <1>1, <1>3 DEF LookupOK, UsedIn, Opened
<1>5. ASSUME NEW refs, refs \subseteq {Top.node, Top.old}, heap' = Freed(refs, Top.root)
      PROVE  heap'[n] = heap[n]
  BY <1>4, <1>5, FreedIs DEF Owns
<1>6. CASE EmptyPath \/ SearchFails
  BY <1>1, <1>2, <1>6 DEF EmptyPath, SearchFails
<1>7. CASE NotDirectory \/ NestExceeded \/ LinkUnreadable \/ Follow \/ Found
  <2>1. \E refs : refs \subseteq {Top.node, Top.old} /\ heap' = Freed(refs, Top.root)
    <3>1. CASE NotDirectory \/ NestExceeded \/ LinkUnreadable \/ Found
      BY <3>1 DEF NotDirectory, NestExceeded, LinkUnreadable, Found
    <3>2. CASE Follow
      BY <3>2 DEF Follow
    <3> QED BY <1>7, <3>1, <3>2
  <2> QED BY <1>1, <1>2, <1>5, <2>1
<1>8. CASE SearchFinds
  <2>1. PICK m, found : heap' = [heap EXCEPT ![m] = found] /\ m # n
    BY <1>4, <1>8 DEF SearchFinds
  <2> QED BY <1>1, <1>2, <1>4, <2>1
<1>9. CASE Resume
  <2>1. heap' = heap \/ heap' = Freed({Top.old}, Top.root)
    BY <1>9 DEF Resume
  <2> QED BY <1>1, <1>2, <1>5, <2>1
<1> QED BY <1>6, <1>7, <1>8, <1>9 DEF LookupStep

-----------------------------------------------------------------------------
(***************************************************************************)
(* Each context's file is what its path named, and so is every answer.     *)
(***************************************************************************)
Answering ==
  /\ \A f \in Holders : named[f] # Anything => heap[handle[context[f]]] = NamedBy(named[f])
  /\ call.op = "CreateFile" => named[call.file] = op.path
  /\ AnswersFromNamed

(* The file of a context.                                                  *)
LEMMA HolderIs ==
  ASSUME IInv, NEW f \in Holders
  PROVE  /\ f \in File /\ context[f] \in Handle /\ handle[context[f]] \in Node
         /\ heap[handle[context[f]]] # Free
         /\ \A g \in Holders : g # f => handle[context[g]] # handle[context[f]]
<1>1. f \in File /\ context[f] # NoContext /\ context \in [File -> Handle \cup {NoContext}]
  BY DEF Holders, IInv, Kept
<1>2. PICK h \in Handle : h = context[f] /\ handle[h] # NoNode
  BY <1>1 DEF IInv, Held
<1>3. handle[h] \in Node /\ heap[handle[h]] # Free
  BY <1>2 DEF IInv, LookupOK, Opened
<1>4. ASSUME NEW g \in Holders, g # f
      PROVE  handle[context[g]] # handle[h]
  <2>1. PICK k \in Handle : k = context[g] /\ k # h
    BY <1>1, <1>2, <1>4 DEF Holders, IInv, Held
  <2> QED BY <1>3, <2>1 DEF IInv, LookupOK, Opened
<1> QED BY <1>1, <1>2, <1>3, <1>4

LEMMA NoAnswer ==
  ASSUME last' = Success \/ (\E f, r : last' = Reply(r, f, NoData) \/ last' = Reply(r, f, Minus1))
  PROVE  AnswersFromNamed'
<1>1. last'.from \in {NoData, Minus1}
  BY DEF Success, Reply
<1> QED BY <1>1, SlotsAssumption DEF AnswersFromNamed

(* A step that leaves the open files and their names alone.                *)
LEMMA StillAnswering ==
  ASSUME IInv, Answering, UNCHANGED <<handle, context, named>>,
         \A f \in Holders : heap'[handle[context[f]]] = heap[handle[context[f]]],
         AnswersFromNamed', (call' = call /\ op' = op) \/ call'.op # "CreateFile"
  PROVE  Answering'
BY DEF Answering, Holders

LEMMA CreateAnswers ==
  ASSUME IInv, Answering, NEW f \in File, NEW path \in Paths, CreateFile(f, path)
  PROVE  Answering'
<1>1. /\ f \notin opened /\ named' = [named EXCEPT ![f] = path] /\ last' = Success
      /\ call' = [op |-> "CreateFile", file |-> f] /\ op' = [kind |-> "open", path |-> path]
      /\ UNCHANGED <<heap, handle, context>>
  BY DEF CreateFile, Ask
<1>2. f \notin Holders /\ Holders' = Holders /\ named \in [File -> Paths \cup {<<>>, Anything}]
  BY <1>1 DEF IInv, Held, Kept, Holders
<1>3. \A g \in Holders : named'[g] = named[g]
  BY <1>1, <1>2 DEF Holders
<1>4. named'[call'.file] = op'.path
  BY <1>1, <1>2
<1> QED BY <1>1, <1>2, <1>3, <1>4, NoAnswer DEF Answering

LEMMA CreatedAnswers ==
  ASSUME IInv, OnPath, Answering, FileCreated
  PROVE  Answering'
<1>1. /\ call.op = "CreateFile" /\ OpenEnds /\ Returned("open") /\ last' = Success
      /\ call' = NoCall /\ LookupOK /\ named[call.file] = op.path
      /\ named \in [File -> Paths \cup {<<>>, Anything}]
      /\ context \in [File -> Handle \cup {NoContext}]
      /\ handle \in [Handle -> Node \cup {NoNode}]
  BY DEF FileCreated, OpenEnds, IInv, Answering, Kept, LookupOK
<1>2. PICK f \in File : f = call.file /\ f \notin Holders
  BY <1>1 DEF IInv, Calling, Held, NoCall
<1>3. PICK new : new = { h \in Handle : handle'[h] # handle[h] }
  OBVIOUS
<1>4. /\ context' = [context EXCEPT ![f] = IF new = {} THEN NoContext ELSE CHOOSE h \in new : TRUE]
      /\ named' = [named EXCEPT ![f] = CASE new = {} -> <<>>
                                          [] Astray -> Anything
                                          [] OTHER -> named[f]]
  BY <1>1, <1>2, <1>3 DEF FileCreated
<1>5. /\ \A g \in File : g # f => context'[g] = context[g] /\ named'[g] = named[g]
      /\ Holders' \subseteq Holders \cup {f}
  BY <1>1, <1>4 DEF Holders
<1>6. ASSUME NEW g \in Holders
      PROVE  handle'[context[g]] = handle[context[g]]
             /\ heap'[handle[context[g]]] = heap[handle[context[g]]]
  <2>1. PICK h \in Handle, n \in Node : h = context[g] /\ n = handle[h]
    BY HolderIs
  <2>2. n # ret.node /\ n # NoNode /\ heap \in [Node -> Obj \cup {Free}]
    BY <1>1, <2>1, ResultIs, NoNodeIs
  <2>3. heap'[n] = heap[n]
    BY <2>2, FreedIs, <1>1 DEF OpenEnds
  <2>4. handle'[h] = handle[h]
    BY <1>1, <2>1, <2>2 DEF OpenEnds
  <2> QED BY <2>1, <2>3, <2>4
<1>7. ASSUME f \in Holders', named'[f] # Anything
      PROVE  heap'[handle'[context'[f]]] = NamedBy(named'[f])
  <2>1. new # {}
    BY <1>1, <1>4, <1>7 DEF Holders
  <2>2. PICK h \in Handle : /\ ret.status = 1 /\ FoundType = "REG" /\ handle[h] = NoNode
                            /\ handle' = [handle EXCEPT ![h] = ret.node] /\ heap' = heap
    BY <1>1, <1>3, <2>1 DEF OpenEnds
  <2>3. new = {h} /\ handle'[h] = ret.node /\ ret.node \in Node
    <3>1. ret.node \in Node
      BY <1>1, <2>2, ResultIs
    <3> QED BY <1>1, <1>3, <2>2, <3>1, NoNodeIs
  <2>4. context'[f] = h
    BY <1>1, <1>4, <2>3
  <2>5. ~Astray /\ named'[f] = op.path
    BY <1>1, <1>2, <1>4, <1>7, <2>1
  <2>6. Expected = Object(ret.node)
    BY <1>1, <2>2, <2>5 DEF OnPath, Returned
  <2>7. Object(ret.node) = heap[ret.node]
    BY <2>3, NoNodeIs DEF Object
  <2> QED BY <2>2, <2>3, <2>4, <2>5, <2>6, <2>7 DEF Expected
<1>8. \A g \in Holders' : named'[g] # Anything =>
        heap'[handle'[context'[g]]] = NamedBy(named'[g])
  <2> SUFFICES ASSUME NEW g \in Holders', named'[g] # Anything
               PROVE  heap'[handle'[context'[g]]] = NamedBy(named'[g])
    OBVIOUS
  <2>1. CASE g = f
    BY <1>7, <2>1
  <2>2. CASE g # f
    <3>1. g \in Holders /\ g \in File /\ context'[g] = context[g] /\ named'[g] = named[g]
      BY <1>5, <2>2 DEF Holders
    <3>2. heap[handle[context[g]]] = NamedBy(named[g])
      BY <3>1 DEF Answering
    <3> QED BY <1>6, <3>1, <3>2
  <2> QED BY <2>1, <2>2
<1> QED BY <1>1, <1>8, NoAnswer DEF Answering, NoCall

LEMMA CloseAnswers ==
  ASSUME IInv, Answering, NEW f \in File, CloseFile(f)
  PROVE  Answering'
<1>1. /\ call = NoCall /\ call' = call /\ last' = Success
      /\ context' = [context EXCEPT ![f] = NoContext] /\ named' = [named EXCEPT ![f] = <<>>]
      /\ IF context[f] # NoContext THEN Close(context[f]) ELSE UNCHANGED vars
      /\ named \in [File -> Paths \cup {<<>>, Anything}]
      /\ context \in [File -> Handle \cup {NoContext}]
      /\ handle \in [Handle -> Node \cup {NoNode}] /\ heap \in [Node -> Obj \cup {Free}]
  BY DEF CloseFile, Idle, IInv, Kept, LookupOK
<1>2. ASSUME NEW g \in Holders'
      PROVE  g \in Holders /\ g # f /\ context'[g] = context[g] /\ named'[g] = named[g]
  BY <1>1 DEF Holders
<1>3. ASSUME NEW g \in Holders, g # f
      PROVE  heap'[handle'[context[g]]] = heap[handle[context[g]]]
  <2>1. PICK k \in Handle, n \in Node : k = context[g] /\ n = handle[k]
    BY HolderIs
  <2>2. CASE context[f] # NoContext
    <3>1. f \in Holders
      BY <2>2 DEF Holders
    <3>2. PICK h \in Handle : h = context[f] /\ handle[h] # n /\ h # k
      BY <1>3, <2>1, <3>1, HolderIs
    <3>3. heap' = Freed({handle[h]}, Root) /\ handle' = [handle EXCEPT ![h] = NoNode]
      BY <1>1, <2>2, <3>2 DEF Close
    <3>4. heap'[n] = heap[n]
      BY <1>1, <3>2, <3>3, FreedIs
    <3>5. handle'[k] = n
      BY <1>1, <2>1, <3>2, <3>3
    <3> QED BY <2>1, <3>4, <3>5
  <2>3. CASE context[f] = NoContext
    BY <1>1, <2>3 DEF vars
  <2> QED BY <2>2, <2>3
<1>4. \A g \in Holders' : named'[g] # Anything =>
        heap'[handle'[context'[g]]] = NamedBy(named'[g])
  <2> SUFFICES ASSUME NEW g \in Holders', named'[g] # Anything
               PROVE  heap'[handle'[context'[g]]] = NamedBy(named'[g])
    OBVIOUS
  <2>1. g \in Holders /\ g # f /\ context'[g] = context[g] /\ named'[g] = named[g]
    BY <1>2
  <2>2. heap[handle[context[g]]] = NamedBy(named[g])
    BY <2>1 DEF Answering
  <2> QED BY <1>3, <2>1, <2>2
<1> QED BY <1>1, <1>4, NoAnswer DEF Answering, NoCall

LEMMA RepliesAnswer ==
  ASSUME IInv, Answering, NEW f \in File, ReadFile(f) \/ GetFileInformation(f) \/ Change(f)
  PROVE  Answering'
<1>1. UNCHANGED <<heap, handle, context, named, op, call>>
  BY DEF ReadFile, GetFileInformation, Change, vars, kvars
<1>2. AnswersFromNamed'
  <2>1. \/ last' = Success \/ last' = Reply(-1, NoContext, NoData)
        \/ last' = Reply(0, f, Minus1)
        \/ context[f] # NoContext /\ last' = Reply(0, f, Data(f))
    BY DEF ReadFile, GetFileInformation, Change
  <2>2. CASE context[f] # NoContext /\ last' = Reply(0, f, Data(f))
    <3>1. f \in Holders
      BY <2>2 DEF Holders
    <3>2. Data(f) = heap[handle[context[f]]]
      BY <3>1, HolderIs, NoNodeIs DEF Data, Object
    <3>3. named[f] # Anything => Data(f) = NamedBy(named[f])
      BY <3>1, <3>2 DEF Answering
    <3>4. last'.from = Data(f) /\ last'.file = f
      BY <2>2 DEF Reply
    <3> QED BY <1>1, <3>3, <3>4 DEF AnswersFromNamed
  <2> QED BY <2>1, <2>2, NoAnswer
<1> QED BY <1>1, <1>2, StillAnswering

LEMMA DokanNextAnswers ==
  ASSUME IInv, OnPath, Answering, [DokanNext]_dokanvars, Intact, Intact'
  PROVE  Answering'
<1>1. CASE \E f \in File : \E path \in Paths : CreateFile(f, path)
  BY <1>1, CreateAnswers
<1>2. CASE \E f \in File : \E path \in Paths : FindFiles(f, path)
  <2>1. /\ UNCHANGED <<heap, handle, context, named>> /\ last' = Success
        /\ call'.op # "CreateFile"
    BY <1>2 DEF FindFiles, Ask, kvars
  <2> QED BY <2>1, NoAnswer, StillAnswering
<1>3. CASE \E f \in File : OpenDirectory(f)
  <2>1. PICK f \in File : OpenDirectory(f)
    BY <1>3
  <2>2. /\ f \notin Holders /\ context' = [context EXCEPT ![f] = NoContext] /\ last' = Success
        /\ UNCHANGED <<heap, handle, named, op, call>>
    BY <2>1 DEF OpenDirectory, IInv, Held, vars
  <2>3. context' = context
    BY <2>2 DEF IInv, Kept, Holders
  <2> QED BY <2>2, <2>3, NoAnswer, StillAnswering
<1>4. CASE \E f \in File : CloseFile(f)
  BY <1>4, CloseAnswers
<1>5. CASE \E f \in File : ReadFile(f) \/ GetFileInformation(f) \/ Change(f)
  BY <1>5, RepliesAnswer
<1>6. CASE Lookup
  <2>1. LookupOK /\ LookupStep /\ UNCHANGED <<context, named, call, last>>
    BY <1>6 DEF Lookup, kvars, IInv
  <2>2. op' = op /\ handle' = handle
    BY <2>1 DEF LookupStep, EmptyPath, NotDirectory, SearchFails, SearchFinds, NestExceeded,
      LinkUnreadable, Follow, Resume, Found
  <2>3. \A f \in Holders : heap'[handle[context[f]]] = heap[handle[context[f]]]
    BY <2>1, HolderIs, FilesKept
  <2>4. AnswersFromNamed'
    BY <2>1 DEF Answering, AnswersFromNamed
  <2> QED BY <2>1, <2>2, <2>3, <2>4, StillAnswering
<1>7. CASE FileCreated
  BY <1>7, CreatedAnswers
<1>8. CASE FilesFound
  <2>1. /\ ListEnds /\ call' = NoCall /\ last' = Success
        /\ UNCHANGED <<context, named, handle>>
    BY <1>8 DEF FilesFound, kvars, ListEnds
  <2>2. Returned("list") /\ LookupOK /\ (heap' = Freed({ret.node}, Root) \/ heap' = heap)
    BY <2>1 DEF ListEnds, IInv
  <2>3. ASSUME NEW f \in Holders
        PROVE  heap'[handle[context[f]]] = heap[handle[context[f]]]
    <3>1. PICK h \in Handle, n \in Node : h = context[f] /\ n = handle[h]
      BY HolderIs
    <3>2. n # ret.node /\ heap \in [Node -> Obj \cup {Free}]
      BY <2>2, <3>1, ResultIs
    <3> QED BY <2>2, <3>1, <3>2, FreedIs
  <2>4. call'.op # "CreateFile"
    BY <2>1 DEF NoCall
  <2> QED BY <2>1, <2>3, <2>4, NoAnswer, StillAnswering
<1>9. CASE UNCHANGED <<heap, handle, op, context, named, call, last>>
  <2>1. AnswersFromNamed'
    BY <1>9 DEF Answering, AnswersFromNamed
  <2> QED BY <1>9, <2>1, StillAnswering
<1>10. CASE ListEntry \/ ListNameless \/ ListCut
  BY <1>9, <1>10 DEF ListEntry, ListNameless, ListCut, vars, kvars
<1>11. CASE UNCHANGED dokanvars
  BY <1>9, <1>11 DEF dokanvars, vars, kvars
<1> QED BY <1>1, <1>2, <1>3, <1>4, <1>5, <1>6, <1>7, <1>8, <1>10, <1>11 DEF DokanNext, CallbackStep, Undefined

(***************************************************************************)
(* What __ReadFile and __GetFileInformation answer (eokan.c:150-217) comes *)
(* from the file that the path named when __CreateFile opened it, as long  *)
(* as the file object is open, for every sequence of callbacks, unless the *)
(* path then led through a deleted entry (ext4.c:676) or a link that was   *)
(* read in part (735).                                                     *)
(***************************************************************************)
THEOREM AnswersTheNamed == DokanSpec => []AnswersFromNamed
<1>1. DokanInit => Answering
  <2> SUFFICES ASSUME DokanInit PROVE Answering
    OBVIOUS
  <2>1. context = [f \in File |-> NoContext] /\ call = NoCall /\ last = Success
    BY DEF DokanInit
  <2>2. Holders = {} /\ call.op # "CreateFile" /\ last.from \notin Obj
    BY <2>1, SlotsAssumption DEF Holders, NoCall, Success, Reply
  <2> QED BY <2>2 DEF Answering, AnswersFromNamed
<1>2. (Intact => IInv) /\ (Intact => OnPath) /\ (Intact => Answering) /\ [DokanNext]_dokanvars
        => (Intact => Answering)'
  BY IntactBefore, DokanNextAnswers
<1>3. (Intact => Answering) => AnswersFromNamed
  BY DEF Answering, AnswersFromNamed
<1> QED BY <1>1, <1>2, <1>3, Invariance, OnPathHolds, PTL DEF DokanSpec

-----------------------------------------------------------------------------
(***************************************************************************)
(* A listing, as a relation of a directory, a place in it and the names    *)
(* that were given.  Its entries with a name are ranked.                   *)
(***************************************************************************)
Entries == [name : Name, kind : {"live", "stale", "nameless"}]
NamedIn(D) == { s \in DOMAIN D : D[s].kind # "nameless" }
RankIn(D, s) == Cardinality({ r \in NamedIn(D) : r <= s })

ListedIn(D, c, l) ==
  /\ Len(l) = RankIn(D, c - 1)
  /\ \A s \in NamedIn(D) : s < c => l[RankIn(D, s)] = D[s].name
  /\ \A k \in 1..Len(l) : \E s \in NamedIn(D) : s < c /\ k = RankIn(D, s)

LEMMA RankIs ==
  ASSUME NEW D \in Seq(Entries), NEW c \in 1..Len(D)
  PROVE  /\ RankIn(D, c - 1) \in Nat
         /\ c \in NamedIn(D) => RankIn(D, c) = RankIn(D, c - 1) + 1
         /\ c \notin NamedIn(D) => RankIn(D, c) = RankIn(D, c - 1)
<1> DEFINE upto(s) == { r \in NamedIn(D) : r <= s }
<1>1. Len(D) \in Nat /\ DOMAIN D = 1..Len(D) /\ c \in Int
  OBVIOUS
<1>2. NamedIn(D) \subseteq 1..Len(D) /\ \A r \in NamedIn(D) : r \in Int
  BY <1>1 DEF NamedIn
<1>3. IsFiniteSet(1..Len(D)) /\ upto(c - 1) \in SUBSET (1..Len(D))
  BY <1>1, <1>2, FS_Interval
<1>4. IsFiniteSet(upto(c - 1))
  BY <1>3, FS_Subset
<1>5. Cardinality(upto(c - 1)) \in Nat
  BY <1>4, FS_CardinalityType
<1>6. c \notin upto(c - 1)
  BY <1>1
<1>7. ASSUME c \in NamedIn(D) PROVE upto(c) = upto(c - 1) \cup {c}
  <2>1. \A r \in NamedIn(D) : r <= c <=> r <= c - 1 \/ r = c
    BY <1>1, <1>2
  <2> QED BY <1>7, <2>1
<1>8. ASSUME c \notin NamedIn(D) PROVE upto(c) = upto(c - 1)
  <2>1. ASSUME NEW r \in NamedIn(D) PROVE r <= c <=> r <= c - 1
    <3>1. r # c /\ r \in Int
      BY <1>2, <1>8
    <3> QED BY <1>1, <3>1
  <2> QED BY <2>1, Zenon
<1>9. ASSUME c \in NamedIn(D)
      PROVE  Cardinality(upto(c)) = Cardinality(upto(c - 1)) + 1
  <2> HIDE DEF upto
  <2>1. Cardinality(upto(c - 1) \cup {c}) = Cardinality(upto(c - 1)) + 1
    BY <1>4, <1>6, FS_AddElement
  <2>2. upto(c) = upto(c - 1) \cup {c}
    BY <1>7, <1>9
  <2> QED BY <2>1, <2>2
<1> QED BY <1>5, <1>8, <1>9 DEF RankIn

LEMMA RankFirst ==
  ASSUME NEW D \in Seq(Entries)
  PROVE  RankIn(D, 0) = 0
<1>1. { r \in NamedIn(D) : r <= 0 } = {}
  BY DEF NamedIn
<1> QED BY <1>1, FS_EmptySet DEF RankIn

(* Earlier entries do not rank above later places.                         *)
LEMMA RankGrows ==
  ASSUME NEW D \in Seq(Entries), NEW c \in 1..(Len(D) + 1), NEW s \in NamedIn(D), s < c
  PROVE  RankIn(D, s) \in 1..RankIn(D, c - 1)
<1>1. Len(D) \in Nat /\ s \in 1..Len(D) /\ c \in Int
  BY DEF NamedIn
<1>2. RankIn(D, s - 1) \in Nat /\ RankIn(D, s) = RankIn(D, s - 1) + 1
  BY <1>1, RankIs
<1>3. { r \in NamedIn(D) : r <= c - 1 } \in SUBSET (1..Len(D)) /\ IsFiniteSet(1..Len(D))
  <2>1. IsFiniteSet(1..Len(D))
    BY <1>1, FS_Interval
  <2> QED BY <2>1 DEF NamedIn
<1>4. IsFiniteSet({ r \in NamedIn(D) : r <= c - 1 })
  BY <1>3, FS_Subset
<1>5. { r \in NamedIn(D) : r <= s } \in SUBSET { r \in NamedIn(D) : r <= c - 1 }
  <2>1. ASSUME NEW r \in NamedIn(D), r <= s PROVE r <= c - 1
    <3>1. r \in 1..Len(D)
      BY DEF NamedIn
    <3> QED BY <1>1, <2>1, <3>1
  <2> QED BY <2>1
<1>6. RankIn(D, s) <= RankIn(D, c - 1) /\ RankIn(D, c - 1) \in Nat
  BY <1>4, <1>5, FS_Subset, FS_CardinalityType DEF RankIn
<1> QED BY <1>2, <1>6

(* An entry with a name is given, and one without is passed over.          *)
LEMMA ListedNamed ==
  ASSUME NEW D \in Seq(Entries), NEW c \in 1..Len(D), NEW l \in Seq(Name),
         ListedIn(D, c, l), c \in NamedIn(D)
  PROVE  ListedIn(D, c + 1, Append(l, D[c].name))
<1>1. D[c] \in Entries /\ D[c].name \in Name
  <2>1. PICK e \in Entries : e = D[c]
    BY ElementOfSeq
  <2> QED BY <2>1 DEF Entries
<1>2. PICK a \in Seq(Name) : a = Append(l, D[c].name)
  BY <1>1, AppendProperties
<1>3. /\ Len(a) = Len(l) + 1 /\ a[Len(l) + 1] = D[c].name
      /\ \A k \in 1..Len(l) : a[k] = l[k]
  BY <1>1, <1>2, AppendProperties
<1>4. /\ Len(l) = RankIn(D, c - 1) /\ RankIn(D, c) = Len(l) + 1 /\ Len(l) \in Nat
      /\ (c + 1) - 1 = c /\ c \in 1..(Len(D) + 1)
  BY RankIs DEF ListedIn
<1>5. ASSUME NEW s \in NamedIn(D), s < c + 1
      PROVE  a[RankIn(D, s)] = D[s].name
  <2>1. s \in 1..Len(D)
    BY DEF NamedIn
  <2>2. CASE s = c
    BY <1>3, <1>4, <2>2
  <2>3. CASE s # c
    <3>1. s < c
      BY <1>5, <2>1, <2>3
    <3>2. RankIn(D, s) \in 1..Len(l) /\ l[RankIn(D, s)] = D[s].name
      BY <1>4, <3>1, RankGrows DEF ListedIn
    <3> QED BY <1>3, <3>2
  <2> QED BY <2>2, <2>3
<1>6. ASSUME NEW k \in 1..Len(a)
      PROVE  \E s \in NamedIn(D) : s < c + 1 /\ k = RankIn(D, s)
  <2>1. CASE k = Len(l) + 1
    BY <1>4, <2>1
  <2>2. CASE k # Len(l) + 1
    <3>1. k \in 1..Len(l)
      BY <1>3, <1>4, <2>2
    <3>2. PICK s \in NamedIn(D) : s < c /\ k = RankIn(D, s)
      BY <3>1 DEF ListedIn
    <3>3. s < c + 1
      BY <3>2 DEF NamedIn
    <3> QED BY <3>2, <3>3
  <2> QED BY <2>1, <2>2
<1>7. ListedIn(D, c + 1, a)
  BY <1>3, <1>4, <1>5, <1>6 DEF ListedIn
<1> QED BY <1>2, <1>7

LEMMA ListedNameless ==
  ASSUME NEW D \in Seq(Entries), NEW c \in 1..Len(D), NEW l \in Seq(Name),
         ListedIn(D, c, l), c \notin NamedIn(D)
  PROVE  ListedIn(D, c + 1, l)
<1>1. Len(l) = RankIn(D, (c + 1) - 1)
  BY RankIs DEF ListedIn
<1>2. \A s \in NamedIn(D) : s < c + 1 <=> s < c
  BY DEF NamedIn
<1> QED BY <1>1, <1>2 DEF ListedIn

LEMMA ListedNone ==
  ASSUME NEW D \in Seq(Entries)
  PROVE  ListedIn(D, 1, <<>>)
<1>1. \A s \in NamedIn(D) : ~(s < 1)
  BY DEF NamedIn
<1>2. Len(<<>>) = 0 /\ 1 - 1 = 0 /\ 1..0 = {}
  BY EmptySeq
<1> QED BY <1>1, <1>2, RankFirst DEF ListedIn

(***************************************************************************)
(* The listing in progress: it has given what is before some entry, which  *)
(* is the next one, or the one it was cut short at.                        *)
(***************************************************************************)
Listing ==
  /\ op.kind = "list" /\ ~DirFound => slot = 1 /\ listed = <<>>
  /\ DirFound => \E c \in 1..(Len(Dir) + 1) :
       /\ ListedIn(Dir, c, listed)
       /\ \/ c = slot
          \/ /\ slot = Len(Dir) + 1
             /\ fault # {} \/ \E s \in Named : Dir[s].kind = "stale"

LEMMA DirIs ==
  IInv /\ DirFound => Dir \in Seq(Entries) /\ Named = NamedIn(Dir) /\ Object(ret.node) \in Obj
<1> SUFFICES ASSUME IInv, DirFound
             PROVE  Dir \in Seq(Entries) /\ Named = NamedIn(Dir) /\ Object(ret.node) \in Obj
  OBVIOUS
<1>1. Object(ret.node) \in Obj
  BY ResultIs DEF DirFound, IInv
<1> QED BY <1>1, SlotsAssumption DEF Dir, Entries, Named, NamedIn

(* A step of the listing leaves the directory where it is.                 *)
LEMMA DirStays ==
  ASSUME UNCHANGED <<heap, stack, ret, op>>
  PROVE  (DirFound' <=> DirFound) /\ Dir' = Dir /\ (Named' = Named)
BY DEF DirFound, Returned, FoundType, Dir, Object, Named

LEMMA ListsOn ==
  ASSUME IInv, Listing, ListEntry \/ ListNameless \/ ListCut
  PROVE  Listing'
<1>1. /\ DirFound /\ slot <= Len(Dir) /\ UNCHANGED <<heap, stack, ret, op>>
      /\ slot \in Nat \ {0} /\ listed \in Seq(Name)
  BY DEF ListEntry, ListNameless, ListCut, ListLeft, vars, IInv, Kept
<1>2. PICK D \in Seq(Entries) : D = Dir /\ Named = NamedIn(D)
  BY <1>1, DirIs
<1>3. DirFound' /\ Dir' = D /\ Named' = NamedIn(D)
  BY <1>1, <1>2, DirStays
<1>4. slot \in 1..Len(D) /\ slot # Len(D) + 1
  BY <1>1, <1>2
<1>5. ListedIn(D, slot, listed)
  BY <1>1, <1>2, <1>4 DEF Listing
<1>6. CASE ListEntry
  <2>1. slot \in NamedIn(D) /\ slot' = slot + 1 /\ listed' = Append(listed, D[slot].name)
    BY <1>2, <1>4, <1>6 DEF ListEntry, OnwardTo, NamedIn
  <2>2. ListedIn(D, slot', listed') /\ slot' \in 1..(Len(D) + 1)
    BY <1>1, <1>4, <1>5, <2>1, ListedNamed
  <2> QED BY <1>3, <2>2 DEF Listing
<1>7. CASE ListNameless
  <2>1. slot \notin NamedIn(D) /\ slot' = slot + 1 /\ listed' = listed
    BY <1>2, <1>7 DEF ListNameless, OnwardTo, NamedIn
  <2>2. ListedIn(D, slot', listed') /\ slot' \in 1..(Len(D) + 1)
    BY <1>1, <1>4, <1>5, <2>1, ListedNameless
  <2> QED BY <1>3, <2>2 DEF Listing
<1>8. CASE ListCut
  <2>1. listed' = listed /\ slot' = Len(D) + 1
    BY <1>2, <1>8 DEF ListCut, OnwardTo
  <2>2. fault' # {} \/ \E s \in NamedIn(D) : D[s].kind = "stale"
    <3>1. CASE D[slot].kind = "stale"
      BY <1>4, <3>1 DEF NamedIn
    <3>2. CASE D[slot].kind # "stale"
      BY <1>2, <1>8, <3>2 DEF ListCut, Failing
    <3> QED BY <3>1, <3>2
  <2>3. slot \in 1..(Len(D) + 1)
    BY <1>4
  <2> QED BY <1>3, <1>5, <2>1, <2>2, <2>3 DEF Listing
<1> QED BY <1>6, <1>7, <1>8

(* A lookup for a listing begins, goes on and ends before the listing.     *)
LEMMA ListsNothingYet ==
  ASSUME IInv', slot' = 1, listed' = <<>>
  PROVE  Listing'
<1>0. (IInv /\ DirFound => Dir \in Seq(Entries) /\ Named = NamedIn(Dir) /\ Object(ret.node) \in Obj)'
  BY DirIs, PTL
<1>1. ASSUME DirFound'
      PROVE  \E c \in 1..(Len(Dir) + 1)' : ListedIn(Dir, c, listed)' /\ c = slot'
  <2>1. PICK D \in Seq(Entries) : D = Dir'
    BY <1>0, <1>1
  <2>2. ListedIn(D, 1, <<>>) /\ 1 \in 1..(Len(D) + 1)
    BY ListedNone
  <2> QED BY <2>1, <2>2
<1> QED BY <1>1 DEF Listing

LEMMA NotListing ==
  ASSUME op'.kind # "list"
  PROVE  Listing'
BY DEF Listing, DirFound, Returned

LEMMA DokanNextLists ==
  ASSUME IInv, Listing, [DokanNext]_dokanvars, Intact'
  PROVE  Listing'
<1>1. IInv'
  BY DokanNextKeeps
<1>2. CASE \E f \in File : \E path \in Paths : CreateFile(f, path)
  <2>1. op'.kind = "open"
    BY <1>2 DEF CreateFile, Ask
  <2> QED BY <2>1, NotListing
<1>3. CASE \E f \in File : \E path \in Paths : FindFiles(f, path)
  BY <1>1, <1>3, ListsNothingYet DEF FindFiles
<1>4. CASE FileCreated \/ FilesFound
  <2>1. op'.kind = "none"
    BY <1>4 DEF FileCreated, FilesFound, OpenEnds, ListEnds, OpDone, NoOp
  <2> QED BY <2>1, NotListing
<1>5. CASE \E f \in File : OpenDirectory(f) \/ CloseFile(f) \/ ReadFile(f) \/ GetFileInformation(f) \/ Change(f)
  <2>1. op = NoOp /\ op' = op
    BY <1>5 DEF OpenDirectory, CloseFile, ReadFile, GetFileInformation, Change, Idle, IInv,
      Calling, Close, vars
  <2> QED BY <2>1, NotListing DEF NoOp
<1>6. CASE Lookup
  <2>1. op' = op /\ stack # <<>> /\ slot' = slot /\ listed' = listed
    BY <1>6 DEF Lookup, lvars, LookupStep, EmptyPath, NotDirectory, SearchFails, SearchFinds,
      Searching, NestExceeded, LinkUnreadable, Follow, Resume, Found, Running
  <2>2. ~DirFound
    BY <2>1 DEF DirFound, Returned
  <2>3. CASE op.kind = "list"
    BY <1>1, <2>1, <2>2, <2>3, ListsNothingYet DEF Listing
  <2> QED BY <2>1, <2>3, NotListing
<1>7. CASE ListEntry \/ ListNameless \/ ListCut
  BY <1>7, ListsOn
<1>8. CASE UNCHANGED dokanvars
  <2>1. UNCHANGED <<heap, stack, ret, op, slot, listed, fault>>
    BY <1>8 DEF dokanvars, vars, lvars
  <2>2. (DirFound' <=> DirFound) /\ Dir' = Dir /\ Named' = Named
    BY <2>1, DirStays
  <2> QED BY <2>1, <2>2 DEF Listing
<1> QED BY <1>2, <1>3, <1>4, <1>5, <1>6, <1>7, <1>8 DEF DokanNext, CallbackStep, Undefined

LEMMA ListingIsPrefix ==
  ASSUME IInv, Listing
  PROVE  ListingPrefix
<1> SUFFICES ASSUME DirFound PROVE ListingPrefix
  BY DEF ListingPrefix
<1>1. PICK D \in Seq(Entries) : D = Dir /\ Named = NamedIn(D)
  BY DirIs
<1>2. PICK o \in Obj : o = Object(ret.node)
  BY DirIs
<1>3. PICK c \in 1..(Len(D) + 1) :
        /\ ListedIn(D, c, listed)
        /\ \/ c = slot
           \/ /\ slot = Len(D) + 1
              /\ fault # {} \/ \E s \in NamedIn(D) : D[s].kind = "stale"
  BY <1>1 DEF Listing
<1>4. listed \in Seq(Name) /\ DOMAIN listed = 1..Len(listed) /\ Len(listed) = RankIn(D, c - 1)
  BY <1>3 DEF IInv, Kept, ListedIn
<1>5. \A s \in NamedIn(D) : Rank(s) = RankIn(D, s)
  BY <1>1 DEF Rank, RankIn
<1>6. ASSUME NEW k \in DOMAIN listed
      PROVE  \E s \in NamedIn(D) : k = Rank(s) /\ listed[k] = D[s].name
  <2>1. PICK s \in NamedIn(D) : s < c /\ k = RankIn(D, s)
    BY <1>3, <1>4, <1>6 DEF ListedIn
  <2> QED BY <1>3, <1>5, <2>1 DEF ListedIn
<1>7. ASSUME slot > Len(D), fault = {}, \A s \in NamedIn(D) : D[s].kind # "stale"
      PROVE  /\ \A s \in NamedIn(D) : Rank(s) \in DOMAIN listed
             /\ Names(ret.node) = { listed[k] : k \in DOMAIN listed }
  <2>1. c = Len(D) + 1 /\ Len(D) \in Nat
    BY <1>3, <1>7
  <2>2. ASSUME NEW s \in NamedIn(D)
        PROVE  s < c /\ RankIn(D, s) \in 1..Len(listed) /\ listed[RankIn(D, s)] = D[s].name
    <3>1. s < c
      BY <2>1 DEF NamedIn
    <3> QED BY <1>3, <1>4, <3>1, RankGrows DEF ListedIn
  <2>3. NamedIn(D) = { s \in DOMAIN D : D[s].kind = "live" }
    <3>1. ASSUME NEW s \in DOMAIN D PROVE D[s].kind \in {"live", "stale", "nameless"}
      <4>1. PICK e \in Entries : e = D[s]
        BY ElementOfSeq
      <4> QED BY <4>1 DEF Entries
    <3> QED BY <1>7, <3>1 DEF NamedIn
  <2>4. Names(ret.node) = { D[s].name : s \in NamedIn(D) }
    <3>1. /\ DOMAIN Entry[o] = { D[s].name : s \in { j \in DOMAIN D : D[j].kind = "live" } }
          /\ DOMAIN Stale[o] =
               { D[s].name : s \in { j \in DOMAIN D : D[j].kind = "stale" /\ First(D, j) } }
      BY <1>1, <1>2, SlotsAssumption DEF Dir
    <3>2. { j \in DOMAIN D : D[j].kind = "stale" /\ First(D, j) } = {}
      BY <1>7 DEF NamedIn
    <3>3. DOMAIN Stale[o] = {}
      BY <3>1, <3>2
    <3> QED BY <1>2, <2>3, <3>1, <3>3 DEF Names, StaleNames
  <2>5. ASSUME NEW k \in DOMAIN listed PROVE \E s \in NamedIn(D) : listed[k] = D[s].name
    BY <1>6
  <2>6. ASSUME NEW s \in NamedIn(D) PROVE \E k \in DOMAIN listed : listed[k] = D[s].name
    BY <1>4, <2>2
  <2>7. { D[s].name : s \in NamedIn(D) } = { listed[k] : k \in DOMAIN listed }
    BY <2>5, <2>6
  <2> QED BY <1>4, <1>5, <2>2, <2>4, <2>7
<1> QED BY <1>1, <1>6, <1>7 DEF ListingPrefix

(***************************************************************************)
(* __FindFiles (eokan.c:259-275) with ext4fs_iterate_dir (ext4.c:591-711)  *)
(* gives the names of the directory in its order, each once, for every     *)
(* directory; and all of them, which are those a lookup finds, when it met *)
(* no deleted entry and no failure.  (As long as something was left of     *)
(* every link.)                                                            *)
(***************************************************************************)
THEOREM ListsInOrder == DokanSpec => []ListingPrefix
<1>1. DokanInit => (Intact => Listing)
  BY DEF DokanInit, Init, NoOp, Listing, DirFound, Returned
<1>2. (Intact => IInv) /\ (Intact => Listing) /\ [DokanNext]_dokanvars => (Intact => Listing)'
  BY IntactBefore, DokanNextLists
<1>3. (Intact => IInv) /\ (Intact => Listing) => ListingPrefix
  BY ListingIsPrefix DEF ListingPrefix
<1> QED BY <1>1, <1>2, <1>3, Invariance, PTL DEF DokanSpec
=============================================================================
