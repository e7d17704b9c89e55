----------------------------- MODULE PathLookup -----------------------------
(***************************************************************************)
(* Looking up a path and owning what it finds: ext4fs_find_file1 and       *)
(* ext4fs_find_file (ext4.c:744-867) with the directory search of          *)
(* ext4fs_iterate_dir (591-711), on behalf of ext4fs_open (914-942) and    *)
(* ext4fs_list_files (1003-1022), and ext4fs_file_entry_close (878-886).   *)
(*                                                                         *)
(* Nodes come from zalloc and are given back by ext4fs_free_node, which    *)
(* spares the root of the file system and the node the running call of     *)
(* find_file1 started from: a symbolic link is followed by a recursive     *)
(* call that starts from a node its caller still owns.  The stack of       *)
(* frames below is that recursion.  Dokan runs with one thread             *)
(* (eokan.c:497), so one lookup runs at a time.  DokanOps says who asks    *)
(* and steps these actions.                                                *)
(*                                                                         *)
(* The file system is a constant: what a directory search finds and where  *)
(* a symbolic link points.  A search compares deleted entries too: one at  *)
(* the beginning of a block keeps its name with inode 0, and what that is  *)
(* taken for depends on bytes before the inode tables.  Links are not      *)
(* empty, but what a failed read leaves of one may be, and then the call   *)
(* that follows it returns the node its caller frees (lines 762-765, 827). *)
(* A read of the device may fail wherever the code makes one.              *)
(***************************************************************************)
EXTENDS Integers, Sequences, FiniteSets

CONSTANTS
  Obj, RootObj,     (* the files, directories and links; the root directory  *)
  Type,             (* [Obj -> FILETYPE_*]                                   *)
  Entry,            (* [Obj -> [names of the directory -> Obj]]              *)
  Stale,            (* [Obj -> [names whose first entry is a deleted one ->  *)
                    (*          the Obj that inode 0 is taken for]]          *)
  Target,           (* [Obj -> [abs, path]]: where a link points             *)
  Torn,             (* [Obj -> what a failed read may leave of that]         *)
  Name,             (* the names a path is made of                           *)
  Paths,            (* the paths the system asks for                         *)
  Node,             (* the memory there is for nodes                         *)
  Handle,           (* the files that can be open at a time                  *)
  MaxNest           (* the 8 of line 799                                     *)

FileType == {"DIRECTORY", "REG", "SYMLINK"}
Root == "root node"     (* &fs->ext4fs_root->diropen                         *)
NoNode == "no node"
Free == "free"
Unset == "unset"        (* *foundtype was not assigned                       *)

ASSUME TreeAssumption ==
  /\ RootObj \in Obj /\ Type \in [Obj -> FileType]
  /\ Type[RootObj] = "DIRECTORY"
  /\ \A o \in Obj : \A n \in DOMAIN Entry[o] : n \in Name /\ Entry[o][n] \in Obj
  /\ \A o \in Obj : \A n \in DOMAIN Stale[o] : n \in Name /\ Stale[o][n] \in Obj
  /\ \A o \in Obj : Target[o].abs \in BOOLEAN /\ Target[o].path \in Seq(Name)
  /\ \A o \in Obj : Type[o] = "SYMLINK" /\ ~Target[o].abs => Target[o].path # <<>>
  /\ \A o \in Obj : \A t \in Torn[o] : t.abs \in BOOLEAN /\ t.path \in Seq(Name)
  /\ Paths \subseteq Seq(Name)
ASSUME MemoryAssumption ==
  /\ IsFiniteSet(Node) /\ Root \notin Node /\ NoNode \notin Node
  /\ Free \notin Obj /\ MaxNest \in Nat \ {0}

VARIABLES
  heap,       (* what each node describes, or Free                           *)
  stack,      (* the calls of find_file1, the innermost last                 *)
  nest,       (* symlinknest, shared by all calls of a lookup                *)
  ret,        (* status, node and type of the call that just returned        *)
  op,         (* who asked: none, open or list, and for which path           *)
  fault,      (* what went wrong in this lookup (Fault); "empty" stays       *)
  handle      (* the node of each open file                                  *)

vars == <<heap, stack, nest, ret, op, fault, handle>>

(* A read or an allocation failed; a deleted entry was taken for one; a    *)
(* link of which a read had left a part was followed; a link that leads to *)
(* the root itself; one of which nothing is left, with a node to lose.     *)
Fault == {"failed", "deleted", "torn", "root", "empty"}

Ref == Node \cup {Root, NoNode}
NoRet == [status |-> -1, node |-> NoNode, type |-> Unset]
NoOp == [kind |-> "none", path |-> <<>>]

Object(ref) == IF ref = Root THEN RootObj ELSE heap[ref]
Top == stack[Len(stack)]
SetTop(f) == [stack EXCEPT ![Len(stack)] = f]
Pop == SubSeq(stack, 1, Len(stack) - 1)

Frame(path, root) ==
  [rest |-> path, root |-> root, node |-> root, old |-> NoNode,
   type |-> "DIRECTORY", at |-> "search"]

(* ext4fs_free_node on each of refs: the root and currroot are spared.     *)
FreedWithRoot(refs, currroot) ==
  [n \in Node |-> IF n \in refs THEN Free ELSE heap[n]]

Freed(refs, currroot) ==
  [n \in Node |-> IF n \in refs \ {currroot} THEN Free ELSE heap[n]]

TypeOK ==
  /\ heap \in [Node -> Obj \cup {Free}]
  /\ \A k \in DOMAIN stack :
       /\ stack[k].rest \in Seq(Name) /\ stack[k].type \in FileType
       /\ {stack[k].root, stack[k].node, stack[k].old} \subseteq Ref
       /\ stack[k].at \in {"search", "link", "call", "found"}
  /\ Len(stack) <= MaxNest /\ nest \in 0..MaxNest
  /\ ret.status \in {-1, 0, 1} /\ ret.node \in Ref
  /\ ret.type \in FileType \cup {Unset}
  /\ op # NoOp => op.kind \in {"open", "list"} /\ op.path \in Paths
  /\ fault \subseteq Fault
  /\ handle \in [Handle -> Node \cup {NoNode}]

Init ==
  /\ heap = [n \in Node |-> Free]
  /\ stack = <<>> /\ nest = 0 /\ ret = NoRet /\ op = NoOp /\ fault = {}
  /\ handle = [h \in Handle |-> NoNode]

-----------------------------------------------------------------------------
(* find_file1, one action for each way through its loop.                   *)

Return(status, node, type) ==
  /\ stack' = Pop
  /\ ret' = [status |-> status, node |-> node, type |-> type]

Running(at) ==
  /\ ret = NoRet
  /\ stack # <<>>
  /\ Top.at = at

(* Nothing but slashes: the node the call started from (lines 762-765).    *)
EmptyPath ==
  /\ Running("search") /\ Top.rest = <<>>
  /\ Return(1, Top.node, Unset)
  /\ UNCHANGED <<heap, nest, op, fault, handle>>

NotDirectory ==
  /\ Running("search") /\ Top.rest # <<>> /\ Top.type # "DIRECTORY"
  /\ heap' = Freed({Top.node}, Top.root)
  /\ Return(0, NoNode, Unset)
  /\ UNCHANGED <<nest, op, fault, handle>>

Searching ==
  /\ Running("search") /\ Top.rest # <<>> /\ Top.type = "DIRECTORY"

StaleNames(ref) == DOMAIN Stale[Object(ref)]
Names(ref) == DOMAIN Entry[Object(ref)] \cup StaleNames(ref)

Failing == fault' = fault \cup {"failed"}
Misled == fault' = fault \cup {"deleted"}

(* Line 787-788: found is 0, and currnode is not given back.  Without file *)
(* types in its entries, a directory's search reads the inode of every     *)
(* entry on its way, and ends at a deleted one if that cannot be read.     *)
SearchFails ==
  /\ Searching
  /\ \/ Head(Top.rest) \notin Names(Top.node) /\ UNCHANGED fault
     \/ StaleNames(Top.node) # {} /\ Misled
     \/ Failing
  /\ Return(0, NoNode, Unset)
  /\ UNCHANGED <<heap, nest, op, handle>>

(* The first entry of the name, whatever its inode number (line 676).      *)
FirstEntry(ref, name) ==
  IF name \in StaleNames(ref) THEN Stale[Object(ref)][name]
                              ELSE Entry[Object(ref)][name]

SearchFinds ==
  /\ Searching
  /\ Head(Top.rest) \in Names(Top.node)
  /\ LET found == FirstEntry(Top.node, Head(Top.rest))
         n == CHOOSE m \in Node : heap[m] = Free
     IN  /\ \E m \in Node : heap[m] = Free
         /\ heap' = [heap EXCEPT ![n] = found]
         /\ stack' = SetTop([Top EXCEPT
              !.old = Top.node, !.node = n, !.type = Type[found],
              !.at = IF Type[found] = "SYMLINK" THEN "link" ELSE "found"])
  /\ IF Head(Top.rest) \in StaleNames(Top.node) THEN Misled ELSE UNCHANGED fault
  /\ UNCHANGED <<nest, ret, op, handle>>

NestExceededLate ==
  /\ Running("link") /\ nest + 1 > MaxNest
  /\ nest' = nest
  /\ heap' = Freed({Top.node, Top.old}, Top.root)
  /\ Return(0, NoNode, Unset)
  /\ UNCHANGED <<op, fault, handle>>

NestExceeded ==
  /\ Running("link") /\ nest + 1 = MaxNest
  /\ nest' = nest + 1
  /\ heap' = Freed({Top.node, Top.old}, Top.root)
  /\ Return(0, NoNode, Unset)
  /\ UNCHANGED <<op, fault, handle>>

(* No memory, or its inode cannot be read: ext4fs_read_symlink gives NULL. *)
LinkUnreadable ==
  /\ Running("link") /\ nest + 1 # MaxNest
  /\ nest' = nest + 1 /\ Failing
  /\ heap' = Freed({Top.node, Top.old}, Top.root)
  /\ Return(0, NoNode, Unset)
  /\ UNCHANGED <<op, handle>>

FollowUncounted ==
  /\ Running("link")
  /\ nest' = nest
  /\ LET link == Target[Object(Top.node)]
         old  == IF link.abs THEN Root ELSE Top.old
     IN  /\ heap' = Freed({Top.node} \cup IF link.abs THEN {Top.old} ELSE {},
                          Top.root)
         /\ stack' = Append(SetTop([Top EXCEPT !.node = NoNode, !.old = old,
                                               !.at = "call"]),
                            Frame(link.path, old))
  /\ UNCHANGED <<ret, op, fault, handle>>

FollowRelative ==
  /\ Running("link") /\ nest + 1 # MaxNest
  /\ nest' = nest + 1
  /\ heap' = Freed({Top.node}, Top.root)
  /\ stack' = Append(SetTop([Top EXCEPT !.node = NoNode, !.at = "call"]),
                     Frame(Target[Object(Top.node)].path, Top.old))
  /\ UNCHANGED <<ret, op, fault, handle>>

(* The link's own node is given back, and for an absolute target so is the *)
(* directory it was found in; the recursive call starts from what is left. *)
(* A target of more than 60 bytes is read as a file is, and line 735 tests *)
(* for 0 where a failed read gives -1: what was left of it is followed.    *)
(* A target without a name is the node the call starts from, and type      *)
(* stays SYMLINK.                                                          *)
LinkFault(link, whole, old) ==
  (IF link = whole THEN {} ELSE {"torn"})
  \cup (IF link.path # <<>> THEN {} ELSE IF old = Root THEN {"root"} ELSE {"empty"})

Follow ==
  /\ Running("link") /\ nest + 1 # MaxNest
  /\ nest' = nest + 1
  /\ LET at == Object(Top.node)
     IN  \E link \in {Target[at]} \cup Torn[at] :
           LET old == IF link.abs THEN Root ELSE Top.old
           IN  /\ heap' = Freed({Top.node} \cup IF link.abs THEN {Top.old} ELSE {},
                                Top.root)
               /\ stack' = Append(SetTop([Top EXCEPT !.node = NoNode, !.old = old,
                                                     !.at = "call"]),
                                  Frame(link.path, old))
               /\ fault' = fault \cup LinkFault(link, Target[at], old)
  /\ UNCHANGED <<ret, op, handle>>

(* The recursive call is back (lines 821-829).  It may not have set type.  *)
Resume ==
  /\ stack # <<>> /\ ret # NoRet
  /\ \/ /\ ret.status = 1
        /\ stack' = SetTop([Top EXCEPT
             !.node = ret.node, !.at = "found",
             !.type = IF ret.type = Unset THEN @ ELSE ret.type])
        /\ ret' = NoRet
        /\ UNCHANGED heap
     \/ /\ ret.status = 0
        /\ heap' = Freed({Top.old}, Top.root)
        /\ Return(0, NoNode, Unset)
  /\ UNCHANGED <<nest, op, fault, handle>>

FoundKeepsOld ==
  /\ Running("found")
  /\ UNCHANGED heap
  /\ IF Len(Top.rest) = 1
     THEN Return(1, Top.node, Top.type)
     ELSE /\ stack' = SetTop([Top EXCEPT !.rest = Tail(@), !.old = NoNode,
                                         !.at = "search"])
          /\ UNCHANGED ret
  /\ UNCHANGED <<nest, op, fault, handle>>

(* One component done: the directory above is given back.                  *)
Found ==
  /\ Running("found")
  /\ heap' = Freed({Top.old}, Top.root)
  /\ IF Len(Top.rest) = 1
     THEN Return(1, Top.node, Top.type)
     ELSE /\ stack' = SetTop([Top EXCEPT !.rest = Tail(@), !.old = NoNode,
                                         !.at = "search"])
          /\ UNCHANGED ret
  /\ UNCHANGED <<nest, op, fault, handle>>

-----------------------------------------------------------------------------
(* The operations of the file system.                                      *)

Ask(kind, path) ==
  /\ op = NoOp
  /\ kind = "open" => \E h \in Handle : handle[h] = NoNode
  /\ op' = [kind |-> kind, path |-> path]
  /\ stack' = <<Frame(path, Root)>>
  /\ nest' = 0 /\ fault' = fault \cap {"empty"}
  /\ UNCHANGED <<heap, ret, handle>>

Returned(kind) == op.kind = kind /\ stack = <<>> /\ ret # NoRet

(* What the caller of find_file sees: the type it wants or DIRECTORY, the  *)
(* initial value of foundtype (line 849).                                  *)
FoundType == IF ret.type = Unset THEN "DIRECTORY" ELSE ret.type

(* find_file returns, and its locals are gone.                             *)
OpDone ==
  op' = NoOp /\ ret' = NoRet /\ nest' = 0 /\ fault' = fault \cap {"empty"}

OpenFreesFound ==
  /\ Returned("open")
  /\ heap' = Freed({ret.node}, Root)
  /\ \/ /\ ret.status = 1 /\ FoundType = "REG"
        /\ \E h \in Handle :
             /\ handle[h] = NoNode
             /\ handle' = [handle EXCEPT ![h] = ret.node]
     \/ UNCHANGED handle
  /\ OpDone
  /\ UNCHANGED stack

(* ext4fs_open frees what is not a regular file or cannot be read.         *)
OpenEnds ==
  /\ Returned("open")
  /\ \/ /\ ret.status = 1 /\ FoundType = "REG"
        /\ \E h \in Handle :
             /\ handle[h] = NoNode
             /\ handle' = [handle EXCEPT ![h] = ret.node]
        /\ UNCHANGED heap
     \/ /\ ret.status = 1
        /\ heap' = Freed({ret.node}, Root)
        /\ UNCHANGED handle
     \/ ret.status = 0 /\ UNCHANGED <<heap, handle>>
  /\ OpDone
  /\ UNCHANGED stack

(* ext4fs_list_files frees the directory it has listed, and nothing when   *)
(* the path is not a directory (lines 1014-1017).                          *)
ListEnds ==
  /\ Returned("list")
  /\ heap' = IF ret.status = 1 /\ FoundType = "DIRECTORY"
             THEN Freed({ret.node}, Root) ELSE heap
  /\ OpDone
  /\ UNCHANGED <<stack, handle>>

Close(h) ==
  /\ op = NoOp /\ handle[h] # NoNode
  /\ heap' = Freed({handle[h]}, Root)
  /\ handle' = [handle EXCEPT ![h] = NoNode]
  /\ UNCHANGED <<stack, nest, ret, op, fault>>

LookupStep ==
  \/ EmptyPath \/ NotDirectory \/ SearchFails \/ SearchFinds
  \/ NestExceeded \/ LinkUnreadable \/ Follow \/ Resume \/ Found

-----------------------------------------------------------------------------
(***************************************************************************)
(* The reference: what is still to go from an object, and how many links   *)
(* may be followed (counted for a whole lookup, as symlinknest is, and not *)
(* for how deep they nest).  A link is replaced by its target in the path  *)
(* that is left; "free" when the path leads nowhere.                       *)
(***************************************************************************)
Places == [left : 0..MaxNest, at : Obj, path : Seq(Name)]
Place(left, o, path) == [left |-> left, at |-> o, path |-> path]

Child(p) == Entry[p.at][Head(p.path)]

Stuck(p) ==
  \/ Type[p.at] # "DIRECTORY"
  \/ Head(p.path) \notin DOMAIN Entry[p.at]
  \/ Type[Child(p)] = "SYMLINK" /\ p.left = 0

Beyond(p) ==
  LET e == Child(p)
  IN  IF Type[e] # "SYMLINK" THEN Place(p.left, e, Tail(p.path))
      ELSE Place(p.left - 1, IF Target[e].abs THEN RootObj ELSE p.at,
                 Target[e].path \o Tail(p.path))

Resolve[p \in Places] ==
  IF p.path = <<>> THEN p.at ELSE IF Stuck(p) THEN Free ELSE Resolve[Beyond(p)]

(* The links that may be followed are one less than MaxNest.               *)
NamedBy(path) == Resolve[Place(MaxNest - 1, RootObj, path)]
Expected == NamedBy(op.path)
LookupOver == op # NoOp /\ stack = <<>> /\ ret # NoRet

(* The nodes somebody is going to give back: who, and which node.  A frame *)
(* does not own the node it started from.                                  *)
Owners ==
  { <<h, handle[h]>> : h \in Handle }
  \cup { <<k, "node", stack[k].node>> : k \in { j \in DOMAIN stack : stack[j].node # stack[j].root } }
  \cup { <<k, "old", stack[k].old>> : k \in { j \in DOMAIN stack : stack[j].old # stack[j].root } }
  \cup { <<"ret", ret.node>> }
OwnedBy(w) == w[Len(w)]
Owned == { OwnedBy(w) : w \in Owners } \cap Node
Leaked == { n \in Node : heap[n] # Free } \ Owned

Dangling == \E n \in Owned : heap[n] = Free

(* Nothing was left of a link (ext4.c:735), and the node its call returned *)
(* is its caller's.  Once that was freed, a frame or a result holds memory *)
(* that was given back, and what follows is undefined behaviour.           *)
Intact == "empty" \notin fault
Corrupt == ~Intact /\ Dangling

(***************************************************************************)
(* No node is used or given back after it was given back, and none is      *)
(* given back twice: whatever a frame, an open file or a result refers to  *)
(* is allocated and belongs to it alone, unless nothing was left of a      *)
(* link.                                                                   *)
(***************************************************************************)
Ownership ==
  Intact =>
    /\ ~Dangling
    /\ \A w, v \in Owners : w # v /\ OwnedBy(w) \in Node => OwnedBy(w) # OwnedBy(v)
    /\ \A k \in DOMAIN stack : stack[k].root \in Node => heap[stack[k].root] # Free

(***************************************************************************)
(* A lookup that ends with a node ends with the object the path names,     *)
(* unless it followed a torn link (ext4.c:735) or took a deleted entry for *)
(* one (ext4.c:676); one that met neither, no failure and no link to the   *)
(* root itself finds it whenever there is one.  (Nothing is said once a    *)
(* link had nothing left.)                                                 *)
(***************************************************************************)
Astray == fault \cap {"torn", "deleted"} # {}

FindsWhatIsNamed ==
  LookupOver /\ Intact =>
    /\ ret.status = 1 => Astray \/ Object(ret.node) = Expected
    /\ ret.status = 0 => fault # {} \/ Expected = Free

(***************************************************************************)
(* Memory is lost only where a call gives up, and then one node at a time: *)
(* no successful step of a lookup, open, list or close leaves a node       *)
(* behind that nobody owns, unless nothing was left of a link.  (The code  *)
(* does lose one at lines 787 and 1014.)                                   *)
(***************************************************************************)
LeaksOnlyOnFailure ==
  [][Leaked' # Leaked /\ Intact' =>
       /\ Leaked \subseteq Leaked' /\ Cardinality(Leaked') = Cardinality(Leaked) + 1
       /\ \/ ret' # NoRet /\ ret'.status = 0
          \/ op.kind = "list" /\ op' = NoOp /\ FoundType # "DIRECTORY"]_vars

(***************************************************************************)
(* "Read in the symlink and follow it." (ext4.c:793): what a lookup ends   *)
(* with is a node that was not given back, and never a link, so a link to  *)
(* a directory can be listed.                                              *)
(***************************************************************************)
SymlinkFollowed ==
  (LookupOver /\ ret.status = 1) =>
    Object(ret.node) # Free /\ FoundType = Type[Object(ret.node)]
=============================================================================
