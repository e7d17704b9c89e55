------------------------------- MODULE DokanOps -------------------------------
(***************************************************************************)
(* The callbacks of eokan.c (73-439) that Dokan calls for the drive, on    *)
(* top of the lookups of PathLookup: what a DOKAN_FILE_INFO keeps in its   *)
(* Context between them, and the listing of a directory entry by entry     *)
(* (ext4fs_iterate_dir, 591-711, without a name).                          *)
(*                                                                         *)
(* Dokan is external and calls as dokan.h (62-271) says: CreateFile or     *)
(* OpenDirectory for a file object, any callback on an open one, CloseFile *)
(* at its end; its one thread makes one call at a time (eokan.c:497).      *)
(***************************************************************************)
EXTENDS PathLookup

CONSTANTS
  File,       (* Dokan's file objects                                        *)
  Slots       (* [Obj -> Seq of directory entries in the order of the disk]  *)

NoContext == "0"
Anything == <<"?">>         (* a path that led astray                        *)
NoData == "untouched"       (* the reply was left as Dokan passed it         *)
Minus1 == "-1 bytes"        (* *ReadLength = -1, 4294967295 to Dokan         *)

(* An entry is live, or stale (a deleted one at the beginning of a block   *)
(* keeps its name with inode 0), or has no name.  A search stops at the    *)
(* first entry of a name.                                                  *)
First(dir, k) == \A j \in 1..(k - 1) :
                   dir[j].kind = "nameless" \/ dir[j].name # dir[k].name

ASSUME SlotsAssumption ==
  /\ NoContext \notin Handle /\ Anything \notin Paths
  /\ NoData \notin Obj /\ Minus1 \notin Obj
  /\ \A o \in Obj :
       /\ Slots[o] \in Seq([name : Name, kind : {"live", "stale", "nameless"}])
       /\ { Slots[o][k].name : k \in { j \in DOMAIN Slots[o] : Slots[o][j].kind = "live" } }
            = DOMAIN Entry[o]
       /\ { Slots[o][k].name : k \in { j \in DOMAIN Slots[o] :
                                        Slots[o][j].kind = "stale" /\ First(Slots[o], j) } }
            = DOMAIN Stale[o]

VARIABLES
  context,    (* Context of each file object                                 *)
  opened,     (* the file objects Dokan has open                             *)
  named,      (* the path a file object with a context was created with      *)
  call,       (* the callback in progress: op, file                          *)
  slot,       (* where the listing is in the directory                       *)
  listed,     (* the names it gave to FillFindData                           *)
  last        (* the last callback: what it returned, and for a reply with   *)
              (* data the file object and the object the data came from      *)

kvars == <<context, opened, named>>
lvars == <<slot, listed>>
dokanvars == <<vars, kvars, call, lvars, last>>

NoCall == [op |-> "none", file |-> NoContext]
Reply(status, f, from) == [ret |-> status, file |-> f, from |-> from]
Success == Reply(0, NoContext, NoData)

DokanTypeOK ==
  /\ TypeOK
  /\ context \in [File -> Handle \cup {NoContext}] /\ opened \subseteq File
  /\ named \in [File -> Paths \cup {<<>>, Anything}]
  /\ call \in [op : {"none", "CreateFile", "FindFiles"}, file : File \cup {NoContext}]
  /\ slot \in Nat /\ listed \in Seq(Name)
  /\ last \in [ret : {-1, 0}, file : File \cup {NoContext},
               from : Obj \cup {NoData, Minus1}]

DokanInit ==
  /\ Init
  /\ context = [f \in File |-> NoContext] /\ opened = {}
  /\ named = [f \in File |-> <<>>]
  /\ call = NoCall /\ slot = 1 /\ listed = <<>> /\ last = Success

Idle == call = NoCall

-----------------------------------------------------------------------------
(* __CreateFile, __OpenDirectory, __CloseFile.                             *)

(* A file: vfs_open begins.                                                *)
CreateFile(f, path) ==
  /\ Idle /\ f \notin opened
  /\ Ask("open", path)
  /\ call' = [op |-> "CreateFile", file |-> f]
  /\ named' = [named EXCEPT ![f] = path]
  /\ last' = Success
  /\ UNCHANGED <<context, opened, lvars>>

(* The lookup is back.  Found or not, 0 is returned.                       *)
FileCreated ==
  /\ call.op = "CreateFile"
  /\ OpenEnds
  /\ LET f   == call.file
         new == { h \in Handle : handle'[h] # handle[h] }
     IN  /\ context' = [context EXCEPT
              ![f] = IF new = {} THEN NoContext ELSE CHOOSE h \in new : TRUE]
         /\ named' = [named EXCEPT ![f] = CASE new = {} -> <<>>
                                             [] Astray -> Anything
                                             [] OTHER -> @]
         /\ opened' = opened \cup {f}
         /\ last' = Success
  /\ call' = NoCall
  /\ UNCHANGED lvars

(* OpenDirectory, or CreateFile of what Dokan knows to be a directory: the *)
(* context is 0, and nothing is looked up.                                 *)
OpenDirectory(f) ==
  /\ Idle /\ f \notin opened
  /\ opened' = opened \cup {f}
  /\ context' = [context EXCEPT ![f] = NoContext]
  /\ last' = Success
  /\ UNCHANGED <<vars, named, call, lvars>>

CloseFileKeepsContext(f) ==
  /\ Idle /\ f \in opened
  /\ IF context[f] # NoContext
     THEN Close(context[f])
     ELSE UNCHANGED vars
  /\ opened' = opened \ {f}
  /\ last' = Success
  /\ UNCHANGED <<context, named, call, lvars>>

CloseFile(f) ==
  /\ Idle /\ f \in opened
  /\ IF context[f] # NoContext
     THEN Close(context[f])
     ELSE UNCHANGED vars
  /\ context' = [context EXCEPT ![f] = NoContext]
  /\ named' = [named EXCEPT ![f] = <<>>]
  /\ opened' = opened \ {f}
  /\ last' = Success
  /\ UNCHANGED <<call, lvars>>

-----------------------------------------------------------------------------
(* Callbacks on an open file object that change nothing of it.             *)

Data(f) == Object(handle[context[f]])

(* Without a context the reply is left alone; ext4fs_read_file fails or    *)
(* not, and 0 is returned.                                                 *)
ReadFile(f) ==
  /\ Idle /\ f \in opened
  /\ IF context[f] = NoContext
     THEN last' = Success
     ELSE last' \in { Reply(0, f, from) : from \in {Data(f), Minus1} }
  /\ UNCHANGED <<vars, kvars, call, lvars>>

GetFileInformation(f) ==
  /\ Idle /\ f \in opened
  /\ last' = IF context[f] = NoContext THEN Success ELSE Reply(0, f, Data(f))
  /\ UNCHANGED <<vars, kvars, call, lvars>>

(* The callbacks that would change the drive or its files do nothing, and  *)
(* say that they did: DeleteDirectory alone refuses.                       *)
Change(f) ==
  /\ Idle /\ f \in opened
  /\ last' \in {Success, Reply(-1, NoContext, NoData)}
  /\ UNCHANGED <<vars, kvars, call, lvars>>

-----------------------------------------------------------------------------
(* __FindFiles: vfs_dir_iterate, with list_all_files for each entry.       *)

FindFiles(f, path) ==
  /\ Idle /\ f \in opened
  /\ Ask("list", path)
  /\ call' = [op |-> "FindFiles", file |-> f]
  /\ slot' = 1 /\ listed' = <<>> /\ last' = Success
  /\ UNCHANGED kvars

DirFound == Returned("list") /\ ret.status = 1 /\ FoundType = "DIRECTORY"
Dir == Slots[Object(ret.node)]
ListLeft == DirFound /\ slot <= Len(Dir)
OnwardTo(k) == slot' = k

(* An entry is given to FillFindData once its inode is read; inode 0 may   *)
(* be read too, as anything.                                               *)
ListEntry ==
  /\ ListLeft /\ Dir[slot].kind \in {"live", "stale"}
  /\ listed' = Append(listed, Dir[slot].name)
  /\ OnwardTo(slot + 1)
  /\ UNCHANGED <<vars, kvars, call, last>>

ListNamelessStays ==
  /\ ListLeft /\ Dir[slot].kind = "nameless"
  /\ OnwardTo(slot)
  /\ UNCHANGED <<vars, kvars, call, listed, last>>

ListNameless ==
  /\ ListLeft /\ Dir[slot].kind = "nameless"
  /\ OnwardTo(slot + 1)
  /\ UNCHANGED <<vars, kvars, call, listed, last>>

ListSkipsUnreadable ==
  /\ ListLeft
  /\ IF Dir[slot].kind = "stale" THEN UNCHANGED fault ELSE Failing
  /\ OnwardTo(slot + 1)
  /\ UNCHANGED <<heap, stack, nest, ret, op, handle, kvars, call, listed, last>>

(* A read or an allocation fails, or inode 0 cannot be read: the entries   *)
(* that follow are not listed.                                             *)
ListCut ==
  /\ ListLeft
  /\ IF Dir[slot].kind = "stale" THEN UNCHANGED fault ELSE Failing
  /\ OnwardTo(Len(Dir) + 1)
  /\ UNCHANGED <<heap, stack, nest, ret, op, handle, kvars, call, listed, last>>

(* Listed, cut short, or no directory: 0 is returned.                      *)
FilesFound ==
  /\ call.op = "FindFiles" /\ ~ListLeft
  /\ ListEnds
  /\ call' = NoCall
  /\ slot' = 1 /\ listed' = <<>>
  /\ last' = Success
  /\ UNCHANGED kvars

Lookup ==
  /\ LookupStep
  /\ UNCHANGED <<kvars, call, lvars, last>>

(* No promise is made of a program that uses memory it has given back: the *)
(* specification ends there.                                               *)
CallbackStep ==
  /\ ~Corrupt
  /\ Lookup \/ FileCreated \/ ListEntry \/ ListNameless \/ ListCut \/ FilesFound

Undefined == Corrupt /\ UNCHANGED dokanvars

DokanNext ==
  \/ \E f \in File :
       \/ \E path \in Paths : CreateFile(f, path) \/ FindFiles(f, path)
       \/ OpenDirectory(f) \/ CloseFile(f)
       \/ ReadFile(f) \/ GetFileInformation(f) \/ Change(f)
  \/ CallbackStep \/ Undefined

(* The thread runs a callback it has begun on, and no read has to fail.    *)
NoReadFails == fault' \cap {"failed", "torn"} \subseteq fault
Onward == CallbackStep /\ (NoReadFails \/ \A n \in Node : heap[n] # Free)
DokanSpec == DokanInit /\ [][DokanNext]_dokanvars /\ WF_dokanvars(Onward)

-----------------------------------------------------------------------------
(***************************************************************************)
(* Between callbacks the open files of the file system are exactly those   *)
(* the contexts hold, one each, and only open file objects hold one: no    *)
(* file is closed twice or left open by its last CloseFile, unless nothing *)
(* was left of a link.                                                     *)
(***************************************************************************)
ContextsHoldFiles ==
  Idle /\ Intact =>
    LET holders == { f \in File : context[f] # NoContext }
    IN  /\ holders \subseteq opened
        /\ { context[f] : f \in holders } = { h \in Handle : handle[h] # NoNode }
        /\ \A f, g \in holders : f # g => context[f] # context[g]

(***************************************************************************)
(* What a read or GetFileInformation answers comes from the file its path  *)
(* named when it was created, whatever was looked up, listed, opened and   *)
(* closed since, and nodes given back and used again, unless that led      *)
(* through a torn link or a deleted entry, or nothing was left of a link.  *)
(***************************************************************************)
AnswersFromNamed ==
  (Intact /\ last.from \in Obj /\ named[last.file] # Anything) =>
     last.from = NamedBy(named[last.file])

(* The entries with a name, live and deleted ones, in the disk's order.    *)
Named == { s \in DOMAIN Dir : Dir[s].kind # "nameless" }
Rank(s) == Cardinality({ r \in Named : r <= s })

(***************************************************************************)
(* The k-th name a listing gives is that of the directory's k-th entry     *)
(* with a name, so it gives each once and in order, however often the same *)
(* name was deleted and is used again.  A listing that met no deleted      *)
(* entry and no failure gives all of them, and exactly the names that a    *)
(* lookup finds.  (Nothing is said once a link had nothing left.)          *)
(***************************************************************************)
ListingPrefix ==
  DirFound /\ Intact =>
    /\ \A k \in DOMAIN listed : \E s \in Named : k = Rank(s) /\ listed[k] = Dir[s].name
    /\ (slot > Len(Dir) /\ fault = {} /\ \A s \in Named : Dir[s].kind # "stale") =>
         /\ \A s \in Named : Rank(s) \in DOMAIN listed
         /\ Names(ret.node) = { listed[k] : k \in DOMAIN listed }

(* A callback that has begun returns, unless it uses what it gave back.    *)
CallbackEnds == (call # NoCall) ~> (call = NoCall \/ Corrupt)
=============================================================================
