--------------------------------- MODULE Mbr ---------------------------------
(***************************************************************************)
(* Numbering the partitions of a disk: disk_get_mbr_partition and          *)
(* parse_logic_partition (disk.c:111-178), on behalf of the loop of        *)
(* mount_phydisk_parts (eokan_svc.c:425-435), which asks for 1, 2, 3, ..   *)
(* until there is none, and of the processes it starts, which ask again    *)
(* for their own number (eokan_svc.c:595).                                 *)
(*                                                                         *)
(* A number is found by counting from the start of the disk every time:    *)
(* got goes through the recursion over the extended boot records, which    *)
(* the stack of frames stands for.  Each read of a table may fail, or seem *)
(* to succeed and bring other bytes than those of the table.               *)
(*                                                                         *)
(* A disk is a constant table per sector: its entries with their type,     *)
(* their offset as it is written and their length.  A sector it has no     *)
(* table for, such as one behind its end, cannot be read.  The sums of     *)
(* sectors do not overflow 32 bits, and chains of boot records have an end.*)
(*                                                                         *)
(* This module has the operations; Launch steps them on behalf of the      *)
(* service and of the processes.                                           *)
(***************************************************************************)
EXTENDS Integers, Sequences

CONSTANTS
  Disks,        (* the disks there may be: [sector -> sequence of entries]   *)
  Strays,       (* what bytes that are no table of the disk may describe     *)
  MaxPart       (* the 16 of mount_phydisk_parts                             *)

EntryType == {"unused", "extended", "data"}

(* A boot record and its entries: 4 in sector 0, 2 anywhere else.          *)
TableSize(level) == IF level = 1 THEN 4 ELSE 2

EntryRecord == [type : EntryType, off : Nat, len : Nat]

ASSUME DisksAssumption ==
  /\ MaxPart \in Nat
  /\ \A d \in Disks : 0 \in DOMAIN d /\ \A s \in DOMAIN d :
       /\ s \in Nat
       /\ DOMAIN d[s] = 1..TableSize(IF s = 0 THEN 1 ELSE 2)
       /\ \A x \in DOMAIN d[s] : d[s][x] \in EntryRecord

(* The sectors at which the extended partitions of sector 0 begin, and the *)
(* boot records of one, by their offset in it: every set of them has one   *)
(* with no link to another of the set, so a chain of links has an end.     *)
Logics(d) == { d[0][x].off : x \in { y \in 1..4 : d[0][y].type = "extended" } }
Records(d, logic) == { s - logic : s \in { q \in DOMAIN d : q >= logic } }

ASSUME ChainsEnd ==
  \A d \in Disks : \A logic \in Logics(d) :
    \A T \in SUBSET Records(d, logic) :
      T # {} =>
        \E s \in T : \A x \in 1..2 :
          d[logic + s][x].type = "extended" => d[logic + s][x].off \notin T

Extent == [off : Nat, len : Nat]
ASSUME StraysAssumption == Strays \subseteq Extent

Null == [off |-> -1, len |-> -1]

VARIABLES
  disk,
  phase,        (* scan, or open once the loop of the service is over        *)
  no,           (* the number asked for, 0 between two calls                 *)
  stack,        (* the tables being parsed, the innermost last               *)
  got,          (* partitions counted in this call                           *)
  found,        (* what the loop has found, by number                        *)
  opened,       (* what a process was given last, and for which number       *)
  fault         (* what went wrong with reads in this call, and in the scan  *)

vars == <<disk, phase, no, stack, got, found, opened, fault>>

(* The read failed, or brought other bytes.                                *)
Fault == {"failed", "stray"}
NotOpened == [no |-> 0, part |-> Null]

Frame(logic, off) == [logic |-> logic, off |-> off, x |-> 0]
Top == stack[Len(stack)]
SectorOf(frame) == frame.logic + frame.off
Below == SubSeq(stack, 1, Len(stack) - 1)
NextEntry == [stack EXCEPT ![Len(stack)].x = @ + 1]

TypeOK ==
  /\ disk \in Disks
  /\ phase \in {"scan", "open"}
  /\ no \in 0..MaxPart /\ got \in 0..MaxPart
  /\ no # 0 => got < no
  /\ stack \in Seq([logic : Nat, off : Nat, x : Nat])
  /\ \A k \in DOMAIN stack :
       /\ stack[k].x # 0 => SectorOf(stack[k]) \in DOMAIN disk
       /\ stack[k].x <= TableSize(k) + 1
  /\ (no = 0) <=> (stack = <<>>)
  /\ found \in Seq(Extent) /\ Len(found) <= MaxPart
  /\ opened \in [no : 0..MaxPart, part : Extent \cup {Null}]
  /\ fault \in [scan : SUBSET Fault, call : SUBSET Fault]

Init ==
  /\ disk \in Disks
  /\ phase = "scan" /\ no = 0 /\ stack = <<>> /\ got = 0
  /\ found = <<>> /\ opened = NotOpened
  /\ fault = [scan |-> {}, call |-> {}]

-----------------------------------------------------------------------------
AskKeepsGot(number) ==
  /\ no = 0
  /\ no' = number
  /\ stack' = <<Frame(0, 0)>>
  /\ got' = got
  /\ fault' = [fault EXCEPT !.call = {}]

(* disk_get_partition(number) begins.                                      *)
Ask(number) ==
  /\ no = 0
  /\ no' = number
  /\ stack' = <<Frame(0, 0)>>
  /\ got' = 0
  /\ fault' = [fault EXCEPT !.call = {}]

(* The loop asks for the next number; line 425 stops it after 16.          *)
AskNext ==
  /\ phase = "scan" /\ Len(found) < MaxPart
  /\ Ask(Len(found) + 1)
  /\ UNCHANGED <<disk, phase, found, opened>>

ScanFull ==
  /\ phase = "scan" /\ no = 0 /\ Len(found) = MaxPart
  /\ phase' = "open"
  /\ UNCHANGED <<disk, no, stack, got, found, opened, fault>>

(* A process asks for the number it was started with; started by hand, it  *)
(* may be any number.                                                      *)
AskAgain ==
  /\ phase = "open"
  /\ \E n \in 1..MaxPart : Ask(n)
  /\ UNCHANGED <<disk, phase, found, opened>>

(* disk_get_partition returns.                                             *)
Return(part) ==
  /\ no' = 0
  /\ stack' = <<>>
  /\ IF phase = "scan"
     THEN /\ IF part = Null
             THEN phase' = "open" /\ UNCHANGED found
             ELSE found' = Append(found, part) /\ UNCHANGED phase
          /\ UNCHANGED opened
     ELSE /\ opened' = [no |-> no, part |-> part]
          /\ UNCHANGED <<phase, found>>

GiveUpEndsCall == Return(Null)

(* The innermost table gives no partition: its caller goes on behind the   *)
(* entry that led to it, and the first table ends the call.                *)
GiveUp ==
  IF Len(stack) = 1
  THEN Return(Null)
  ELSE stack' = Below /\ UNCHANGED <<phase, no, found, opened>>

ReadTable ==
  /\ stack # <<>> /\ Top.x = 0 /\ SectorOf(Top) \in DOMAIN disk
  /\ stack' = NextEntry
  /\ UNCHANGED <<disk, phase, no, got, found, opened, fault>>

Faulty(what) ==
  fault' = [scan |-> fault.scan \cup (IF phase = "scan" THEN {what} ELSE {}),
            call |-> fault.call \cup {what}]

ReadFails ==
  /\ stack # <<>> /\ Top.x = 0
  /\ Faulty("failed")
  /\ GiveUp
  /\ UNCHANGED <<disk, got>>

(* A seek that fails and a read that comes short count as reads of the     *)
(* sector (phy_disk.c:56-61).  The bytes of another sector, or what was on *)
(* the stack, are parsed: they and the records they lead to, which end as  *)
(* well, give anything, or move the count on and give nothing.             *)
ReadStray ==
  /\ stack # <<>> /\ Top.x = 0
  /\ Faulty("stray")
  /\ \/ got' = no /\ \E part \in Strays : Return(part)
     \/ got' \in got..(no - 1) /\ GiveUp
  /\ UNCHANGED disk

Entry == disk[SectorOf(Top)][Top.x]

AtEntry(type) ==
  /\ stack # <<>> /\ Top.x \in 1..TableSize(Len(stack))
  /\ Entry.type = type

Unused ==
  /\ AtEntry("unused")
  /\ stack' = NextEntry
  /\ UNCHANGED <<disk, phase, no, got, found, opened, fault>>

ExtendedStays ==
  /\ AtEntry("extended")
  /\ stack' = Append(stack, IF Len(stack) = 1 THEN Frame(Entry.off, 0)
                                              ELSE Frame(Top.logic, Entry.off))
  /\ UNCHANGED <<disk, phase, no, got, found, opened, fault>>

(* A boot record's links count from the start of the extended partition.   *)
Extended ==
  /\ AtEntry("extended")
  /\ stack' = Append(NextEntry, IF Len(stack) = 1
                                THEN Frame(Entry.off, 0)
                                ELSE Frame(Top.logic, Entry.off))
  /\ UNCHANGED <<disk, phase, no, got, found, opened, fault>>

PartitionFromLogic ==
  /\ AtEntry("data")
  /\ got' = got + 1
  /\ IF got' = no
     THEN Return([off |-> Top.logic + Entry.off, len |-> Entry.len])
     ELSE stack' = NextEntry /\ UNCHANGED <<phase, no, found, opened>>
  /\ UNCHANGED <<disk, fault>>

PartitionLate ==
  /\ AtEntry("data")
  /\ got' = got + 1
  /\ IF got = no
     THEN Return([off |-> SectorOf(Top) + Entry.off, len |-> Entry.len])
     ELSE stack' = NextEntry /\ UNCHANGED <<phase, no, found, opened>>
  /\ UNCHANGED <<disk, fault>>

(* A partition counts from the boot record it is written in.               *)
Partition ==
  /\ AtEntry("data")
  /\ got' = got + 1
  /\ IF got' = no
     THEN Return([off |-> SectorOf(Top) + Entry.off, len |-> Entry.len])
     ELSE stack' = NextEntry /\ UNCHANGED <<phase, no, found, opened>>
  /\ UNCHANGED <<disk, fault>>

TableDone ==
  /\ stack # <<>> /\ Top.x > TableSize(Len(stack))
  /\ GiveUp
  /\ UNCHANGED <<disk, got, fault>>

Parse ==
  ReadTable \/ ReadFails \/ ReadStray \/ Unused \/ Extended \/ Partition \/ TableDone

-----------------------------------------------------------------------------
(***************************************************************************)
(* The reference: the partitions of the disk in the order of its tables.   *)
(* The boot records of an extended partition are a list: Logical(logic)[s] *)
(* is what the record at logic + s and those behind it describe, nothing   *)
(* if there is none.                                                       *)
(***************************************************************************)
Logical(logic) ==
  LET list[s \in Nat] ==
        LET table == disk[logic + s]
            part(x) == CASE table[x].type = "unused" -> <<>>
                         [] table[x].type = "data" ->
                              <<[off |-> logic + s + table[x].off,
                                 len |-> table[x].len]>>
                         [] OTHER -> list[table[x].off]
        IN  IF logic + s \in DOMAIN disk THEN part(1) \o part(2) ELSE <<>>
  IN  list

Listing ==
  LET part(e) == CASE e.type = "unused" -> <<>>
                   [] e.type = "data" -> <<[off |-> e.off, len |-> e.len]>>
                   [] OTHER -> Logical(e.off)[0]
      mbr == disk[0]
  IN  part(mbr[1]) \o part(mbr[2]) \o part(mbr[3]) \o part(mbr[4])

Lower(a, b) == IF a <= b THEN a ELSE b

(***************************************************************************)
(* When the service has scanned a disk it has every partition the tables   *)
(* describe, primary and logical, once and in order, up to the 16th, if    *)
(* all tables were read.  Each of its calls counts from the start.         *)
(***************************************************************************)
ScanFindsAll ==
  (phase = "open" /\ fault.scan = {}) =>
     found = SubSeq(Listing, 1, Lower(MaxPart, Len(Listing)))

(***************************************************************************)
(* A table whose read fails makes numbers move down the list and nothing  *)
(* else: what is handed out is a partition of the disk, and none that lies *)
(* before the partition of the number asked for.  (Bytes that are no table *)
(* of the disk but were read as one may give anything.)                    *)
(***************************************************************************)
NeverBefore ==
  LET names(n, part) == \E k \in n..Len(Listing) : Listing[k] = part
  IN  /\ "stray" \notin fault.scan => \A n \in DOMAIN found : names(n, found[n])
      /\ (no = 0 /\ "stray" \notin fault.call /\ opened.part # Null) =>
           names(opened.no, opened.part)

(***************************************************************************)
(* A number leads a process to the partition the service looked at under   *)
(* it, and to none where the service found none, if every table was read   *)
(* when either of them counted.                                            *)
(***************************************************************************)
SameAsScanned ==
  (no = 0 /\ opened.no # 0 /\ fault.scan = {} /\ fault.call = {}) =>
     opened.part = IF opened.no \in DOMAIN found THEN found[opened.no] ELSE Null
=============================================================================
