----------------------------- MODULE LaunchProof -----------------------------
(***************************************************************************)
(* Theorems about Launch, for every disk whose chains of boot records have *)
(* an end, every number of physical drives and of partitions asked for.    *)
(***************************************************************************)
EXTENDS Launch, MbrProof

-----------------------------------------------------------------------------
(***************************************************************************)
(* The inductive invariant.  What is held depends on the rung alone; each  *)
(* of service, process and eokan -u has its own rungs; the service scans   *)
(* as long as it is at a partition, with a drive left to count; and it has *)
(* started or skipped what it is done with.                                *)
(***************************************************************************)
OnDisk ==
  {"numbers", "count", "mount", "super", "root", "mounted", "serve", "umount",
   "start", "partition", "close"}

Roles ==
  /\ who \in {"service", "process", "umount"} /\ at \in Rung
  /\ kind \in {"physical", "vmdk", "unknown"} /\ drive \in 0..Drives
  /\ who = "umount" => at \in {"load", "remove", "unload", "off", "crashed"}
  /\ who = "process" => at \notin {"drive", "remove", "start", "crashed"}
  /\ who = "service" =>
       /\ kind = "physical"
       /\ at \notin {"init", "connect", "vdisk", "serve", "umount", "remove",
                     "crashed", "aborted"}
       /\ at \in OnDisk \cup {"open", "probe"} => drive < Drives
  /\ at \in {"init", "connect", "vdisk", "aborted"} => kind = "vmdk"
  /\ at \in OnDisk \cup {"probe"} => kind \in {"physical", "vmdk"}

Scanning ==
  /\ no # 0 <=> at = "count"
  /\ who # "service" => phase = "open"
  /\ who = "service" /\ at \in (OnDisk \cup {"load"}) \ {"close"} => phase = "scan"
  /\ who = "service" /\ at \in {"close", "unload", "off"} => phase = "open"

Base ==
  {"dokan", "ddev", "lock"} \cup
    IF kind = "vmdk" THEN {"vix", "init", "connection", "vdisk"} ELSE {"file"}

Held ==
  /\ at \in {"load", "off", "crashed"} => held = {}
  /\ at = "remove" => held \subseteq {"dokan"}
  /\ at \in {"drive", "open", "unload"} => held = {"dokan"}
  /\ at = "probe" => held = {"dokan", "ddev", "lock"}
  /\ at \in {"init", "aborted"} => held = {"dokan", "ddev", "lock", "vix"}
  /\ at = "connect" => held = {"dokan", "ddev", "lock", "vix", "init"}
  /\ at = "vdisk" => held = {"dokan", "ddev", "lock", "vix", "init", "connection"}
  /\ at \in {"numbers", "count", "close"} => held = Base
  /\ at \in {"mount", "start", "partition"} => held = Base \cup {"part"}
  /\ at \in {"super", "root"} => held = Base \cup {"part", "extfs"}
  /\ at = "mounted" => held = Base \cup {"part", "extfs", "fsys"}
  /\ at = "umount" =>
       held \ {"buffers"} = Base \cup {"part", "extfs", "fsys"}
  /\ at = "serve" => held = Base \cup {"part", "extfs", "fsys", "mountpoint"}

Lost ==
  /\ who = "service" => lost \subseteq {"lock", "child"}
  /\ who # "service" =>
       /\ at \notin {"partition", "close", "unload", "off"} => lost = {}
       /\ at \in {"partition", "close"} => lost \subseteq {"buffers"}
       /\ lost \subseteq {"lock", "vix", "buffers"}
       /\ "vix" \in lost => kind = "vmdk"
       /\ "buffers" \in lost => who = "process" /\ "lock" \notin lost

(* The partitions the service has done with.                               *)
Looking == who = "service" /\ at \in {"mount", "super", "root", "mounted", "start"}
DoneWith == 1..(IF Looking THEN Len(found) - 1 ELSE Len(found))
Started ==
  /\ skipped \subseteq DoneWith /\ misread \subseteq 1..Len(found)
  /\ started \subseteq DoneWith
  /\ who = "service" =>
       started \ misread = {n \in DoneWith : found[n].off \in ExtAt} \ skipped
  /\ Looking => Len(found) # 0
  /\ Looking /\ at \in {"root", "mounted", "start"} =>
       (found[Len(found)].off \in ExtAt <=> Len(found) \notin misread)
  /\ Looking /\ at \in {"mount", "super"} => Len(found) \notin misread

LaunchIInv == MbrIInv /\ Roles /\ Scanning /\ Held /\ Lost /\ Started

-----------------------------------------------------------------------------
(* What a step of disk_get_partition does for its caller.                  *)
LEMMA ParseEffect ==
  ASSUME MbrIInv, Parse
  PROVE  \/ no' = no /\ UNCHANGED <<phase, found, opened>>
         \/ \E part : Return(part)
<1>1. CASE ReadTable \/ Unused \/ Extended
  BY <1>1 DEF ReadTable, Unused, Extended
<1>2. CASE ReadFails \/ TableDone
  BY <1>2 DEF ReadFails, TableDone, GiveUp
<1>3. CASE Partition \/ ReadStray
  BY <1>3 DEF Partition, ReadStray, GiveUp
<1> QED BY <1>1, <1>2, <1>3 DEF Parse

LEMMA CountEffect ==
  ASSUME MbrIInv, Parse
  PROVE  /\ no' # 0 => no' = no /\ UNCHANGED <<phase, found, opened>>
         /\ phase = "open" => phase' = "open" /\ found' = found
         /\ no' = 0 /\ phase = "scan" /\ found' # found =>
              /\ phase' = "scan"
              /\ Len(found') = Len(found) + 1
              /\ \A n \in 1..Len(found) : found'[n] = found[n]
         /\ no' = 0 /\ phase = "scan" /\ found' = found => phase' = "open"
<1>1. TypeOK /\ found \in Seq(Extent) /\ Len(found) \in Nat
  BY LenProperties DEF MbrIInv, TypeOK
<1>2. no # 0
  <2>1. stack # <<>>
    BY DEF Parse, ReadTable, ReadFails, ReadStray, Unused, Extended, Partition, TableDone, AtEntry
  <2> QED BY <1>1, <2>1 DEF TypeOK
<1>3. CASE no' = no /\ UNCHANGED <<phase, found, opened>>
  BY <1>2, <1>3
<1>4. ASSUME NEW part, Return(part)
      PROVE  /\ no' = 0
             /\ phase = "open" => phase' = "open" /\ found' = found
             /\ phase = "scan" =>
                  \/ phase' = "open" /\ found' = found
                  \/ phase' = "scan" /\ found' = Append(found, part)
  BY <1>4 DEF Return
<1>5. ASSUME NEW part, found' = Append(found, part)
      PROVE  /\ Len(found') = Len(found) + 1
             /\ \A n \in 1..Len(found) : found'[n] = found[n]
  BY <1>1, <1>5
<1>6. CASE \E part : Return(part)
  <2>1. PICK part : Return(part)
    BY <1>6
  <2>2. CASE phase = "open"
    BY <1>4, <2>1, <2>2
  <2>3. CASE phase = "scan"
    BY <1>1, <1>4, <1>5, <2>1, <2>3
  <2> QED BY <1>1, <2>2, <2>3 DEF TypeOK
<1> QED BY <1>3, <1>6, ParseEffect

(* The rungs of each role.                                                 *)
LEMMA RolesKept ==
  ASSUME LaunchIInv, LaunchNext \/ UNCHANGED launchVars
  PROVE  Roles'
<1>1. CASE UNCHANGED launchVars
  BY <1>1 DEF LaunchIInv, Roles, Rung, Gone, OnDisk, launchVars, lvars, vars
<1>2. CASE Start
  BY <1>2, LaunchAssumption DEF LaunchIInv, Roles, Rung, Gone, OnDisk, Start, Gone,
     vars
<1>3. CASE LoadDokan
  BY <1>3, LaunchAssumption DEF LaunchIInv, Roles, Rung, Gone, OnDisk, LoadDokan,
     Take, GoTo, Still, Counting, vars
<1>4. CASE LoadFails
  BY <1>4, LaunchAssumption DEF LaunchIInv, Roles, Rung, Gone, OnDisk, LoadFails,
     Keep, GoTo, Counting
<1>5. CASE RemoveMountPoint
  BY <1>5 DEF LaunchIInv, Roles, Rung, Gone, OnDisk, RemoveMountPoint, Keep, GoTo,
     Still, Counting
<1>6. CASE NextDrive
  BY <1>6, LaunchAssumption DEF LaunchIInv, Roles, Rung, Gone, OnDisk, NextDrive,
     GoTo, Keep, Still, Counting, vars
<1>7. CASE NoMoreDrives
  BY <1>7, LaunchAssumption DEF LaunchIInv, Roles, Rung, Gone, OnDisk, NoMoreDrives,
     GoTo, Keep, Counting
<1>8. CASE AllocDisk
  BY <1>8, LaunchAssumption DEF LaunchIInv, Roles, Rung, Gone, OnDisk, AllocDisk,
     Take, GoTo, Still, Counting, vars
<1>9. CASE NoDisk
  BY <1>9, LaunchAssumption DEF LaunchIInv, Roles, Rung, Gone, OnDisk, NoDisk, Keep,
     DiskGone, GoTo, vars
<1>10. CASE OpenDevice
  BY <1>10, LaunchAssumption DEF LaunchIInv, Roles, Rung, Gone, OnDisk, OpenDevice,
     Take, GoTo, Still, Counting, vars
<1>11. CASE NoDevice
  BY <1>11, LaunchAssumption DEF LaunchIInv, Roles, Rung, Gone, OnDisk, NoDevice,
     ProbeFails, InDdev, DiskGone, GoTo, vars
<1>12. CASE LoadVix
  BY <1>12, LaunchAssumption DEF LaunchIInv, Roles, Rung, Gone, OnDisk, LoadVix,
     Take, Still, Counting, ProbeFails, InDdev, DiskGone, GoTo, vars
<1>13. CASE InitVix
  BY <1>13, LaunchAssumption DEF LaunchIInv, Roles, Rung, Gone, OnDisk, InitVix,
     Take, Still, Counting, ProbeFails, InDdev, DiskGone, GoTo, vars
<1>14. CASE Connect
  BY <1>14, LaunchAssumption DEF LaunchIInv, Roles, Rung, Gone, OnDisk, Connect,
     Take, Still, Counting, ProbeFails, InDdev, DiskGone, GoTo, vars
<1>15. CASE OpenVdisk
  BY <1>15, LaunchAssumption DEF LaunchIInv, Roles, Rung, Gone, OnDisk, OpenVdisk,
     Take, Still, Counting, ProbeFails, InDdev, DiskGone, GoTo, vars
<1>16. CASE CloseDisk
  BY <1>16, LaunchAssumption DEF LaunchIInv, Roles, Rung, Gone, OnDisk, CloseDisk,
     InDdev, DiskGone, GoTo, vars
<1>17. CASE AskNumber
  BY <1>17, LaunchAssumption DEF LaunchIInv, Roles, Rung, Gone, OnDisk, AskNumber,
     AskNext, AskAgain, Ask, GoTo, Keep, Counting
<1>18. CASE NoMoreNumbers
  BY <1>18, LaunchAssumption DEF LaunchIInv, Roles, Rung, Gone, OnDisk,
     NoMoreNumbers, ScanFull, GoTo, Keep, Counting
<1>19. CASE CountOn
  BY <1>19, LaunchAssumption DEF LaunchIInv, Roles, Rung, Gone, OnDisk, CountOn,
     Keep, Counting
<1>20. CASE Given
  BY <1>20, LaunchAssumption DEF LaunchIInv, Roles, Rung, Gone, OnDisk, Given, Take,
     GoTo, Counting
<1>21. CASE NotGiven
  BY <1>21, LaunchAssumption DEF LaunchIInv, Roles, Rung, Gone, OnDisk, NotGiven,
     Keep, GoTo, Counting
<1>22. CASE ClosePartition
  BY <1>22, LaunchAssumption DEF LaunchIInv, Roles, Rung, Gone, OnDisk,
     ClosePartition, GiveBack, GoTo, Still, Counting, vars
<1>23. CASE AllocFs
  BY <1>23, LaunchAssumption DEF LaunchIInv, Roles, Rung, Gone, OnDisk, AllocFs,
     Take, GoTo, Still, Counting, Unmountable, GiveBack, vars
<1>24. CASE ReadSuper
  BY <1>24, LaunchAssumption DEF LaunchIInv, Roles, Rung, Gone, OnDisk, ReadSuper,
     Keep, GoTo, Still, Counting, Unmountable, GiveBack, vars
<1>25. CASE ReadRoot
  BY <1>25, LaunchAssumption DEF LaunchIInv, Roles, Rung, Gone, OnDisk, ReadRoot,
     Take, GoTo, Still, Counting, Unmountable, GiveBack, vars
<1>26. CASE Umount
  BY <1>26, LaunchAssumption DEF LaunchIInv, Roles, Rung, Gone, OnDisk, Umount,
     GiveBack, GoTo, Still, Counting, vars
<1>27. CASE StartProcess
  BY <1>27, LaunchAssumption DEF LaunchIInv, Roles, Rung, Gone, OnDisk,
     StartProcess, GoTo, vars
<1>28. CASE Serve
  BY <1>28 DEF LaunchIInv, Roles, Rung, Gone, OnDisk, Held, Base, Serve, Take, Keep,
     GoTo, Still, Counting
<1>29. CASE UnloadDokan
  BY <1>29, LaunchAssumption DEF LaunchIInv, Roles, Rung, Gone, OnDisk, UnloadDokan,
     GiveBack, GoTo, Still, Counting, vars
<1>30. CASE ServeEnds
  BY <1>30, LaunchAssumption DEF LaunchIInv, Roles, Rung, Gone, OnDisk, ServeEnds,
     GiveBack, GoTo, Still, Counting, vars
<1> QED BY <1>1, <1>2, <1>3, <1>4, <1>5, <1>6, <1>7, <1>8, <1>9, <1>10, <1>11,
   <1>12, <1>13, <1>14, <1>15, <1>16, <1>17, <1>18, <1>19, <1>20, <1>21, <1>22,
   <1>23, <1>24, <1>25, <1>26, <1>27, <1>28, <1>29, <1>30 DEF LaunchNext, Ladder

(* What is held on each rung.                                              *)
LEMMA HeldKept ==
  ASSUME LaunchIInv, Roles', LaunchNext \/ UNCHANGED launchVars
  PROVE  Held'
<1>1. CASE UNCHANGED launchVars
  BY <1>1 DEF LaunchIInv, Roles, Held, OnDisk, Base, launchVars, lvars, vars
<1>2. CASE Start
  BY <1>2 DEF LaunchIInv, Roles, Held, OnDisk, Base, Start, Gone, vars
<1>3. CASE LoadDokan
  BY <1>3 DEF LaunchIInv, Roles, Held, OnDisk, Base, LoadDokan, Take, GoTo, Still,
     Counting, vars
<1>4. CASE LoadFails
  BY <1>4 DEF LaunchIInv, Roles, Held, OnDisk, Base, LoadFails, Keep, GoTo, Counting
<1>5. CASE RemoveMountPoint
  BY <1>5 DEF LaunchIInv, Roles, Held, OnDisk, Base, RemoveMountPoint, GoTo, Keep,
     Still, Counting, vars
<1>6. CASE NextDrive
  BY <1>6 DEF LaunchIInv, Roles, Held, OnDisk, Base, NextDrive, GoTo, Keep, Still,
     Counting, vars
<1>7. CASE NoMoreDrives
  BY <1>7 DEF LaunchIInv, Roles, Held, OnDisk, Base, NoMoreDrives, GoTo, Keep,
     Counting
<1>8. CASE AllocDisk
  BY <1>8 DEF LaunchIInv, Roles, Held, OnDisk, Base, AllocDisk, Take, GoTo, Still,
     Counting, vars
<1>9. CASE NoDisk
  BY <1>9 DEF LaunchIInv, Roles, Held, OnDisk, Base, NoDisk, Keep, DiskGone, GoTo,
     vars
<1>10. CASE OpenDevice
  BY <1>10 DEF LaunchIInv, Roles, Held, OnDisk, Base, OpenDevice, Take, GoTo, Still,
     Counting, vars
<1>11. CASE NoDevice
  BY <1>11 DEF LaunchIInv, Roles, Held, OnDisk, Base, NoDevice, ProbeFails, InDdev,
     DiskGone, GoTo, vars
<1>12. CASE LoadVix
  BY <1>12 DEF LaunchIInv, Roles, Held, OnDisk, Base, LoadVix, Take, Still,
     Counting, ProbeFails, InDdev, DiskGone, GoTo, vars
<1>13. CASE InitVix
  BY <1>13 DEF LaunchIInv, Roles, Held, OnDisk, Base, InitVix, Take, Still,
     Counting, ProbeFails, InDdev, DiskGone, GoTo, vars
<1>14. CASE Connect
  BY <1>14 DEF LaunchIInv, Roles, Held, OnDisk, Base, Connect, Take, Still,
     Counting, ProbeFails, InDdev, DiskGone, GoTo, vars
<1>15. CASE OpenVdisk
  BY <1>15 DEF LaunchIInv, Roles, Held, OnDisk, Base, OpenVdisk, Take, Still,
     Counting, ProbeFails, InDdev, DiskGone, GoTo, vars
<1>16. CASE CloseDisk
  BY <1>16 DEF LaunchIInv, Roles, Held, OnDisk, Base, CloseDisk, InDdev, DiskGone,
     GoTo, vars
<1>17. CASE AskNumber
  BY <1>17 DEF LaunchIInv, Roles, Held, OnDisk, Base, AskNumber, AskNext, AskAgain,
     Ask, GoTo, Keep, Counting
<1>18. CASE NoMoreNumbers
  BY <1>18 DEF LaunchIInv, Roles, Held, OnDisk, Base, NoMoreNumbers, ScanFull, GoTo,
     Keep, Counting
<1>19. CASE CountOn
  BY <1>19 DEF LaunchIInv, Roles, Held, OnDisk, Base, CountOn, Keep, Counting
<1>20. CASE Given
  BY <1>20 DEF LaunchIInv, Roles, Held, OnDisk, Base, Given, Take, GoTo, Counting
<1>21. CASE NotGiven
  BY <1>21 DEF LaunchIInv, Roles, Held, OnDisk, Base, NotGiven, Keep, GoTo, Counting
<1>22. CASE ClosePartition
  BY <1>22 DEF LaunchIInv, Roles, Held, OnDisk, Base, ClosePartition, GiveBack,
     GoTo, Still, Counting, vars
<1>23. CASE AllocFs
  BY <1>23 DEF LaunchIInv, Roles, Held, OnDisk, Base, AllocFs, Take, GoTo, Still,
     Counting, Unmountable, GiveBack, vars
<1>24. CASE ReadSuper
  BY <1>24 DEF LaunchIInv, Roles, Held, OnDisk, Base, ReadSuper, Keep, GoTo, Still,
     Counting, Unmountable, GiveBack, vars
<1>25. CASE ReadRoot
  BY <1>25 DEF LaunchIInv, Roles, Held, OnDisk, Base, ReadRoot, Take, GoTo, Still,
     Counting, Unmountable, GiveBack, vars
<1>26. CASE Umount
  BY <1>26 DEF LaunchIInv, Roles, Held, OnDisk, Base, Umount, GiveBack, GoTo, Still,
     Counting, vars
<1>27. CASE StartProcess
  BY <1>27 DEF LaunchIInv, Roles, Held, OnDisk, Base, StartProcess, GoTo, vars
<1>28. CASE Serve
  BY <1>28 DEF LaunchIInv, Roles, Held, OnDisk, Base, Serve, Take, Keep, GoTo,
     Still, Counting, vars
<1>29. CASE UnloadDokan
  BY <1>29 DEF LaunchIInv, Roles, Held, OnDisk, Base, UnloadDokan, GiveBack, GoTo,
     Still, Counting, vars
<1>30. CASE ServeEnds
  <2>1. PICK b \in SUBSET {"buffers"} : held' = (held \ {"mountpoint"}) \cup b
    BY <1>30 DEF ServeEnds
  <2>2. at = "serve" /\ at' = "umount" /\ kind' = kind
    BY <1>30 DEF ServeEnds, GoTo, Still, Counting
  <2>3. held = Base \cup {"part", "extfs", "fsys", "mountpoint"} /\ Base' = Base
    BY <2>2 DEF LaunchIInv, Held, Base
  <2>4. "mountpoint" \notin Base /\ "buffers" \notin Base
    BY DEF Base
  <2>5. held' \ {"buffers"} = Base' \cup {"part", "extfs", "fsys"}
    BY <2>1, <2>3, <2>4
  <2> QED BY <2>2, <2>5 DEF Held
<1> QED BY <1>1, <1>2, <1>3, <1>4, <1>5, <1>6, <1>7, <1>8, <1>9, <1>10, <1>11,
   <1>12, <1>13, <1>14, <1>15, <1>16, <1>17, <1>18, <1>19, <1>20, <1>21, <1>22,
   <1>23, <1>24, <1>25, <1>26, <1>27, <1>28, <1>29, <1>30 DEF LaunchNext, Ladder

(* The scan lasts while the service is at a partition.                     *)
LEMMA ScanningKept ==
  ASSUME LaunchIInv, Roles', LaunchNext \/ UNCHANGED launchVars
  PROVE  Scanning'
<1>1. CASE UNCHANGED launchVars
  BY <1>1 DEF LaunchIInv, Roles, Scanning, OnDisk, launchVars, lvars, vars
<1>2. CASE Start
  BY <1>2 DEF LaunchIInv, Roles, Scanning, OnDisk, Start, Gone, vars
<1>3. CASE LoadDokan
  BY <1>3 DEF LaunchIInv, Roles, Scanning, OnDisk, LoadDokan, Take, GoTo, Still,
     Counting, vars
<1>4. CASE LoadFails
  BY <1>4 DEF LaunchIInv, Roles, Scanning, OnDisk, LoadFails, Keep, GoTo, Counting
<1>5. CASE RemoveMountPoint
  BY <1>5 DEF LaunchIInv, Roles, Scanning, OnDisk, RemoveMountPoint, GoTo, Keep,
     Still, Counting, vars
<1>6. CASE NextDrive
  BY <1>6 DEF LaunchIInv, Roles, Scanning, OnDisk, NextDrive, GoTo, Keep, Still,
     Counting, vars
<1>7. CASE NoMoreDrives
  BY <1>7 DEF LaunchIInv, Roles, Scanning, OnDisk, NoMoreDrives, GoTo, Keep, Counting
<1>8. CASE AllocDisk
  BY <1>8 DEF LaunchIInv, Roles, Scanning, OnDisk, AllocDisk, Take, GoTo, Still,
     Counting, vars
<1>9. CASE NoDisk
  BY <1>9 DEF LaunchIInv, Roles, Scanning, OnDisk, NoDisk, Keep, DiskGone, GoTo, vars
<1>10. CASE OpenDevice
  BY <1>10 DEF LaunchIInv, Roles, Scanning, OnDisk, OpenDevice, Take, GoTo, Still,
     Counting, vars
<1>11. CASE NoDevice
  BY <1>11 DEF LaunchIInv, Roles, Scanning, OnDisk, NoDevice, ProbeFails, InDdev,
     DiskGone, GoTo, vars
<1>12. CASE LoadVix
  BY <1>12 DEF LaunchIInv, Roles, Scanning, OnDisk, LoadVix, Take, Still, Counting,
     ProbeFails, InDdev, DiskGone, GoTo, vars
<1>13. CASE InitVix
  BY <1>13 DEF LaunchIInv, Roles, Scanning, OnDisk, InitVix, Take, Still, Counting,
     ProbeFails, InDdev, DiskGone, GoTo, vars
<1>14. CASE Connect
  BY <1>14 DEF LaunchIInv, Roles, Scanning, OnDisk, Connect, Take, Still, Counting,
     ProbeFails, InDdev, DiskGone, GoTo, vars
<1>15. CASE OpenVdisk
  BY <1>15 DEF LaunchIInv, Roles, Scanning, OnDisk, OpenVdisk, Take, Still,
     Counting, ProbeFails, InDdev, DiskGone, GoTo, vars
<1>16. CASE CloseDisk
  BY <1>16 DEF LaunchIInv, Roles, Scanning, OnDisk, CloseDisk, InDdev, DiskGone,
     GoTo, vars
<1>17. CASE AskNumber
  <2>1. phase \in {"scan", "open"} /\ Len(found) \in Nat /\ MaxPart \in Nat
    BY DisksAssumption, LenProperties DEF LaunchIInv, MbrIInv, TypeOK
  <2> QED BY <1>17, <2>1 DEF LaunchIInv, Roles, Scanning, OnDisk, AskNumber,
     AskNext, AskAgain, Ask, GoTo, Keep, Counting
<1>18. CASE NoMoreNumbers
  BY <1>18 DEF LaunchIInv, Roles, Scanning, OnDisk, NoMoreNumbers, ScanFull, GoTo,
     Keep, Counting
<1>19. CASE CountOn
  BY <1>19, CountEffect DEF LaunchIInv, Roles, Scanning, OnDisk, CountOn, ParseDisk,
     Keep, Counting
<1>20. CASE Given
  BY <1>20, CountEffect DEF LaunchIInv, Roles, Scanning, OnDisk, Given, GivenPart,
     ParseDisk, GoTo, Counting
<1>21. CASE NotGiven
  BY <1>21, CountEffect DEF LaunchIInv, Roles, Scanning, OnDisk, NotGiven,
     GivenPart, ParseDisk, GoTo, Counting
<1>22. CASE ClosePartition
  BY <1>22 DEF LaunchIInv, Roles, Scanning, OnDisk, ClosePartition, GiveBack, GoTo,
     Still, Counting, vars
<1>23. CASE AllocFs
  BY <1>23 DEF LaunchIInv, Roles, Scanning, OnDisk, AllocFs, Take, GoTo, Still,
     Counting, Unmountable, GiveBack, vars
<1>24. CASE ReadSuper
  BY <1>24 DEF LaunchIInv, Roles, Scanning, OnDisk, ReadSuper, Keep, GoTo, Still,
     Counting, Unmountable, GiveBack, vars
<1>25. CASE ReadRoot
  BY <1>25 DEF LaunchIInv, Roles, Scanning, OnDisk, ReadRoot, Take, GoTo, Still,
     Counting, Unmountable, GiveBack, vars
<1>26. CASE Umount
  BY <1>26 DEF LaunchIInv, Roles, Scanning, OnDisk, Umount, GiveBack, GoTo, Still,
     Counting, vars
<1>27. CASE StartProcess
  BY <1>27 DEF LaunchIInv, Roles, Scanning, OnDisk, StartProcess, GoTo, vars
<1>28. CASE Serve
  BY <1>28 DEF LaunchIInv, Roles, Scanning, OnDisk, Serve, Take, Keep, GoTo, Still,
     Counting, vars
<1>29. CASE UnloadDokan
  BY <1>29 DEF LaunchIInv, Roles, Scanning, OnDisk, UnloadDokan, GiveBack, GoTo,
     Still, Counting, vars
<1>30. CASE ServeEnds
  BY <1>30 DEF LaunchIInv, Roles, Scanning, OnDisk, ServeEnds, GiveBack, GoTo,
     Still, Counting, vars
<1> QED BY <1>1, <1>2, <1>3, <1>4, <1>5, <1>6, <1>7, <1>8, <1>9, <1>10, <1>11,
   <1>12, <1>13, <1>14, <1>15, <1>16, <1>17, <1>18, <1>19, <1>20, <1>21, <1>22,
   <1>23, <1>24, <1>25, <1>26, <1>27, <1>28, <1>29, <1>30 DEF LaunchNext, Ladder

(* What is lost.                                                           *)
LEMMA LostKept ==
  ASSUME LaunchIInv, Roles', LaunchNext \/ UNCHANGED launchVars
  PROVE  Lost'
<1>1. CASE UNCHANGED launchVars
  BY <1>1 DEF LaunchIInv, Roles, Held, Lost, OnDisk, Base, launchVars, lvars, vars
<1>2. CASE Start
  BY <1>2 DEF LaunchIInv, Roles, Held, Lost, OnDisk, Base, Start, Gone, vars
<1>3. CASE LoadDokan
  BY <1>3 DEF LaunchIInv, Roles, Held, Lost, OnDisk, Base, LoadDokan, Take, GoTo,
     Still, Counting, vars
<1>4. CASE LoadFails
  BY <1>4 DEF LaunchIInv, Roles, Held, Lost, OnDisk, Base, LoadFails, Keep, GoTo,
     Counting
<1>5. CASE RemoveMountPoint
  BY <1>5 DEF LaunchIInv, Roles, Held, Lost, OnDisk, Base, RemoveMountPoint, GoTo,
     Keep, Still, Counting, vars
<1>6. CASE NextDrive
  BY <1>6 DEF LaunchIInv, Roles, Held, Lost, OnDisk, Base, NextDrive, GoTo, Keep,
     Still, Counting, vars
<1>7. CASE NoMoreDrives
  BY <1>7 DEF LaunchIInv, Roles, Held, Lost, OnDisk, Base, NoMoreDrives, GoTo, Keep,
     Counting
<1>8. CASE AllocDisk
  BY <1>8 DEF LaunchIInv, Roles, Held, Lost, OnDisk, Base, AllocDisk, Take, GoTo,
     Still, Counting, vars
<1>9. CASE NoDisk
  BY <1>9 DEF LaunchIInv, Roles, Held, Lost, OnDisk, Base, NoDisk, Keep, DiskGone,
     GoTo, vars
<1>10. CASE OpenDevice
  BY <1>10 DEF LaunchIInv, Roles, Held, Lost, OnDisk, Base, OpenDevice, Take, GoTo,
     Still, Counting, vars
<1>11. CASE NoDevice
  BY <1>11 DEF LaunchIInv, Roles, Held, Lost, OnDisk, Base, NoDevice, ProbeFails,
     InDdev, DiskGone, GoTo, vars
<1>12. CASE LoadVix
  BY <1>12 DEF LaunchIInv, Roles, Held, Lost, OnDisk, Base, LoadVix, Take, Still,
     Counting, ProbeFails, InDdev, DiskGone, GoTo, vars
<1>13. CASE InitVix
  BY <1>13 DEF LaunchIInv, Roles, Held, Lost, OnDisk, Base, InitVix, Take, Still,
     Counting, ProbeFails, InDdev, DiskGone, GoTo, vars
<1>14. CASE Connect
  BY <1>14 DEF LaunchIInv, Roles, Held, Lost, OnDisk, Base, Connect, Take, Still,
     Counting, ProbeFails, InDdev, DiskGone, GoTo, vars
<1>15. CASE OpenVdisk
  BY <1>15 DEF LaunchIInv, Roles, Held, Lost, OnDisk, Base, OpenVdisk, Take, Still,
     Counting, ProbeFails, InDdev, DiskGone, GoTo, vars
<1>16. CASE CloseDisk
  BY <1>16 DEF LaunchIInv, Roles, Held, Lost, OnDisk, Base, CloseDisk, InDdev,
     DiskGone, GoTo, vars
<1>17. CASE AskNumber
  BY <1>17 DEF LaunchIInv, Roles, Held, Lost, OnDisk, Base, AskNumber, AskNext,
     AskAgain, Ask, GoTo, Keep, Counting
<1>18. CASE NoMoreNumbers
  BY <1>18 DEF LaunchIInv, Roles, Held, Lost, OnDisk, Base, NoMoreNumbers, ScanFull,
     GoTo, Keep, Counting
<1>19. CASE CountOn
  BY <1>19 DEF LaunchIInv, Roles, Held, Lost, OnDisk, Base, CountOn, Keep, Counting
<1>20. CASE Given
  BY <1>20 DEF LaunchIInv, Roles, Held, Lost, OnDisk, Base, Given, Take, GoTo,
     Counting
<1>21. CASE NotGiven
  BY <1>21 DEF LaunchIInv, Roles, Held, Lost, OnDisk, Base, NotGiven, Keep, GoTo,
     Counting
<1>22. CASE ClosePartition
  BY <1>22 DEF LaunchIInv, Roles, Held, Lost, OnDisk, Base, ClosePartition,
     GiveBack, GoTo, Still, Counting, vars
<1>23. CASE AllocFs
  BY <1>23 DEF LaunchIInv, Roles, Held, Lost, OnDisk, Base, AllocFs, Take, GoTo,
     Still, Counting, Unmountable, GiveBack, vars
<1>24. CASE ReadSuper
  BY <1>24 DEF LaunchIInv, Roles, Held, Lost, OnDisk, Base, ReadSuper, Keep, GoTo,
     Still, Counting, Unmountable, GiveBack, vars
<1>25. CASE ReadRoot
  BY <1>25 DEF LaunchIInv, Roles, Held, Lost, OnDisk, Base, ReadRoot, Take, GoTo,
     Still, Counting, Unmountable, GiveBack, vars
<1>26. CASE Umount
  BY <1>26 DEF LaunchIInv, Roles, Held, Lost, OnDisk, Base, Umount, GiveBack, GoTo,
     Still, Counting, vars
<1>27. CASE StartProcess
  BY <1>27 DEF LaunchIInv, Roles, Held, Lost, OnDisk, Base, StartProcess, GoTo, vars
<1>28. CASE Serve
  BY <1>28 DEF LaunchIInv, Roles, Held, Lost, OnDisk, Base, Serve, Take, Keep, GoTo,
     Still, Counting, vars
<1>29. CASE UnloadDokan
  BY <1>29 DEF LaunchIInv, Roles, Held, Lost, OnDisk, Base, UnloadDokan, GiveBack,
     GoTo, Still, Counting, vars
<1>30. CASE ServeEnds
  BY <1>30 DEF LaunchIInv, Roles, Held, Lost, OnDisk, Base, ServeEnds, GiveBack,
     GoTo, Still, Counting, vars
<1> QED BY <1>1, <1>2, <1>3, <1>4, <1>5, <1>6, <1>7, <1>8, <1>9, <1>10, <1>11,
   <1>12, <1>13, <1>14, <1>15, <1>16, <1>17, <1>18, <1>19, <1>20, <1>21, <1>22,
   <1>23, <1>24, <1>25, <1>26, <1>27, <1>28, <1>29, <1>30 DEF LaunchNext, Ladder

(* What the service is done with: kept, or one more partition skipped.     *)
LEMMA FoundType ==
  ASSUME LaunchIInv
  PROVE  found \in Seq(Extent) /\ Len(found) \in Nat /\ phase \in {"scan", "open"}
BY LenProperties DEF LaunchIInv, MbrIInv, TypeOK

LEMMA DoneKept ==
  ASSUME LaunchIInv, UNCHANGED <<found, started, skipped, misread>>,
         who' = "service" => who = "service",
         Looking' <=> Looking,
         Looking' /\ at' \in {"root", "mounted", "start"} =>
           (found[Len(found)].off \in ExtAt <=> Len(found) \notin misread),
         Looking' /\ at' \in {"mount", "super"} => Len(found) \notin misread
  PROVE  Started'
<1>1. DoneWith' = DoneWith
  BY DEF DoneWith
<1> QED BY <1>1 DEF LaunchIInv, Started

LEMMA SkipKept ==
  ASSUME LaunchIInv, Unmountable, at \in {"mount", "super", "root"}
  PROVE  Started'
<1>1. /\ UNCHANGED <<found, started, misread, who>> /\ ~Looking'
      /\ skipped' = IF who = "service" /\ found[Len(found)].off \in ExtAt
                    THEN skipped \cup {Len(found)} ELSE skipped
  BY DEF Unmountable, IsExt, Partitioned, GoTo, Looking, vars
<1>2. CASE who # "service"
  <2>1. ~Looking /\ skipped' = skipped
    BY <1>1, <1>2 DEF Looking
  <2> QED BY <1>1, <2>1, DoneKept
<1>3. CASE who = "service"
  <2>1. Looking
    BY <1>3 DEF Looking
  <2>2. /\ skipped \subseteq 1..(Len(found) - 1) /\ Len(found) \in Nat \ {0}
        /\ misread \subseteq 1..Len(found) /\ started \subseteq 1..(Len(found) - 1)
        /\ started \ misread =
             {n \in 1..(Len(found) - 1) : found[n].off \in ExtAt} \ skipped
    BY <1>3, <2>1, FoundType DEF LaunchIInv, Started, DoneWith
  <2>3. started' \ misread' = {n \in 1..Len(found') : found'[n].off \in ExtAt} \ skipped'
    BY <1>1, <1>3, <2>2
  <2>4. skipped' \subseteq 1..Len(found') /\ started' \subseteq 1..Len(found')
    <3>1. /\ skipped \subseteq 1..Len(found) /\ Len(found) \in 1..Len(found)
          /\ started \subseteq 1..Len(found)
      BY <2>2
    <3>2. skipped' \subseteq skipped \cup {Len(found)}
      BY <1>1, <1>3
    <3> QED BY <1>1, <3>1, <3>2, Zenon
  <2>5. DoneWith' = 1..Len(found')
    BY <1>1 DEF DoneWith
  <2> QED BY <1>1, <2>2, <2>3, <2>4, <2>5 DEF Started
<1> QED BY <1>2, <1>3

LEMMA StartedKept ==
  ASSUME LaunchIInv, LaunchNext \/ UNCHANGED launchVars
  PROVE  Started'
<1>1. CASE UNCHANGED launchVars
  BY <1>1 DEF LaunchIInv, Roles, Started, Looking, DoneWith, launchVars, lvars, vars
<1>2. CASE Start
  <2>1. /\ started' = {} /\ skipped' = {} /\ misread' = {} /\ who' # "service" /\ ~Looking'
    BY <1>2 DEF Start, Looking
  <2> QED BY <2>1 DEF Started
<1>3. CASE LoadDokan
  <2>1. UNCHANGED <<found, started, skipped, misread, who>> /\ ~Looking' /\ ~Looking
    BY <1>3 DEF LaunchIInv, Roles, Scanning, Looking, OnDisk, LoadDokan, Take, GoTo,
       Still, Counting, vars
  <2> QED BY <2>1, DoneKept
<1>4. CASE LoadFails
  <2>1. UNCHANGED <<found, started, skipped, misread, who>> /\ ~Looking' /\ ~Looking
    BY <1>4 DEF LaunchIInv, Roles, Scanning, Looking, OnDisk, LoadFails, Keep, GoTo,
       Counting
  <2> QED BY <2>1, DoneKept
<1>5. CASE RemoveMountPoint
  <2>1. UNCHANGED <<found, started, skipped, misread, who>> /\ ~Looking' /\ ~Looking
    BY <1>5 DEF LaunchIInv, Roles, Scanning, Looking, OnDisk, RemoveMountPoint,
       GoTo, Keep, Still, Counting, vars
  <2> QED BY <2>1, DoneKept
<1>6. CASE NextDrive
  <2>1. UNCHANGED <<found, started, skipped, misread, who>> /\ ~Looking' /\ ~Looking
    BY <1>6 DEF LaunchIInv, Roles, Scanning, Looking, OnDisk, NextDrive, GoTo, Keep,
       Still, Counting, vars
  <2> QED BY <2>1, DoneKept
<1>7. CASE NoMoreDrives
  <2>1. UNCHANGED <<found, started, skipped, misread, who>> /\ ~Looking' /\ ~Looking
    BY <1>7 DEF LaunchIInv, Roles, Scanning, Looking, OnDisk, NoMoreDrives, GoTo,
       Keep, Counting
  <2> QED BY <2>1, DoneKept
<1>8. CASE AllocDisk
  <2>1. UNCHANGED <<found, started, skipped, misread, who>> /\ ~Looking' /\ ~Looking
    BY <1>8 DEF LaunchIInv, Roles, Scanning, Looking, OnDisk, AllocDisk, Take, GoTo,
       Still, Counting, vars
  <2> QED BY <2>1, DoneKept
<1>9. CASE NoDisk
  <2>1. UNCHANGED <<found, started, skipped, misread, who>> /\ ~Looking' /\ ~Looking
    BY <1>9 DEF LaunchIInv, Roles, Scanning, Looking, OnDisk, NoDisk, Keep,
       DiskGone, GoTo, vars
  <2> QED BY <2>1, DoneKept
<1>10. CASE OpenDevice
  <2>1. UNCHANGED <<found, started, skipped, misread, who>> /\ ~Looking' /\ ~Looking
    BY <1>10 DEF LaunchIInv, Roles, Scanning, Looking, OnDisk, OpenDevice, Take,
       GoTo, Still, Counting, vars
  <2> QED BY <2>1, DoneKept
<1>11. CASE NoDevice
  <2>1. UNCHANGED <<found, started, skipped, misread, who>> /\ ~Looking' /\ ~Looking
    BY <1>11 DEF LaunchIInv, Roles, Scanning, Looking, OnDisk, NoDevice, ProbeFails,
       InDdev, DiskGone, GoTo, vars
  <2> QED BY <2>1, DoneKept
<1>12. CASE LoadVix
  <2>1. UNCHANGED <<found, started, skipped, misread, who>> /\ ~Looking' /\ ~Looking
    BY <1>12 DEF LaunchIInv, Roles, Scanning, Looking, OnDisk, LoadVix, Take, Still,
       Counting, ProbeFails, InDdev, DiskGone, GoTo, vars
  <2> QED BY <2>1, DoneKept
<1>13. CASE InitVix
  <2>1. UNCHANGED <<found, started, skipped, misread, who>> /\ ~Looking' /\ ~Looking
    BY <1>13 DEF LaunchIInv, Roles, Scanning, Looking, OnDisk, InitVix, Take, Still,
       Counting, ProbeFails, InDdev, DiskGone, GoTo, vars
  <2> QED BY <2>1, DoneKept
<1>14. CASE Connect
  <2>1. UNCHANGED <<found, started, skipped, misread, who>> /\ ~Looking' /\ ~Looking
    BY <1>14 DEF LaunchIInv, Roles, Scanning, Looking, OnDisk, Connect, Take, Still,
       Counting, ProbeFails, InDdev, DiskGone, GoTo, vars
  <2> QED BY <2>1, DoneKept
<1>15. CASE OpenVdisk
  <2>1. UNCHANGED <<found, started, skipped, misread, who>> /\ ~Looking' /\ ~Looking
    BY <1>15 DEF LaunchIInv, Roles, Scanning, Looking, OnDisk, OpenVdisk, Take,
       Still, Counting, ProbeFails, InDdev, DiskGone, GoTo, vars
  <2> QED BY <2>1, DoneKept
<1>16. CASE CloseDisk
  <2>1. UNCHANGED <<found, started, skipped, misread, who>> /\ ~Looking' /\ ~Looking
    BY <1>16 DEF LaunchIInv, Roles, Scanning, Looking, OnDisk, CloseDisk, InDdev,
       DiskGone, GoTo, vars
  <2> QED BY <2>1, DoneKept
<1>17. CASE AskNumber
  <2>1. UNCHANGED <<found, started, skipped, misread, who>> /\ ~Looking' /\ ~Looking
    BY <1>17 DEF LaunchIInv, Roles, Scanning, Looking, OnDisk, AskNumber, AskNext,
       AskAgain, Ask, GoTo, Keep, Counting
  <2> QED BY <2>1, DoneKept
<1>18. CASE NoMoreNumbers
  <2>1. UNCHANGED <<found, started, skipped, misread, who>> /\ ~Looking' /\ ~Looking
    BY <1>18 DEF LaunchIInv, Roles, Scanning, Looking, OnDisk, NoMoreNumbers,
       ScanFull, GoTo, Keep, Counting
  <2> QED BY <2>1, DoneKept
<1>19. CASE CountOn
  <2>1. UNCHANGED <<found, started, skipped, misread, who>> /\ ~Looking' /\ ~Looking
    BY <1>19, CountEffect, FoundType DEF LaunchIInv, Roles, Scanning, Looking,
       OnDisk, GivenPart, ParseDisk, CountOn, Keep, Counting
  <2> QED BY <2>1, DoneKept
<1>20. CASE Given
  <2>1. UNCHANGED <<who, started, skipped, misread>> /\ at = "count" /\ at' = "mount"
        /\ ~Looking
    BY <1>20 DEF Given, GoTo, Counting, Looking
  <2>2. CASE who = "service"
    <3>1. /\ Looking' /\ Len(found') = Len(found) + 1 /\ Len(found) \in Nat
          /\ \A n \in 1..Len(found) : found'[n] = found[n]
      BY <1>20, <2>1, <2>2, FoundType, CountEffect DEF LaunchIInv, Scanning, OnDisk,
         Given, GivenPart, ParseDisk, Looking
    <3>2. DoneWith = 1..Len(found) /\ DoneWith' = 1..Len(found)
      BY <2>1, <3>1 DEF DoneWith
    <3>3. {n \in 1..Len(found) : found'[n].off \in ExtAt}
            = {n \in 1..Len(found) : found[n].off \in ExtAt}
      BY <3>1
    <3>4. misread \subseteq 1..Len(found)
      BY DEF LaunchIInv, Started
    <3>5. misread' \subseteq 1..Len(found') /\ Len(found') \notin misread'
      BY <2>1, <3>1, <3>4
    <3> QED BY <2>1, <3>1, <3>2, <3>3, <3>5 DEF LaunchIInv, Started
  <2>3. CASE who # "service"
    <3>1. found' = found /\ ~Looking'
      BY <1>20, <2>1, <2>3, CountEffect
      DEF LaunchIInv, Scanning, Given, ParseDisk, Looking
    <3> QED BY <2>1, <3>1, DoneKept
  <2> QED BY <2>2, <2>3
<1>21. CASE NotGiven
  <2>1. UNCHANGED <<found, started, skipped, misread, who>> /\ ~Looking' /\ ~Looking
    BY <1>21, CountEffect, FoundType DEF LaunchIInv, Roles, Scanning, Looking,
       OnDisk, GivenPart, ParseDisk, NotGiven, Keep, GoTo, Counting
  <2> QED BY <2>1, DoneKept
<1>22. CASE ClosePartition
  <2>1. UNCHANGED <<found, started, skipped, misread, who>> /\ ~Looking' /\ ~Looking
    BY <1>22 DEF LaunchIInv, Roles, Scanning, Looking, OnDisk, ClosePartition,
       GiveBack, GoTo, Still, Counting, vars
  <2> QED BY <2>1, DoneKept
<1>23. CASE AllocFs
  <2>1. CASE Unmountable
    <3>1. at \in {"mount", "super", "root"}
      BY <1>23 DEF AllocFs
    <3> QED BY <2>1, <3>1, SkipKept
  <2>2. CASE ~Unmountable
    <3>1. /\ UNCHANGED <<found, started, skipped, misread, who>>
          /\ at = "mount" /\ at' = "super"
      BY <1>23, <2>2 DEF AllocFs, Take, GoTo, Still, Counting, vars
    <3>2. Looking' <=> Looking
      BY <3>1 DEF Looking
    <3>3. Looking' /\ at' \in {"root", "mounted", "start"} =>
            (found[Len(found)].off \in ExtAt <=> Len(found) \notin misread)
      BY <3>1, <3>2 DEF LaunchIInv, Started
    <3>4. Looking' /\ at' \in {"mount", "super"} => Len(found) \notin misread
      BY <3>1, <3>2 DEF LaunchIInv, Started
    <3> QED BY <3>1, <3>2, <3>3, <3>4, DoneKept
  <2> QED BY <2>1, <2>2
<1>24. CASE ReadSuper
  <2>1. CASE Unmountable
    <3>1. at \in {"mount", "super", "root"}
      BY <1>24 DEF ReadSuper
    <3> QED BY <2>1, <3>1, SkipKept
  <2>2. CASE ~Unmountable
    <3>1. /\ UNCHANGED <<found, started, skipped, who>> /\ at = "super" /\ at' = "root"
          /\ misread' = IF who = "service" /\ ~(found[Len(found)].off \in ExtAt)
                        THEN misread \cup {Len(found)} ELSE misread
      BY <1>24, <2>2 DEF ReadSuper, GoTo, IsExt, Partitioned, vars
    <3>2. Looking' <=> Looking
      BY <3>1 DEF Looking
    <3>3. CASE ~Looking
      <4>1. misread' = misread
        BY <3>1, <3>3 DEF Looking
      <4> QED BY <3>1, <3>2, <3>3, <4>1, DoneKept
    <3>4. CASE Looking
      <4>1. /\ Len(found) \in Nat \ {0} /\ Len(found) \notin misread
            /\ who = "service" /\ misread \subseteq 1..Len(found)
            /\ started \subseteq 1..(Len(found) - 1)
        BY <3>1, <3>4, FoundType DEF LaunchIInv, Started, Looking, DoneWith
      <4>2. DoneWith' = DoneWith
        BY <3>1, <3>2 DEF DoneWith
      <4>3. /\ misread' \subseteq 1..Len(found)
            /\ (found[Len(found)].off \in ExtAt <=> Len(found) \notin misread')
        <5>1. PICK n : n = Len(found)
          OBVIOUS
        <5>2. n \in 1..n /\ n \notin misread /\ misread \subseteq 1..n
          BY <4>1, <5>1
        <5>3. misread' = IF found[n].off \in ExtAt THEN misread ELSE misread \cup {n}
          BY <3>1, <4>1, <5>1
        <5>4. CASE found[n].off \in ExtAt
          BY <5>1, <5>2, <5>3, <5>4
        <5>5. CASE found[n].off \notin ExtAt
          BY <5>1, <5>2, <5>3, <5>5
        <5> QED BY <5>4, <5>5
      <4>4. Len(found) \notin started
        BY <4>1
      <4>5. started \ misread' = started \ misread
        BY <3>1, <4>4
      <4>6. started' \ misread' = {n \in DoneWith' : found'[n].off \in ExtAt} \ skipped'
        BY <3>1, <4>1, <4>2, <4>5 DEF LaunchIInv, Started
      <4>7. /\ skipped' \subseteq DoneWith' /\ started' \subseteq DoneWith'
            /\ Len(found') # 0
        BY <3>1, <4>1, <4>2 DEF LaunchIInv, Started
      <4> QED BY <3>1, <3>2, <3>4, <4>3, <4>6, <4>7 DEF Started
    <3> QED BY <3>3, <3>4
  <2> QED BY <2>1, <2>2
<1>25. CASE ReadRoot
  <2>1. CASE Unmountable
    <3>1. at \in {"mount", "super", "root"}
      BY <1>25 DEF ReadRoot
    <3> QED BY <2>1, <3>1, SkipKept
  <2>2. CASE ~Unmountable
    <3>1. /\ UNCHANGED <<found, started, skipped, misread, who>>
          /\ at = "root" /\ at' = "mounted"
      BY <1>25, <2>2 DEF ReadRoot, Take, GoTo, Still, Counting, vars
    <3>2. Looking' <=> Looking
      BY <3>1 DEF Looking
    <3>3. Looking' /\ at' \in {"root", "mounted", "start"} =>
            (found[Len(found)].off \in ExtAt <=> Len(found) \notin misread)
      BY <3>1, <3>2 DEF LaunchIInv, Started
    <3>4. Looking' /\ at' \in {"mount", "super"} => Len(found) \notin misread
      BY <3>1, <3>2 DEF LaunchIInv, Started
    <3> QED BY <3>1, <3>2, <3>3, <3>4, DoneKept
  <2> QED BY <2>1, <2>2
<1>26. CASE Umount
  <2>1. /\ UNCHANGED <<found, started, skipped, misread, who>>
        /\ at \in {"mounted", "umount"}
        /\ at' = IF who = "service" THEN "start" ELSE "partition"
        /\ at = "umount" => who # "service"
    BY <1>26 DEF Umount, GoTo, Still, Counting, vars, LaunchIInv, Roles
  <2>2. Looking' <=> Looking
    BY <2>1 DEF Looking
  <2>3. Looking' /\ at' \in {"root", "mounted", "start"} =>
          (found[Len(found)].off \in ExtAt <=> Len(found) \notin misread)
    BY <2>1, <2>2 DEF LaunchIInv, Started, Looking
  <2>4. at' \notin {"mount", "super"}
    BY <2>1
  <2> QED BY <2>1, <2>2, <2>3, <2>4, DoneKept
<1>27. CASE StartProcess
  <2>1. /\ UNCHANGED <<found, skipped, misread, who>> /\ started' = started \cup {Len(found)}
        /\ who = "service" /\ Looking /\ ~Looking' /\ at = "start"
    BY <1>27 DEF StartProcess, GoTo, Looking, LaunchIInv, Roles, OnDisk, Rung, Gone,
       vars
  <2>2. found[Len(found)].off \in ExtAt <=> Len(found) \notin misread
    BY <2>1 DEF LaunchIInv, Started
  <2>3. /\ skipped \subseteq 1..(Len(found) - 1) /\ Len(found) \in Nat \ {0}
        /\ misread \subseteq 1..Len(found) /\ started \subseteq 1..(Len(found) - 1)
        /\ started \ misread =
             {n \in 1..(Len(found) - 1) : found[n].off \in ExtAt} \ skipped
    BY <2>1, FoundType DEF LaunchIInv, Started, DoneWith
  <2>4. started' \ misread' = {n \in 1..Len(found') : found'[n].off \in ExtAt} \ skipped'
    BY <2>1, <2>2, <2>3
  <2>5. skipped \subseteq 1..Len(found) /\ started' \subseteq 1..Len(found)
    <3>1. 1..(Len(found) - 1) \subseteq 1..Len(found) /\ Len(found) \in 1..Len(found)
      BY <2>3
    <3> QED BY <2>1, <2>3, <3>1
  <2>6. DoneWith' = 1..Len(found)
    BY <2>1 DEF DoneWith
  <2> QED BY <2>1, <2>3, <2>4, <2>5, <2>6 DEF Started
<1>28. CASE Serve
  <2>1. UNCHANGED <<found, started, skipped, misread, who>> /\ ~Looking' /\ ~Looking
    BY <1>28 DEF LaunchIInv, Roles, Scanning, Looking, OnDisk, Serve, Take, Keep,
       GoTo, Still, Counting, vars
  <2> QED BY <2>1, DoneKept
<1>29. CASE UnloadDokan
  <2>1. UNCHANGED <<found, started, skipped, misread, who>> /\ ~Looking' /\ ~Looking
    BY <1>29 DEF LaunchIInv, Roles, Scanning, Looking, OnDisk, UnloadDokan,
       GiveBack, GoTo, Still, Counting, vars
  <2> QED BY <2>1, DoneKept
<1>30. CASE ServeEnds
  <2>1. UNCHANGED <<found, started, skipped, misread, who>> /\ ~Looking' /\ ~Looking
    BY <1>30 DEF LaunchIInv, Roles, Scanning, Looking, OnDisk, ServeEnds, GiveBack,
       GoTo, Still, Counting, vars
  <2> QED BY <2>1, DoneKept
<1> QED BY <1>1, <1>2, <1>3, <1>4, <1>5, <1>6, <1>7, <1>8, <1>9, <1>10, <1>11,
   <1>12, <1>13, <1>14, <1>15, <1>16, <1>17, <1>18, <1>19, <1>20, <1>21, <1>22,
   <1>23, <1>24, <1>25, <1>26, <1>27, <1>28, <1>29, <1>30 DEF LaunchNext, Ladder

(* What the ladder does to the partition table is what Mbr has lemmas of.   *)
LEMMA MbrKept ==
  ASSUME LaunchIInv, LaunchNext \/ UNCHANGED launchVars
  PROVE  MbrIInv'
<1>1. CASE UNCHANGED launchVars
  BY <1>1, StutterOK DEF LaunchIInv, launchVars
<1>2. CASE Start
  BY <1>2, StutterOK DEF LaunchIInv, Start, Gone
<1>3. CASE LoadDokan
  BY <1>3, StutterOK DEF LaunchIInv, LoadDokan, Take, GoTo, Still, Counting
<1>4. CASE LoadFails
  <2>1. CASE who = "service"
    <3>1. StopScan
      BY <1>4, <2>1 DEF LaunchIInv, Scanning, OnDisk, LoadFails, StopScan
    <3> QED BY <3>1, StopScanOK DEF LaunchIInv
  <2>2. CASE who # "service"
    <3>1. UNCHANGED vars
      BY <1>4, <2>2 DEF LoadFails, vars
    <3> QED BY <3>1, StutterOK DEF LaunchIInv
  <2> QED BY <2>1, <2>2
<1>5. CASE RemoveMountPoint
  BY <1>5, StutterOK DEF LaunchIInv, RemoveMountPoint, GoTo, Keep, Still, Counting
<1>6. CASE NextDrive
  BY <1>6, StutterOK DEF LaunchIInv, NextDrive, GoTo, Keep, Still, Counting
<1>7. CASE NoMoreDrives
  <2>1. /\ phase' = "open" /\ UNCHANGED <<disk, no, stack, got, found, opened>>
        /\ fault' = [fault EXCEPT !.scan =
                       @ \cup (IF phase = "scan" THEN {"failed"} ELSE {})]
        /\ no = 0 /\ fault \in [scan : SUBSET Fault, call : SUBSET Fault]
    BY <1>7 DEF NoMoreDrives, LaunchIInv, Scanning, MbrIInv, TypeOK
  <2>2. CASE phase = "scan"
    BY <2>1, <2>2, StopScanOK DEF StopScan, LaunchIInv
  <2>3. CASE phase # "scan"
    <3>1. fault' = fault
      BY <2>1, <2>3
    <3>2. UNCHANGED vars
      BY <2>1, <2>3, <3>1, FoundType DEF vars
    <3> QED BY <3>2, StutterOK DEF LaunchIInv
  <2> QED BY <2>2, <2>3
<1>8. CASE AllocDisk
  BY <1>8, StutterOK DEF LaunchIInv, AllocDisk, Take, GoTo, Still, Counting
<1>9. CASE NoDisk
  BY <1>9, StutterOK DEF LaunchIInv, NoDisk, Keep, DiskGone, GoTo
<1>10. CASE OpenDevice
  BY <1>10, StutterOK DEF LaunchIInv, OpenDevice, Take, GoTo, Still, Counting
<1>11. CASE NoDevice
  BY <1>11, StutterOK DEF LaunchIInv, NoDevice, ProbeFails, InDdev, DiskGone, GoTo
<1>12. CASE LoadVix
  BY <1>12, StutterOK DEF LaunchIInv, LoadVix, Take, Still, Counting, ProbeFails,
     InDdev, DiskGone, GoTo
<1>13. CASE InitVix
  BY <1>13, StutterOK DEF LaunchIInv, InitVix, Take, Still, Counting, ProbeFails,
     InDdev, DiskGone, GoTo
<1>14. CASE Connect
  BY <1>14, StutterOK DEF LaunchIInv, Connect, Take, Still, Counting, ProbeFails,
     InDdev, DiskGone, GoTo
<1>15. CASE OpenVdisk
  BY <1>15, StutterOK DEF LaunchIInv, OpenVdisk, Take, Still, Counting, ProbeFails,
     InDdev, DiskGone, GoTo
<1>16. CASE CloseDisk
  BY <1>16, StutterOK DEF LaunchIInv, CloseDisk, InDdev, DiskGone, GoTo
<1>17. CASE AskNumber
  BY <1>17, AskNextOK, AskAgainOK DEF AskNumber, LaunchIInv
<1>18. CASE NoMoreNumbers
  <2>1. StopScan
    BY <1>18 DEF NoMoreNumbers, ScanFull, StopScan
  <2> QED BY <2>1, StopScanOK DEF LaunchIInv
<1>19. CASE CountOn
  BY <1>19, ParseOK DEF LaunchIInv, CountOn, ParseDisk
<1>20. CASE Given
  BY <1>20, ParseOK DEF LaunchIInv, Given, ParseDisk
<1>21. CASE NotGiven
  BY <1>21, ParseOK DEF LaunchIInv, NotGiven, ParseDisk
<1>22. CASE ClosePartition
  BY <1>22, StutterOK DEF LaunchIInv, ClosePartition, GiveBack, GoTo, Still, Counting
<1>23. CASE AllocFs
  BY <1>23, StutterOK DEF LaunchIInv, AllocFs, Take, GoTo, Still, Counting,
     Unmountable, GiveBack
<1>24. CASE ReadSuper
  BY <1>24, StutterOK DEF LaunchIInv, ReadSuper, Keep, GoTo, Still, Counting,
     Unmountable, GiveBack
<1>25. CASE ReadRoot
  BY <1>25, StutterOK DEF LaunchIInv, ReadRoot, Take, GoTo, Still, Counting,
     Unmountable, GiveBack
<1>26. CASE Umount
  BY <1>26, StutterOK DEF LaunchIInv, Umount, GiveBack, GoTo, Still, Counting
<1>27. CASE StartProcess
  BY <1>27, StutterOK DEF LaunchIInv, StartProcess, GoTo
<1>28. CASE Serve
  BY <1>28, StutterOK DEF LaunchIInv, Serve, Take, Keep, GoTo, Still, Counting
<1>29. CASE UnloadDokan
  BY <1>29, StutterOK DEF LaunchIInv, UnloadDokan, GiveBack, GoTo, Still, Counting
<1>30. CASE ServeEnds
  BY <1>30, StutterOK DEF LaunchIInv, ServeEnds, GiveBack, GoTo, Still, Counting
<1> QED BY <1>1, <1>2, <1>3, <1>4, <1>5, <1>6, <1>7, <1>8, <1>9, <1>10, <1>11,
   <1>12, <1>13, <1>14, <1>15, <1>16, <1>17, <1>18, <1>19, <1>20, <1>21, <1>22,
   <1>23, <1>24, <1>25, <1>26, <1>27, <1>28, <1>29, <1>30 DEF LaunchNext, Ladder

LEMMA StartOK ==
  ASSUME LaunchInit PROVE LaunchIInv
<1>1. MbrIInv /\ found = <<>> /\ no = 0 /\ phase = "scan"
  BY InitOK DEF LaunchInit, Init
<1>2. Roles /\ Scanning /\ Held /\ Lost
  BY <1>1, LaunchAssumption DEF LaunchInit, Roles, Scanning, Held, Lost, Rung, OnDisk
<1>3. Started
  BY <1>1, EmptySeq DEF LaunchInit, Started, DoneWith, Looking
<1> QED BY <1>1, <1>2, <1>3 DEF LaunchIInv

LEMMA StepOK ==
  ASSUME LaunchIInv, LaunchNext \/ UNCHANGED launchVars PROVE LaunchIInv'
<1>1. Roles'
  BY RolesKept
<1>2. Held' /\ Scanning' /\ Lost'
  BY <1>1, HeldKept, ScanningKept, LostKept
<1>3. MbrIInv' /\ Started'
  BY MbrKept, StartedKept
<1> QED BY <1>1, <1>2, <1>3 DEF LaunchIInv

(* The inductive invariant of the service, the processes and eokan -u.     *)
THEOREM LaunchInvariance == LaunchSpec => []LaunchIInv
<1>1. LaunchInit => LaunchIInv
  BY StartOK
<1>2. LaunchIInv /\ [LaunchNext]_launchVars => LaunchIInv'
  BY StepOK
<1> QED BY <1>1, <1>2, PTL DEF LaunchSpec

-----------------------------------------------------------------------------
(* Every variable of the ladder and of the partition table has its type;   *)
(* the numbers processes are started for are numbers of partitions.        *)
THEOREM LaunchTypeCorrect == LaunchSpec => []LaunchTypeOK
<1>1. LaunchIInv => LaunchTypeOK
  <2> SUFFICES ASSUME LaunchIInv PROVE LaunchTypeOK
    OBVIOUS
  <2>1. TypeOK /\ Len(found) \in Nat /\ Len(found) <= MaxPart /\ MaxPart \in Nat
    BY FoundType, DisksAssumption DEF LaunchIInv, MbrIInv, TypeOK
  <2>2. /\ started \subseteq 1..MaxPart /\ skipped \subseteq 1..MaxPart
        /\ misread \subseteq 1..MaxPart
    BY <2>1 DEF LaunchIInv, Started, DoneWith
  <2>3. held \subseteq DOMAIN Needs
    BY DEF LaunchIInv, Roles, Held, Base, Needs, Rung, Gone
  <2>4. lost \subseteq DOMAIN Needs \cup {"child"}
    BY DEF LaunchIInv, Lost, Needs
  <2> QED BY <2>1, <2>2, <2>3, <2>4 DEF LaunchIInv, Roles, LaunchTypeOK
<1> QED BY <1>1, LaunchInvariance, PTL

(* A service whose tables could all be read has found every partition,     *)
(* once and in order, up to the last it asks for.                          *)
THEOREM ScanComplete == LaunchSpec => []ScanFindsAll
<1>1. LaunchIInv => ScanFindsAll
  BY InvariantSays DEF LaunchIInv
<1> QED BY <1>1, LaunchInvariance, PTL

(* Whatever cannot be read, a number names a partition of the disk, and    *)
(* none before the partition of that number, unless other bytes were taken *)
(* for a table.                                                            *)
THEOREM NoneBefore == LaunchSpec => []NeverBefore
<1>1. LaunchIInv => NeverBefore
  BY InvariantSays DEF LaunchIInv
<1> QED BY <1>1, LaunchInvariance, PTL

(* A process gets the partition the service looked at under its number.    *)
THEOREM ProcessGetsSame == LaunchSpec => []SameAsScanned
<1>1. LaunchIInv => SameAsScanned
  BY InvariantSays DEF LaunchIInv
<1> QED BY <1>1, LaunchInvariance, PTL

(* Nothing is given back while what is used through it is still held.      *)
THEOREM NothingUnderfoot == LaunchSpec => []DependenciesHeld
<1>1. LaunchIInv => DependenciesHeld
  <2> SUFFICES ASSUME LaunchIInv PROVE DependenciesHeld
    OBVIOUS
  <2>1. \A r \in held : Needs[r] \subseteq held
    BY DEF LaunchIInv, Roles, Held, Base, Needs, Rung, Gone
  <2>2. held \cap {"part", "extfs", "fsys"} # {} => held \cap Device # {}
    BY DEF LaunchIInv, Roles, Held, Base, Device, Rung, Gone
  <2>3. at = "crashed" => who = "umount"
    BY DEF LaunchIInv, Roles
  <2> QED BY <2>1, <2>2, <2>3 DEF DependenciesHeld
<1> QED BY <1>1, LaunchInvariance, PTL

(* A process that leaves holds nothing, and has lost only what the code    *)
(* never gives back.                                                       *)
THEOREM AllGivenBack == LaunchSpec => []NothingLeft
<1>1. LaunchIInv => NothingLeft
  BY DEF LaunchIInv, Roles, Held, Lost, Base, Device, NothingLeft
<1> QED BY <1>1, LaunchInvariance, PTL

(* A service that has scanned has started a process for each partition     *)
(* with an ext file system that it did not fail to read, and for no other  *)
(* but those whose super block it misread.                                 *)
THEOREM StartsEach == LaunchSpec => []StartsWhatMounts
<1>1. LaunchIInv => StartsWhatMounts
  <2> SUFFICES ASSUME LaunchIInv, who = "service", phase = "open"
               PROVE  started \ misread =
                        {n \in DOMAIN found : found[n].off \in ExtAt} \ skipped
    BY DEF StartsWhatMounts
  <2>1. ~Looking
    BY DEF LaunchIInv, Scanning, Looking, OnDisk
  <2>2. DoneWith = 1..Len(found) /\ DOMAIN found = 1..Len(found)
    BY <2>1, FoundType, LenProperties DEF DoneWith
  <2> QED BY <2>2 DEF LaunchIInv, Started
<1> QED BY <1>1, LaunchInvariance, PTL
=============================================================================
