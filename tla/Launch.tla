-------------------------------- MODULE Launch --------------------------------
(***************************************************************************)
(* The ladders of resources on which a drive stands: a process of          *)
(* eokan_svc.c:585-614 loads Dokan, opens the disk, asks for its partition *)
(* (Mbr), mounts the file system and serves it until the drive is          *)
(* unmounted; the service (mount_phydisk_parts, 409-439) climbs the same   *)
(* ladder for every partition, comes down again and starts a process       *)
(* instead; eokan -u (572-577) loads Dokan to remove a mount point.  Each  *)
(* rung may fail, and what is given back then is written anew at each.     *)
(*                                                                         *)
(* One of these runs at a time: each is a process with resources of its    *)
(* own.  There is one disk, at one of the Drives numbers the service       *)
(* tries; a vmdk file is an image of it.  A block of memory whose handles  *)
(* are forgotten by freeing it loses what they stand for.                  *)
(***************************************************************************)
EXTENDS Mbr

CONSTANTS
  Drives,       (* the 4 physical drives of mount_phydisk_parts              *)
  ExtAt         (* the sectors an ext file system begins at                  *)

ASSUME LaunchAssumption == Drives \in Nat \ {0} /\ ExtAt \subseteq Nat

VARIABLES
  who,          (* what the process was started as                           *)
  kind,         (* the disk type: physical, vmdk, or a name disks[] lacks    *)
  at,           (* the rung it is on                                         *)
  held,         (* what it holds                                             *)
  lost,         (* what it holds and can give back no more                   *)
  drive,        (* the service: physical drives tried so far                 *)
  started,      (* the numbers the service has started a process for         *)
  skipped,      (* those whose file system it failed to mount                *)
  misread       (* those it took for one by bytes that are not theirs        *)

lvars == <<who, kind, at, held, lost, drive, started, skipped, misread>>
launchVars == <<vars, lvars>>

Gone == {"off", "crashed", "aborted"}
Rung == Gone \cup
  {"load", "drive", "open", "probe", "init", "connect", "vdisk", "numbers",
   "count", "mount", "super", "root", "mounted", "serve", "umount", "start",
   "partition", "close", "unload", "remove"}

(* What a resource is used through.                                        *)
Needs ==
  [dokan |-> {}, ddev |-> {}, lock |-> {"ddev"}, file |-> {"ddev"},
   vix |-> {"ddev"}, init |-> {"vix"}, connection |-> {"init"},
   vdisk |-> {"connection"}, part |-> {"ddev"}, extfs |-> {"part"},
   fsys |-> {"extfs"}, mountpoint |-> {"fsys", "dokan"}, buffers |-> {"extfs"}]

InDdev == {"lock", "file", "vix", "init", "connection", "vdisk"}
Device == {"file", "vdisk"}

LaunchTypeOK ==
  /\ TypeOK
  /\ who \in {"service", "process", "umount"}
  /\ kind \in {"physical", "vmdk", "unknown"} /\ at \in Rung
  /\ held \subseteq DOMAIN Needs
  /\ lost \subseteq DOMAIN Needs \cup {"child"}
  /\ drive \in 0..Drives
  /\ started \subseteq 1..MaxPart /\ skipped \subseteq 1..MaxPart
  /\ misread \subseteq 1..MaxPart

LaunchInit ==
  /\ Init
  /\ who = "service" /\ kind = "physical" /\ at = "load"
  /\ held = {} /\ lost = {}
  /\ drive = 0 /\ started = {} /\ skipped = {} /\ misread = {}

-----------------------------------------------------------------------------
GoTo(rung) == at' = rung
Take(r) == held' = held \cup r /\ UNCHANGED lost
GiveBack(r) == held' = held \ r /\ UNCHANGED lost
Keep == UNCHANGED <<held, lost>>

Counting == UNCHANGED <<who, kind, drive, started, skipped, misread>>
Still == UNCHANGED vars /\ Counting

(* A process is started by hand, or is one the service has started; what   *)
(* the service counted is no concern of it.                                *)
Start ==
  /\ at \in Gone /\ phase = "open"
  /\ \/ who' = "process" /\ kind' \in {"physical", "vmdk", "unknown"}
     \/ who' = "umount" /\ UNCHANGED kind
  /\ at' = "load" /\ held' = {} /\ lost' = {}
  /\ drive' = 0 /\ started' = {} /\ skipped' = {} /\ misread' = {}
  /\ UNCHANGED vars

(* eokan_load gives the library back when it lacks a function; eokan -u    *)
(* does not look at what it returns.                                       *)
LoadDokan ==
  /\ at = "load"
  /\ Take({"dokan"})
  /\ GoTo(CASE who = "service" -> "drive"
            [] who = "process" -> "open"
            [] OTHER -> "remove")
  /\ Still

LoadFails ==
  /\ at = "load"
  /\ GoTo(IF who = "umount" THEN "remove" ELSE "off")
  /\ IF who = "service"
     THEN phase' = "open" /\ fault' = [fault EXCEPT !.scan = @ \cup {"failed"}]
     ELSE UNCHANGED <<phase, fault>>
  /\ UNCHANGED <<disk, no, stack, got, found, opened>> /\ Keep /\ Counting

RemoveMountPoint ==
  /\ at = "remove"
  /\ GoTo(IF "dokan" \in held THEN "unload" ELSE "crashed")
  /\ Keep /\ Still

(* The service's loop over the physical drives.                            *)
NextDrive ==
  /\ at = "drive" /\ drive < Drives
  /\ GoTo("open") /\ Keep /\ Still

NoMoreDrives ==
  /\ at = "drive" /\ drive = Drives
  /\ phase' = "open"
  /\ fault' = [fault EXCEPT !.scan =
                 @ \cup (IF phase = "scan" THEN {"failed"} ELSE {})]
  /\ GoTo("unload") /\ Keep
  /\ UNCHANGED <<disk, no, stack, got, found, opened>> /\ Counting

(* The service goes on to the next drive, a process leaves.                *)
DiskGone ==
  /\ IF who = "service" THEN GoTo("drive") /\ drive' = drive + 1
                        ELSE GoTo("unload") /\ UNCHANGED drive
  /\ UNCHANGED <<vars, who, kind, started, skipped, misread>>

-----------------------------------------------------------------------------
(* disk_open (disk.c:45-69) and the two probe functions.                   *)

AllocDisk ==
  /\ at = "open" /\ kind # "unknown"
  /\ Take({"ddev", "lock"})
  /\ GoTo("probe") /\ Still

NoDisk ==
  /\ at = "open"       \* no such type, or no memory
  /\ Keep /\ DiskGone

(* A probe fails: it has given back some of what it holds, and disk_open   *)
(* frees the rest of the disk as a block of memory.                        *)
ProbeFails(givenBack) ==
  /\ held' = held \ ({"ddev"} \cup InDdev)
  /\ lost' = lost \cup ((held \cap InDdev) \ givenBack)
  /\ DiskGone

(* phy_disk_create.  Once the service has found its disk, the other drives *)
(* are not there.                                                          *)
OpenDevice ==
  /\ at = "probe" /\ kind = "physical" /\ (who = "service" => phase = "scan")
  /\ Take({"file"}) /\ GoTo("numbers") /\ Still

NoDevice ==
  /\ at = "probe" /\ kind = "physical"
  /\ ProbeFails({})

(* vmdk_disk_create: an assertion ends the process when the library lacks  *)
(* a function.                                                             *)
LoadVix ==
  /\ at = "probe" /\ kind = "vmdk"
  /\ \/ Take({"vix"}) /\ at' \in {"init", "aborted"} /\ Still
     \/ ProbeFails({})

InitVix ==
  /\ at = "init"
  /\ \/ Take({"init"}) /\ GoTo("connect") /\ Still
     \/ ProbeFails({})

Connect ==
  /\ at = "connect"
  /\ \/ Take({"connection"}) /\ GoTo("vdisk") /\ Still
     \/ ProbeFails({"init"})

OpenVdiskKeepsInit ==
  /\ at = "vdisk"
  /\ \/ Take({"vdisk"}) /\ GoTo("numbers") /\ Still
     \/ ProbeFails({"connection"})

OpenVdisk ==
  /\ at = "vdisk"
  /\ \/ Take({"vdisk"}) /\ GoTo("numbers") /\ Still
     \/ ProbeFails({"connection", "init"})

(* disk_close: the device's release function, the lock, the memory.  The   *)
(* library of the virtual disks stays loaded.                              *)
CloseDisk ==
  /\ at = "close"
  /\ held' = held \ ({"ddev"} \cup InDdev)
  /\ lost' = lost \cup (held \cap {"vix"})
  /\ DiskGone

-----------------------------------------------------------------------------
(* The partition.                                                          *)

AskNumber ==
  /\ at = "numbers"
  /\ (who = "service" /\ AskNext) \/ (who = "process" /\ AskAgain)
  /\ GoTo("count") /\ Keep /\ Counting

NoMoreNumbers ==
  /\ at = "numbers" /\ who = "service" /\ ScanFull
  /\ GoTo("close") /\ Keep /\ Counting

(* The library of the virtual disks tells when it could not read.          *)
ParseDisk == Parse /\ (kind = "vmdk" => "stray" \notin fault'.call)

CountOn ==
  /\ at = "count" /\ ParseDisk /\ no' # 0
  /\ UNCHANGED at /\ Keep /\ Counting

GivenPart == IF phase = "scan" THEN found' # found ELSE opened'.part # Null

Given ==
  /\ at = "count" /\ ParseDisk /\ no' = 0 /\ GivenPart
  /\ Take({"part"}) /\ GoTo("mount") /\ Counting

NotGiven ==
  /\ at = "count" /\ ParseDisk /\ no' = 0 /\ ~GivenPart
  /\ GoTo("close") /\ Keep /\ Counting

ClosePartition ==
  /\ at = "partition"
  /\ GiveBack({"part"})
  /\ GoTo(IF who = "service" THEN "numbers" ELSE "close") /\ Still

-----------------------------------------------------------------------------
(* vfs_mount (fs.c:111-130) and ext4fs_mount (ext4.c:944-1000).            *)

Partitioned == IF who = "service" THEN found[Len(found)] ELSE opened.part
IsExt == Partitioned.off \in ExtAt

Unmountable ==
  /\ GiveBack({"extfs"})
  /\ GoTo("partition")
  /\ skipped' = IF who = "service" /\ IsExt THEN skipped \cup {Len(found)} ELSE skipped
  /\ UNCHANGED <<vars, who, kind, drive, started, misread>>

AllocFs ==
  /\ at = "mount"
  /\ \/ Take({"extfs"}) /\ GoTo("super") /\ Still
     \/ Unmountable

ReadSuperNoMagic ==
  /\ at = "super"
  /\ \/ Keep /\ GoTo("root") /\ Still
     \/ Unmountable

(* The super block is less than a sector: that it is outside the partition *)
(* is noticed, but not that it cannot be read (fs.c:76-82).  Then its      *)
(* magic number is looked for in what is on the stack or another sector,   *)
(* and a partition without ext may pass for one with it.                   *)
SuperSector == 2

ReadSuper ==
  /\ at = "super"
  /\ \/ /\ Partitioned.len > SuperSector
        /\ misread' = IF who = "service" /\ ~IsExt THEN misread \cup {Len(found)}
                      ELSE misread
        /\ Keep /\ GoTo("root")
        /\ UNCHANGED <<vars, who, kind, drive, started, skipped>>
     \/ Unmountable

ReadRoot ==
  /\ at = "root"
  /\ \/ Take({"fsys"}) /\ GoTo("mounted") /\ Still
     \/ Unmountable

(* The service only wanted to know.  ext4fs_umount frees the root node as  *)
(* part of the file system; the indirect buffers of that node, which       *)
(* ext4fs_free_node spares, are forgotten (ext4.c:51, 582-587).            *)
Umount ==
  /\ at = "umount" \/ (at = "mounted" /\ who = "service")
  /\ held' = held \ {"fsys", "extfs", "buffers"}
  /\ lost' = lost \cup (held \cap {"buffers"})
  /\ GoTo(IF who = "service" THEN "start" ELSE "partition") /\ Still

(* create_eokan_process never closes the handles of what it starts.        *)
StartProcess ==
  /\ at = "start"
  /\ started' = started \cup {Len(found)}
  /\ \/ lost' = lost \cup {"child"}
     \/ UNCHANGED lost
  /\ GoTo("partition")
  /\ UNCHANGED <<vars, who, kind, held, drive, skipped, misread>>

(* eokan_main: DokanMain mounts and serves, or returns at once.            *)
ServeClosesFirst ==
  /\ at = "mounted" /\ who = "process"
  /\ \/ Take({"mountpoint"}) /\ GoTo("serve")
     \/ GiveBack({"part"}) /\ GoTo("umount")
  /\ Still

Serve ==
  /\ at = "mounted" /\ who = "process"
  /\ \/ "dokan" \in held /\ Take({"mountpoint"}) /\ GoTo("serve")
     \/ "dokan" \in held /\ Keep /\ GoTo("umount")
     \/ "dokan" \notin held /\ Keep /\ GoTo("crashed")
  /\ Still

(* Somebody removes the mount point.  By then reads of the root directory  *)
(* may have left its node with indirect buffers.                           *)
ServeEnds ==
  /\ at = "serve"
  /\ \E b \in SUBSET {"buffers"} : held' = (held \ {"mountpoint"}) \cup b
  /\ UNCHANGED lost /\ GoTo("umount") /\ Still

UnloadDokan ==
  /\ at = "unload"
  /\ GiveBack({"dokan"}) /\ GoTo("off") /\ Still

Ladder ==
  \/ LoadDokan \/ LoadFails \/ RemoveMountPoint \/ NextDrive \/ NoMoreDrives
  \/ AllocDisk \/ NoDisk \/ OpenDevice \/ NoDevice
  \/ LoadVix \/ InitVix \/ Connect \/ OpenVdisk \/ CloseDisk
  \/ AskNumber \/ NoMoreNumbers \/ CountOn \/ Given \/ NotGiven
  \/ ClosePartition \/ AllocFs \/ ReadSuper \/ ReadRoot
  \/ Umount \/ StartProcess \/ Serve \/ UnloadDokan

LaunchNext == Start \/ Ladder \/ ServeEnds

(* One thread.  Nobody has to start a process or remove a mount point.     *)
LaunchSpec == LaunchInit /\ [][LaunchNext]_launchVars /\ WF_launchVars(Ladder)

-----------------------------------------------------------------------------
(***************************************************************************)
(* Nothing is given back while something that is used through it is still  *)
(* held, on any way up or down: no callback of a mounted drive and no read *)
(* of a mounted file system finds its partition, disk, device or library   *)
(* gone.  Dokan is not called without its library, but by eokan -u, which  *)
(* ignores that it could not be loaded (eokan_svc.c:574).                  *)
(***************************************************************************)
DependenciesHeld ==
  /\ \A r \in held : Needs[r] \subseteq held
  /\ held \cap {"part", "extfs", "fsys"} # {} => held \cap Device # {}
  /\ at = "crashed" => who = "umount"

(***************************************************************************)
(* Whichever rung fails, a process that leaves has given back everything,  *)
(* except what the code never does: the critical section of a disk whose   *)
(* probe failed (disk.c:60), the library of the virtual disks, the handles *)
(* of started processes and the root node's indirect buffers.  One that    *)
(* served has lost no lock.                                                *)
(***************************************************************************)
NothingLeft ==
  /\ at = "off" => held = {}
  /\ lost \subseteq {"lock", "vix", "child", "buffers"}
  /\ who # "service" /\ held \cap Device # {} => lost \subseteq {"buffers"}
  /\ "vix" \in lost => kind = "vmdk"
  /\ "buffers" \in lost => who = "process" /\ "lock" \notin lost

(***************************************************************************)
(* The service starts a process for each partition it found that holds an  *)
(* ext file system, under the number it was found by, but for those it     *)
(* could not read itself; and for no other, but for those whose super      *)
(* block it could not read without noticing.                               *)
(***************************************************************************)
StartsWhatMounts ==
  who = "service" /\ phase = "open" =>
    started \ misread = {n \in DOMAIN found : found[n].off \in ExtAt} \ skipped

(***************************************************************************)
(* Whatever fails on the way, the scan of the service and every process    *)
(* that is not serving a drive come to an end.                             *)
(***************************************************************************)
LaunchEnds == (at \notin Gone) ~> (at \in Gone \cup {"serve"})
=============================================================================
