# A TLA+ model of eokan

eokan shows the ext2/3/4 partitions of a disk (a physical drive or a VMware
image) as Windows drive letters. It is read-only. One process, a Windows
service, starts one process per partition; each of these runs Dokan, whose
callbacks call a small ext2/3/4 reader. This directory holds the TLA+ modules
that model it, the TLC configurations that check them, the proofs, and
`PROJECT.json`, which says which source lines each definition stands for.

Run the checks here: `tlc -config MCBlockMap.cfg MCBlockMap`, and so on for the
other configurations (each is named after its module, with a suffix where a module has two); `tlapm BlockMapProof.tla` and so on for the
modules that end in `Proof`.

## 1. Inventory

The parts, what each keeps, and what makes it correct. Line numbers are those of
`src/`.

| Part | Source | State | Operations | Correct when |
|---|---|---|---|---|
| Indirect block map | ext4.c:59-73, 115-383 | three pointer-block buffers and their numbers, per node, as long as the node lives | read_allocated_block1 | a logical block is mapped as the file's layout says, whatever earlier calls left in the buffers |
| Extent block map | ext4.c:74-113, 496-531 | none that lasts | the same, for inodes with extents | the extent that covers the block is found at every depth of the tree |
| File read | ext4.c:390-494 | a delayed run of adjacent blocks | ext4fs_read_file | the bytes delivered are the file's, each in its place, and nothing behind the request is touched |
| Byte access | fs.c:35-103, disk.c:79-87 | none | vfs_devread | up to three sector reads put together the bytes asked for and stay in the partition |
| Inode location | ext4.c:533-580 | none | ext4fs_blockgroup, ext4fs_read_inode | inode n is read from its place in its group |
| Path lookup, node ownership | ext4.c:744-942, 591-742, 1003-1022 | heap nodes, a nesting counter, the open files | find_file, open, close, list | the object named is found, the lookup ends, each node is freed exactly once |
| Mount, label, statistics | ext4.c:944-1000, 1024-1063, fs.c:111-153 | superblock, root node | ext4fs_mount, vfs_mount, vfs_umount | every failure gives back what was taken |
| Dokan operations | eokan.c:73-439 | the file entry in each Dokan context | CreateFile, OpenDirectory, ReadFile, FindFiles, CloseFile, ... | contexts and open files belong together, and an answer is that of the file the context was made for |
| Windows service | eokan_svc.c:324-493 | gSvcStatus, ghSvcStopEvent | eokan_svc_main, svcctl_handler | a stop that was delivered ends the service, the drives are unmounted, the reports are those of the service's states |
| Mount process | eokan_svc.c:369-384, 572-615, eokan.c:442-570 | its drive letter, and what its mount stands on | find_valid_drive, main, eokan_main | it uses a letter nobody uses; disk, partition, file system and mount point are given back in order |
| Installation | eokan_svc.c:36-317 | the service's entry in the SCM | install, remove | a removal ends, and what it takes for stopped is stopped |
| Partition table | disk.c:111-178 | the list of partitions | disk_get_partition | partition numbers count primary and logical partitions in order |
| Disk devices | disk.c:41-110, phy_disk.c | one handle and one lock per disk | disk_open, disk_close, disk_read | a read takes place where it was asked for; a failed open leaves nothing behind |
| VMDK devices | vmdk_disk.c | a library, a connection, a disk handle | vmdk_disk_create | each failure gives back what was taken |

How they interact. A Dokan callback makes one vfs call. A vfs call on a path looks
it up (path lookup), which reads directories (file read); a file read maps each
block (block map) and reads runs of blocks (byte access); byte access reads
sectors of the disk. All of this is synchronous, on one thread: `eokan_main` asks
Dokan for `ThreadCount = 1` (eokan.c:497). So the state that outlives a call is
what makes the reader hard: the pointer-block buffers of a node, the nodes
themselves, and the result of each call that fails half way. The service is the
concurrent part: the service's main function, the control handler (in the
dispatcher's thread) and the processes run at the same time and meet in
`gSvcStatus`, in the stop event and in the set of drive letters.

The hazards of the code, each at its line and with the properties that watch it,
are listed in `PROJECT.json`; a note says what a property leaves out. The two without a
property (the narrowing of Dokan's 64 bit offset, fs.h:71, and the counting of links that
do not nest, ext4.c:799) say why.

## 2. The modules

### BlockMap and BlockMapProof

`BlockMap` is `read_allocated_block1` on an inode without extents. A node keeps one
buffer per level (`indir[l].block`, with the block number it holds in
`indir[l].blkno`). All three depths share the buffers: level 1 holds the single
indirect block after one call and the root of the double tree after the next. The
code writes the six loads out one by one; the model has them once, by level, and
`Slot`, `Wanted` and `Probed` say in what they differ. A call is cut where it may
leave:

| Action | Code |
|---|---|
| `CallDirect`, `Call` | entry, and which depth (115-120, 161, 249) |
| `AllocFails` | `zalloc` returns NULL for a buffer not there yet |
| `Hit` | the number kept is the one wanted |
| `Load` | it is not: the device is read, the number is set; the bytes may be others, when the device failed unnoticed (phy_disk.c:56-61) |
| `LoadFails` | the read fails: the number stays, the contents may be spoilt; result 0 at depth 1, -1 below |
| `Lookup` | the slot of the last level is the result |

`Probed` is what makes line 358 different from the others: it indexes the second
buffer without the modulus, so from block `perblock * perblock` of the triple range
on the value compared is memory past the end of the buffer. The model lets it be
any block number.

A pointer that is 0 stands for no block, but the code tests none on its way: a null pointer leads it into block 0, whose
bytes it takes for pointers. `Wanted` does the same; the reference `InLayout` has a hole there (`Entry`).

Abstractions: a block number stands for its sector; the branches for a changed
block size are left out because the block size of a mount does not change; integers
do not overflow (shifts of large block numbers are a hazard in the list).

### DevRead, FileRead, InodeRead, FileSpec and their proofs

`DevRead` is `vfs_devread`: check, head, small, body, tail, one action per
`part_read`. A byte of the partition stands for its own address, so the caller's buffer
shows where every byte came from. A `part_read` fails, succeeds, or succeeds with bytes from
elsewhere (`Stray`): `phy_disk_read` looks neither at the result of its seek nor at the number of bytes
it got. `Small` succeeds with `Garbage` when its `part_read` fails, as line 80 does. Sectors are ints
of `IntMax`; the sum of line 41 is one of the code's that `Wrap` folds.

`FileRead` extends it with the loop of `ext4fs_read_file`: `MapBlock` (line 417), `StartRun`,
`Extend`, `Hole`, `Spill` (the three calls of `vfs_devread`), `Spilled` (what the loop does with the
result), `Done`; `Taken` is the caller that has its answer. The block map is a constant function of
the model, since `BlockMap` is about how it is computed; 0 is a hole and a map may fail.

`InodeRead` puts `ext4fs_read_inode` and `ext4fs_blockgroup` before it, on the same device: the descriptor is read
(`ReadGroup`), then the inode in the table it names (`GroupRead`), then the file may be read. A descriptor
whose bytes came from elsewhere names any table. The number of an inode is an int (line 554): from 2^31 + 1 on, as for number 0,
what line 572 computes is negative, and `InodeOffset` is too.

`FileSpec` is the abstract specification of an open file (the function pointer of fs.h:46-50): one answer to every
request, which is an error or the file's bytes. `FileRead` implements it by the refinement mapping `Promise`:
the request is `req` while a call runs, the answer is `result` and the buffer once it is `done`; the delayed run,
the device call and the loop's variables are not to be seen. `ReadPromise` is the whole of
`FileSpec!Spec`, its fairness included, and is checked on the steps of `InodeRead`.

Abstractions: a file maps no physical block twice, which a sound file system guarantees (`MapsAssumption`); a request's
position is not negative (a position from 2 GB on is narrowed to an int, fs.h:71, and has no defined outcome). Block numbers go
up to the end of a partition of 2^32 sectors, so their sectors may be negative ints. `TablesAssumption` says what the
format guarantees of the tables: descriptors and inodes fill their blocks, and both lie in such a partition.

### PathLookup, DokanOps and DokanOpsProof

`PathLookup` has the operations of a lookup and no next-state relation of its own; `DokanOps` steps them.
`find_file1` calls itself for a symbolic link, from a node its caller still owns.
`stack` is that recursion: each frame has its `currroot`, `currnode` and `oldnode`, its own
`type`, and the rest of its path. `ret` is a call's result on its way to the frame below.
`heap` says which nodes are allocated and what they describe, so a double free, a use
after free and a leak are facts about the state. `SearchFinds` and `SearchFails` are
`ext4fs_iterate_dir` as a search, which compares the names of deleted entries (inode 0) too and takes the first that fits
(`FirstEntry`): `Stale` says which names of a directory are first met in a deleted entry, and what inode 0 is taken for;
`NestExceeded`, `LinkUnreadable` and `Follow` are the
three ways through a link; `Resume` is the return to the caller; `Found` is the end of
a component. `OpenEnds`, `ListEnds` and `Close` are the callers' sides. An unassigned `*foundtype`
(line 763) is `"unset"`. The target of a long link is read by `ext4fs_read_file`, whose -1 line 735
takes for success: `Torn` has what such a read may leave of it, and `Follow` follows that too. `fault` says what a lookup has met: a
failed read or allocation, a deleted entry taken for one, a torn link, a link to the root itself, a link of which nothing was left.

The last is special. A call of `find_file1` on an empty path returns the node it started from, which its caller frees and then
hands out (762-765, 821-838): from then on the program uses memory it has given back, and nothing can be said of what it does.
`Intact` is that this has not happened; it is remembered across lookups. When a frame, an open file or a result then refers to a
freed node (`Corrupt`), the specification ends (`Undefined`). The properties of `PathLookup` and `DokanOps` are claimed of
intact states, and `SymlinkFollowed` is the finding about the others. A link on the disk that is empty is excluded
(`TreeAssumption`); a link to `/` is not.

`DokanOps` has one action per callback of eokan.c, on file objects with the `Context` Dokan keeps for each.
`CreateFile` and `FindFiles` begin a lookup; `FileCreated` and `FilesFound` end them; between, a
listing goes through the directory entry by entry (`ListEntry`, `ListNameless`, `ListCut`), past deleted entries that
kept their names and entries without one. `ReadFile`, `GetFileInformation`, `CloseFile` and `OpenDirectory` are one step,
as they call nothing that can be interrupted; `Change` stands for the callbacks that change nothing and answer. Dokan itself is
external: it calls as dokan.h describes, with one thread.

Abstractions: a directory is a function from names to objects for a search, a sequence of entries for a listing (`SlotsAssumption` has them
agree, deleted entries included); the 8 of
line 799 is a constant; what `ReadFile` delivers is the object it comes from (its bytes are the matter of `FileRead`).

### ExtentMap and ExtentMapProof

The other half of `read_allocated_block1`: `Call` allocates the buffer, `NoMagic`, `NotInIndex`,
`Descend` and `DescendFails` are the loop of `ext4fs_get_extent_block`, `BeforeLeaf`, `Gap` and `Found`
the search of the leaf. A block of the disk is a node record. The length of a read is
`fs->blksz`, which nothing assigns, so `Descend` leaves the zeroed buffer as it is.

### Mbr and Launch

`Mbr` has the operations of `disk_get_mbr_partition`, which counts from the start of the disk for every number. `stack` is the
recursion of `parse_logic_partition`, one action per entry of a table (`Unused`, `Extended`,
`Partition`, `TableDone`), `ReadTable`, `ReadFails` and `ReadStray` are the reads. The last is one that `phy_disk_read` reports as
done though its seek failed or it came short: other bytes are parsed as a table. What they and the records they lead to
describe is anything of `Strays`, or nothing with the count moved on. `fault` has what went wrong in this call and in the scan. A link may lead past the end of the disk, where no
sector can be read. That every chain of links ends is assumed (`ChainsEnd`: any set of boot records of an extended
partition has one that links to no other of the set); on one that points back the code recurses until its stack is used up.

`Launch` composes it with what surrounds it: the ladder of resources from `dokan.dll` up to the mount point. Three
kinds of process climb it: the service (every drive, every number, mount, unmount, start a process), a process for one partition
(mount and serve), and `eokan -u`. `at` is the rung, `held` what the process holds, `lost` what it holds and can give back no
more because the memory with the handle was freed. Every rung may fail, and each failure gives back exactly what the
code gives back there: `vmdk_disk_create` frees the connection and exits the library at one rung and not at another, `disk_open` frees
the structure whose probe failed without deleting its critical section. `Needs` says what each resource
is used through. The super block is shorter than a sector, so `ReadSuper` notices that it lies outside the partition and not that
it could not be read (fs.c:76-82): a partition without ext may pass, which `misread` keeps. A read that brings other bytes of a
table is possible on a physical disk only (`ParseDisk`), since `vmdk_disk_read` returns what its library reports. While it serves, the root node may get
indirect buffers (`ServeEnds`), which umount does not free (`Umount`). A missing function of the VIX library ends the process by an assertion (`aborted`), a call through the null
pointer of eokan.c by a crash (`crashed`).

### EokanSvc and ScmControl

The main function, the handler and one process per partition. `report_svc_status`
is split at its writes of `gSvcStatus` (`WriteState`, `WriteAccept`, `SetServiceStatus`), since two
threads run it on the same structure without a lock. Exit code, wait hint and
checkpoint are left out. The SCM is external and modelled by how the code relies on it: it
delivers one stop, to a service that reported RUNNING and accepts STOP. Dokan
is external too: a mount fails on a used letter and may fail for any reason,
and removing a mount point may fail. `find_valid_drive` is translated with its step
of two letters (line 375 increments in the body as well), and its reading of the drives
(`ChildPick`) is apart from the mount (`ChildMount`).

`ScmControl` extends it with the processes of `eokan_svc -i` and `-r`. The remover sees the service only through
the state last reported to the SCM (`Reported`), copies it to its `ssp`, and decides on the copy. `Control` delivers the
stop of `EokanSvc`; `Depends`, `NextDependent` and `PollDependent` are `stop_depends`. `held` has the handles of the manager, the
service and the dependents, and the list made of these: each is taken by an action of its own (`Remove`, `OpenService`, `NextDependent`)
that may be refused, and given back where the code has the call. The handles of dependents are never closed, and the
list is freed only at the end of `stop_depends`. The two counts of 30 seconds are
`late`: `Tick` says that one is over, in the order in which they were started. `Refused` is any call of the SCM that fails
though it could succeed, in every state; Windows compels it for the handle of line 298, which asks for
DELETE only, so the rest of the removal is what the code is written for.

## 3. What the runs show

Every bound is in a cfg or an MC module.

| Run | Bounds | Properties |
|---|---|---|
| `block_map` | 1 direct pointer, 2 pointers per block: all 15 logical blocks of depths 0 to 3; a null pointer in the double tree, and a block 0 that does not read as null pointers | `TypeOK`, `BuffersCoherent`, `OnPath`, `MappedBlock` |
| `file_read` | sectors of 2 bytes, blocks of 4, ints up to 15; 3 groups of 8 inodes; files of up to 3 blocks, every map onto blocks 6, 7 and 8; partitions of 15 and 19 sectors; position up to 7, length up to 10 | `InodeTypeOK`, `InPartition`, `ReadIsFileContent`, `RunIsFile`, `OverrunOnlyByHole`, `InodeIsItsSlot`, `ReadPromise` |
| `dokan` | 2 file objects, 4 nodes, link limit 3, 9 paths in a tree with a relative, an absolute, a dangling, a cyclic and a long link, a link to `/`, a nameless entry, and a deleted one whose name is used again | `DokanTypeOK`, `Ownership`, `FindsWhatIsNamed`, `ContextsHoldFiles`, `AnswersFromNamed`, `ListingPrefix`, `LeaksOnlyOnFailure`, `CallbackEnds` |
| `service` | 3 partitions, letters A to F, three sets of letters in use | `TypeOK`, `SignalFindsEvent`, `SeenAreUnmounted`, `NeverRunningAgain`, `PicksUnused`, `StopEnds` |
| `remove_service` | the service with 1 partition, letters A to F, A and C in use, 2 dependents | `CtlTypeOK`, `HandlesClosed`, `StoppedMeansDone`, `RemoveEnds` |
| `extent_map` | six inodes: gaps, adjoining extents, none, one and two index levels, no magic; blocks 0 to 8 | `TypeOK`, `ExtentMapped`, `LeafAnswers` |
| `launch` | five disks: primary only, a chain of three boot records between two primary partitions, two extended partitions with an empty record and a record with only a link, more partitions than the scan asks for (3 for the 16 of the code), a link that leads past the end of the disk; 2 drive numbers for the 4 of the code; ext file systems on some of the partitions; bytes read for a table may describe one more partition | `LaunchTypeOK`, `ScanFindsAll`, `NeverBefore`, `SameAsScanned`, `DependenciesHeld`, `NothingLeft`, `StartsWhatMounts`, `LaunchEnds` |

Why these bounds are enough to meet the hard cases.

- `block_map`: two pointers per block give each tree a first and a last slot at every level, two different
  subtrees, and a second half of the triple range in which line 358 is out of range; one direct pointer
  gives both sides of the border of the direct range; the double tree has a null pointer, and block 0 has one pointer that is
not null and one that is, so the wrong answer behind it is met.
- `file_read`: sectors of two bytes have an aligned and an unaligned position, and blocks of two sectors
  separate the block borders from the sector borders; three blocks give a first, an inner and a last one,
  with runs, gaps and holes between them. The short partition ends in the middle of block 7, so a run fails the boundary
  check; block 8 begins at a sector that is no int of the instance, so the shift of line 421 wraps. Each group
  has two blocks of inodes, so the index in the group and the offset in the block are different numbers. There are 24 inodes and
  ints up to 15, so a third of the numbers is negative as an int.
- `dokan`: three frames are enough for a link within a link that ends by the limit; four nodes for two open files and a
  lookup in progress, and for running out of memory. The deleted name `old` stands before its new use in the same directory and
  is asked for by a path; a failed read of the long link leaves another path or nothing. Two file objects are enough for a file that is
  closed while another stays open, and for a freed node used again.
- `service`: three processes can choose the same letter, and a fourth letter of the kind C, E, .. does not exist in the
  instance, so the search runs past the last one.
- `remove_service`: one process is enough to be mounted before or after the look at the drives; with two dependents one can stop
  on its own while the other is waited for.
- `launch`: one disk may be at the first or the second drive number, so the service goes on after a drive that is not there
  and after one that is. The stray partition begins where one of the disk `Sparse` does and where an ext file system does, so
  it is mounted on disks that have none there. What a process leaves behind does not depend on the other processes.

What the properties say:

- `MappedBlock` and `BuffersCoherent`: every history of calls on a node, with every
  allocation and read failing or not, maps blocks as the file's layout says. The layout
  (`InLayout`) is stated from the tree, with slots counted in order and a hole behind every null pointer, and shares no arithmetic
  with the code's divisions. The exceptions are the code's own, and each is visible in the
  property: a spoilt buffer (`torn`), the 0 of line 153, line 358, and a null pointer on the way (`NullOnPath`) when block 0 does
  not read as null pointers (`Block0Clear`), as it does not with blocks of 4K, where the super block is in it. A sparse file
  may then be answered with blocks that are not its own.
- `ReadIsFileContent`, `RunIsFile`, `OverrunOnlyByHole`: the coalesced reads deliver the file's
  bytes; only bytes of a device read that went wrong unnoticed may differ. The last says exactly how far a
  read may write behind its request: the rest of a block that is a hole (line 479). `InodeIsItsSlot` says the same of
  an inode's number and its place, for numbers an int can hold; above them the code reads another place. `InPartition` says that no part of any of these reads leaves the partition, those included.
- `ReadPromise`: the whole composition is, for its caller, one answer to each request.
- `Ownership`: no double free, no use after free, until a link is followed of which a failed read had left nothing. `LeaksOnlyOnFailure` bounds what a lookup
  loses: one node per failed lookup (787) or refused listing (1014), and nothing otherwise.
- `FindsWhatIsNamed` compares with a resolver that replaces a link by its target in the path
  that is left. It counts links as the code does, over the whole lookup. `AnswersFromNamed` carries that on to every later
  read of the file object. Both except lookups through a torn link (735) and those that took a deleted entry for one (676): the
  code opens deleted names, and answers from whatever inode 0 is taken for. A link to `/` may make a lookup fail (763).
- `ContextsHoldFiles`: between callbacks, the open files are exactly those the contexts hold. `ListingPrefix`: the k-th name of a listing is
  that of the directory's k-th entry with a name; all of them, and exactly what a lookup finds, unless a read failed or a
  deleted entry was met.
- `StopEnds`, `SeenAreUnmounted`, `NeverRunningAgain`, `SignalFindsEvent`: a delivered stop ends the
  service; processes that were mounted when the service looked at the drives are gone or
  Dokan refused; the handler's second report never undoes the stop. `PicksUnused`: the letter chosen is free when it is chosen
  (two processes may choose the same one, and Dokan refuses the second).
- `StoppedMeansDone`: when the remover sees STOPPED, the service has been through its drives. `RemoveEnds`: a removal ends though
  the service never reports STOPPED or a dependent never stops. `HandlesClosed`: whichever call is refused, the manager and the
  service are given back, and not before the last call that needs them; what stays open are the dependents the removal came to,
  and their list when it was given up.
- `ExtentMapped`, `LeafAnswers`: what an inode's own extents map is right, and a gap is a hole; the
  reference is the set of all extents of all leaves. Below an index the code finds nothing (see
  the finding), so the first says little about deep trees.
- `ScanFindsAll`, `SameAsScanned`, `NeverBefore`: scan and process agree on the numbers while every
  table is read; when reads fail, numbers shift only to partitions further back. When a read brings other bytes as a table anything
  may be handed out, and nothing is claimed of that call. `StartsWhatMounts`: a process is started for
  each partition with an ext file system but those whose reads failed, and for no other but those whose super block was misread.
- `DependenciesHeld`: on every way up or down nothing is given back while something used through it is held. `NothingLeft`: a process
  that leaves holds nothing, and lists what the code never gives back: the critical section of a disk whose probe failed
  (disk.c:60), the library of the virtual disks, the handles of started processes (eokan_svc.c:404), and the indirect buffers of
  the root node of a file system that was served (ext4.c:51, 582-587).

### What the code does that its comments deny

Five runs expect a violation. Each finding is in `PROJECT.json` with its line.

- `triple_indirect`: line 358 tests the third buffer with an index past the second one; a
  stale buffer may be taken for the wanted one and a block of another place is returned.
- `read_past_end`: line 407 limits the length by the size of the file, not by what is left
  of it, against the comment above it.
- `torn_link`: when the read of a long link fails, what is left of it is followed. When that is nothing, the lookup ends with a
  node it has freed, whose type was never set; `ext4fs_open` frees it once more. (A link to `/` meets the same early
  return without the free, keeps the type of a link, and can be neither listed nor walked through.)
- `extent_index`: line 518 passes over the index entry that starts at the block asked for,
  against ext4.h:73; and the block it points to is read with a length of 0 (line 526).
- `stopped_report`: the handler's second report can overwrite STOPPED in the shared structure
  before the service thread sends it, and the service ends without ever reporting it.

### Fairness

All of it is weak fairness for a thread that is inside a call or a loop and waits for nothing:

- `file_read`: the steps of `ext4fs_read_inode` and of `ext4fs_read_file` (`InodeStep`, `Onward`). Nobody has to ask for a
  read. `FileSpec` has the fairness of its answer, which `ReadPromise` shows to follow.
- `dokan`: the steps of a callback that has begun. A step in which one more read fails or tears a link is not what the thread has
  to take (`NoReadFails`); running out of nodes is, when there is none. Finding a deleted entry is one of those it has to take, too. None is assumed for Dokan's calls.
- `service`: the steps of the main function and of the handler. The only wait, `WaitForSingleObject`, is a guard. None is
  assumed of the SCM (nobody has to stop the service) or of the processes.
- `remove_service`: these two, the remover's steps, and `Tick`: time goes on. None of the dependents.
- `launch`: the steps of the process that runs; nobody has to start one or to unmount its drive.

`block_map` and `extent_map` have no fairness and no liveness property: their calls are loops over a bounded range.

## 4. What is proved

`BlockMapProof` proves, for every number of direct pointers and pointers per block, every
layout of the pointer blocks and every content of a spoilt buffer:

- `TypeCorrect`: `Spec => []TypeOK`
- `Coherence`: `Spec => []BuffersCoherent`
- `PathKept`: `Spec => []OnPath`
- `Correctness`: `Spec => []MappedBlock`

Assumed: both sizes are positive (`SizesAssumption`), block numbers are naturals and 0 is one
(`BlockAssumption`), every pointer block has a slot for each index and its pointers are block
numbers (`DiskAssumption`). TLC evaluates them on the instance.

The argument. `MappedBlock` says nothing about buffers, so no step preserves it by itself.
`OnPath` adds that the levels a call has passed hold the pointer blocks of its own path.
That in turn needs `BuffersCoherent`: a hit skips the read because the number fits, so the
contents must be those of that number. The inductive invariant `IInv` is the conjunction of
the three and `TypeOK`, which keeps the level of a call within its depth. Its steps are one lemma per
action (`CallPreserves`, `HitPreserves`, `LoadPreserves`, `FailPreserves`, `LookupPreserves`), put
together in `NextIInv`. `Descend` is the heart of it: the pointer wanted at a level is the one
the path has there. What remains is arithmetic: that the slots computed by division are the
digits of the block's number (`DivMod`, `PathInLayout1`, `PathInLayout2`, `PathInLayout3`) and
lie within a pointer block (`SlotInRange`). The layout and the code differ behind a null pointer only, and there both give 0
when block 0 does.

`ServiceProof` proves of the service, for every number of partitions and letters and whatever letters others use
(`DriveAssumption`: the mask has a bit for each letter the search tries):

- `TypeCorrect`, `StopFindsEvent`, `SeenLeave`: `Spec => []TypeOK`, `[]SignalFindsEvent`, `[]SeenAreUnmounted`
- `StoppingIsFinal`, `LetterIsFree`: `Spec => NeverRunningAgain`, `Spec => PicksUnused`

The two threads write one structure, so what it holds follows from where both are. `MainReports` and `HandlerReports`
say which state a thread reports from each place; `EventFirst`, that the handler has been called only after the main thread
wrote RUNNING, which it does behind the creation of the event; `StatusFollows`, what the
structure and the SCM may hold at each pair of places. From these, `NeverRunningAgain` is a fact about one report: what it sends
is STOP_PENDING or STOPPED once the handler has written. `SeenAreVisited` says that a process that was seen
mounted has its letter among the drives still to be visited; it rests on `LettersGiven`, which keeps the letters of mounted
processes apart and within the mask. The search of `find_valid_drive` is a recursive
function; the lemmas `ScanExists` and `ScanLands` reach it through the least place where it would go wrong, since the
library's induction rules cannot be instantiated.

It proves of the same system with the installer and the remover, for every set of dependents:

- `RunsTheService`: `CtlSpec => Init /\ [][Next]_vars`, so every safety theorem about `EokanSvc` holds here too
- `CtlTypeCorrect`, `NoHandleLeft`, `StoppedIsDone`: `CtlTypeOK`, `HandlesClosed`, `StoppedMeansDone`

`StoppedMeansDone` compares a copy of a state reported at some earlier time with what the service is doing now. The invariant
adds to `IInv` that a removal past its first query found a service that was started (`RemovesStarted`).

`MbrProof` has the lemmas about the partition table and `LaunchProof` the theorems, for every disk whose chains end,
every number of drives and every limit of the scan (`DisksAssumption`, `ChainsEnd`, `LaunchAssumption`):

- `LaunchTypeCorrect`, `ScanComplete`, `NoneBefore`, `ProcessGetsSame`, `NothingUnderfoot`, `AllGivenBack`, `StartsEach`:
  `LaunchSpec => []` of `LaunchTypeOK`, `ScanFindsAll`, `NeverBefore`, `SameAsScanned`, `DependenciesHeld`, `NothingLeft`,
  `StartsWhatMounts`

The reference `Listing` of a disk is recursive along the links, so its existence is itself a lemma: `ChainsEnd` is used as
well-foundedness, by partial solutions that agree (`AttemptsAgree`, `AttemptExists`, `ListExists`,
`LogicalSatisfies`). The heart of the invariant `MbrIInv` is `FramesOK`: each frame of the recursion of
`parse_logic_partition` stands at a place of the `Listing`, and what the frames above it have still to give is the
slice that follows. Then `Placed` relates the counter `got` to that place: as long as every table could be read they are equal,
and when some failed to be read the counter is behind, never ahead, which is what `NeverBefore` says. A call in which a read brought
other bytes keeps its types and nothing else; the next one counts from the start again. `Answered` carries this to
the answers of earlier calls, which `SameAsScanned` compares. `LaunchIInv` adds that what is held depends on the
rung alone (`Held`), what may be lost on who climbs (`Lost`), and which partitions the service has done with (`Started`).

`FileReadProof` has the lemmas about `vfs_devread` and the loop of `ext4fs_read_file`, `InodeReadProof` those about inodes and the
theorems, for every sector and block size, every partition, file, position and length, and every width of int
(`DevAssumption`, `FileAssumption`, `MapsAssumption`, `InodeAssumption`, `TablesAssumption`):

- `InsidePartition`: `InodeSpec => [](InodeTypeOK /\ InPartition)`
- `ReadsTheFile`, `DelaysTheFile`, `StaysInRequest`, `ReadsTheInode`: `InodeSpec => []` of `ReadIsFileContent`, `RunIsFile`,
  `OverrunOnlyByHole`, `InodeIsItsSlot`
- `KeepsPromise`: `InodeSpec => Promise!Init /\ [][Promise!Next]_(Promise!vars)`, the refinement of `FileSpec` but for its fairness

The argument has three layers, each of which speaks of the one below only through one predicate.

- A device call. `Serves(sector, offset, len, at)` says that the call still has to read what `Cursor` to the end of the
  range names, that the range was checked, and that what lies behind the cursor is in the buffer (`Copied`). `DevStepServes` shows that
  every part keeps it, and `CheckServes` that the one check of line 41 is enough for all of them, though its sums wrap: a sum of
  two ints that is folded once is negative or too large (`WrapOnce`), so it cannot pass for a small sector.
- The loop. `AtBlock` says where block `i` goes in the buffer. `RunOK` says that the delayed run is the stretch of the file from
  some earlier block up to `i`, which lies in one piece on the device (`RunFrom`), so that its length and its place in the buffer follow from
  where it began. `BufOK` says that everything before the run has been delivered. `LoopOK` is their conjunction, `NextKeeps` its
  induction step. The hard step is `Extend`: `delayed_next` equals the sector of the next block only if that block is the next
  one of the partition (`Adjacent`). An aligned block begins at a sector of its own and the run before it ends at one
  (`WholeSector`), and the folded sector numbers of two blocks are equal only if the blocks are, as a partition has at most 2^32
  sectors.
- The inode. `GroupOK` and `SlotOK` name the range each of the two reads serves. For `InodeIsItsSlot` the block, from the
  index in the group, and the offset, from the whole number, have to be those of one place (`BlockStart`, `SlotIs`), which needs that a
  group holds whole blocks of inodes.

An inode number that is no int gives a negative offset, and line 41 tests the sector before it adds the offset. No read begins before the
partition for all that: where the sector is the partition's first, the sum of line 41 is negative, and compared with a
number of 64 bits it is larger than any partition; any other block begins a whole block further on (`BlockSector`), and
the offset is less than a block (`RestOf`). So `InPartition` needs no exception.
`DevAssumption` (a request fits an int), `MapsAssumption` and `TablesAssumption` were found in the proofs: without them the properties
are false for some values of the constants.

`ReadPromise` itself, which includes that each request is answered, stays with TLC.

`DokanOpsProof` proves of the callbacks and the lookups they make, for every tree of files and links, every number of nodes,
open files and file objects, and every limit on links (`TreeAssumption`, `MemoryAssumption`, `SlotsAssumption`):

- `Invariance`, `DokanTypeCorrect`: `DokanSpec => [](Intact => IInv)`, `DokanSpec => [](Intact => DokanTypeOK)`
- `NoDoubleFree`, `ContextsFit`: `DokanSpec => []` of `Ownership`, `ContextsHoldFiles`
- `LosesOnFailure`: `DokanSpec => LeaksOnlyOnFailure`
- `FindsIt`, `AnswersTheNamed`, `ListsInOrder`: `DokanSpec => []` of `FindsWhatIsNamed`, `AnswersFromNamed`, `ListingPrefix`

Nothing is assumed about what a failed read leaves of a link, about links to `/` or about deleted entries: what the code does with
them are steps of the model, and each property names what it does not promise then. The inductive invariant is
`Intact => IInv`: a step that leaves nothing of a link is the end of it, and `"empty"` in `fault` remembers that it happened, across lookups.
What else goes wrong concerns one lookup only and is forgotten with the next `Ask`; a file opened by a lookup that went `Astray` is
named `Anything` as long as it is open.

The argument. `Ownership` speaks of all frames at once, and a step changes one or two. So the invariant says first
what the recursion looks like (`Shape`): only the innermost frame runs, every other waits in `"call"`, and a call starts from
the `oldnode` of the frame below; `FrameOK` says which of a frame's nodes there are at each place. A frame owns its two nodes
but the one it started from (`Owns`). `ApartIn` says that no two frames own the same node and that none owns what it or a frame
below started from: this is why sparing `currroot` in `ext4fs_free_node` is enough, however deep the links. `UsedIn`, `Opened` and `RetApart` say the
same of the open files and of the result on its way. Three lemmas about the stack carry all steps: the innermost frame is
exchanged for one that owns no more, but for nodes nobody had (`Replaced`); a frame that owns nothing is added (`Pushed`); the innermost frame
is gone (`Popped`). `ReturnKeeps` and `MoveKeeps` turn them into what an action does, and each action is one lemma on top.
`Counted` relates the depth to `symlinknest`. For the callbacks, `Calling` says which lookup each makes and `Held` that contexts and open
files correspond, also while a lookup runs, which `ContextsHoldFiles` leaves open.

For the leaks `OwnedIs` turns the ownership of the property into `Has`, a fact about one node, and `LeakedIs` says that a step which only
moves the nodes of a set between owners, or gives them back, leaves nothing behind but the ones it loses. `ReturnLeaks`,
`MoveLeaksNone` and `IdleLoses` are its forms for the actions.

`FindsIt` says two things of a lookup: what it finds is what the path names unless the lookup is `Astray`, and when it finds nothing there is
nothing, unless something went wrong (`fault`). A link to `/` counts for the second only: `find_file1` on such a link's
target is over at once and leaves the type as it was (section 3, at the finding `torn_link`), so a path that goes on behind it
fails although it names something. The run asks for such a path.

`FindsIt` and `AnswersTheNamed` compare a stack of frames, each with a rest of its own path, with the reference `Resolve`, which has one path. What is still to go
is therefore the innermost frame's rest followed by the tails of the rests below it (`Tails`), and `OnPath` says that
`Resolve` leads from where the innermost frame is, along all that, where it leads from the root along the whole path,
with the links that may still be followed (`Left`). `Sound` says where a frame is at each place of its code. A step of the lookup is then at most one unfolding of
`Resolve`: `GetsStuck`, `GoesNowhere` and `GoesOn`, which rest on one lemma about sequences (`PathOn`). Such an unfolding needs a function that satisfies the
recursive equation. `ResolveExists` gives it: a place leads to where the places that follow one another end (`Way`), and a place and
the next one lead to the same (`LeadsOn`), also where the places never end (none does, but that takes induction over the path).
`Answering` carries the result of a lookup over to the contexts: the file of a context is the one its path named, also while another
lookup runs.

`ListsInOrder` needs no assumption about the names: `ListingPrefix` counts entries (`Rank`) instead of comparing names, since a name that was
deleted and used again stands in a directory twice. The
invariant `Listing` relates the names given so far to a place in the directory, the next entry or the one the listing
was cut short at; `ListedNamed` and `ListedNameless` carry it past one entry, by the cardinality of the entries with a name up to it.

`ExtentMapProof` proves, for every set of blocks, every disk and all trees of extents (`TreeAssumption`) whose
inode's own extents are in order, do not overlap and never start at block 0 (`ExtentsAssumption`, which the format guarantees):

- `ExtentTypeCorrect`, `ExtentsMapped`, `LeavesAnswer`: `Spec => []` of `TypeOK`, `ExtentMapped`, `LeafAnswers`

Without the order both are false: the search takes the last extent that starts at or before the block, and another one could cover
it. `LeafEntryIs` says where the search ends, which starts from the least hit of a scan (`LeastIs`), and `LeafCovers` that no
extent but the one it ends at can cover the block. The invariant `AtTop` says that a call is at the inode's node or at the
zeros that were read in place of a node below it, so what is answered comes from the inode itself. A theorem about an index that works would be a
different one: with `fs->blksz` set, `ExtentMapped` would be false, as the entry that starts at the block is passed over (the finding `extent_index`) and a
covered block taken for a hole. The reference `Level` is recursive; `LevelExists` gives its values as the ends of chains of nodes.

TLC has checked each of these inductive invariants on the instance of its run, but for `Placed` of `MbrProof`, which quantifies over
places TLC cannot enumerate.

Every invariant and action property of the passing runs is the subject of a theorem. Only model-checked, being out of the prover's reach altogether: the liveness properties `CallbackEnds`,
`LaunchEnds`, `StopEnds`, `RemoveEnds` and the fairness in `ReadPromise`.

## 5. What is not modelled, and the plan

Not modelled, because it keeps no state: string conversion (two Windows calls), the declarations of external libraries,
`print_usage` and option parsing, `ext4fs_label`, `ext4fs_fsstat`, `__GetDiskFreeSpace`, `__GetVolumeInformation` and `__Unmount`,
which copy fields or do nothing, and `vmdk_get_info`, which prints and notes a capacity nobody asks for.

Not modelled, because nothing calls it: `disk_write`, `part_write`, `phy_disk_write`, `vmdk_disk_write`, the capacities.

Not modelled, because it has no defined outcome or needs a damaged disk: negative positions from the narrowing of 64 bits to
an int (fs.h:71), entries of length 0 in a directory, chains of boot records without an end, and what the program does once it uses a
node it has given back. The lock of a disk is left out because the one thread of a process takes it; the rights
of handles are covered by `Refused` and not modelled further.

What is left: a composition of `FileRead` with the two block maps in place of the constant it reads through, and one of `Launch` with
the service's threads.
