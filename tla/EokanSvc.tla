------------------------------ MODULE EokanSvc ------------------------------
(***************************************************************************)
(* The service of eokan_svc.c (324-493): the main thread eokan_svc_main,   *)
(* which starts a process for every partition it can mount, waits to be    *)
(* told to stop and unmounts the drives; the control handler, which runs   *)
(* in the dispatcher's thread; and the processes it started (main,         *)
(* 585-615), each of which looks for a drive letter and mounts on it.      *)
(*                                                                         *)
(* Both threads report through one structure, gSvcStatus, without a lock:  *)
(* report_svc_status is split at its writes of that structure.  The        *)
(* service control manager is external: it delivers a stop once, to a      *)
(* service that last reported RUNNING and that it accepts STOP.  So is     *)
(* Dokan: a mount fails on a letter that is in use or is no letter, or for *)
(* a reason of its own.  Letters are numbered from 'A' as bits are.        *)
(***************************************************************************)
EXTENDS Integers, FiniteSets

CONSTANTS
  PartCount,      (* the partitions of the physical disks, in the order the  *)
                  (* mount loop meets them                                   *)
  First,          (* 'C' - 'A'                                               *)
  LetterCount,    (* 26                                                      *)
  Bits,           (* the 32 of find_valid_drive and umount_phydisk_parts     *)
  SystemDrives    (* the sets of letters that may be in use before           *)

Part == 1..PartCount
Letter == 0..(LetterCount - 1)
NoDrive == -1       (* find_valid_drive returns 0                            *)

ASSUME DriveAssumption ==
  /\ PartCount \in Nat /\ First \in Nat /\ LetterCount \in Nat /\ Bits \in Nat
  /\ LetterCount <= Bits /\ SystemDrives \subseteq SUBSET Letter

Thread == {"main", "handler"}
State == {"START_PENDING", "RUNNING", "STOP_PENDING", "STOPPED"}

VARIABLES
  pc,           (* where each thread is                                      *)
  rep,          (* its report_svc_status in progress: step, state, then      *)
  status,       (* gSvcStatus: dwCurrentState, dwControlsAccepted            *)
  scm,          (* what the last SetServiceStatus carried                    *)
  reported,     (* every state reported so far                               *)
  event,        (* ghSvcStopEvent: none, clear, set                          *)
  turn,         (* the partition the mount loop is at                        *)
  system,       (* the letters others use                                    *)
  child,        (* the processes: st and letter                              *)
  dflag,        (* the letters umount_phydisk_parts has still to visit       *)
  seen,         (* the processes that were mounted when it looked            *)
  kept          (* those whose mount point Dokan did not remove              *)

svars == <<pc, rep, status, scm, reported, event>>
dvars == <<turn, system, child, dflag, seen, kept>>
vars == <<svars, dvars>>

NoReport == [step |-> "none", state |-> "STOPPED", then |-> "start"]
MainPc == {"start", "event", "load", "mount", "wait", "look", "umount", "returned"}
HandlerPc == {"idle", "signal", "again", "done"}

TypeOK ==
  /\ pc \in [Thread -> MainPc \cup HandlerPc]
  /\ rep \in [Thread -> [step : {"none", "state", "accept", "set"},
                         state : State, then : MainPc \cup HandlerPc]]
  /\ status \in [state : State, accept : BOOLEAN]
  /\ scm \in [state : State, accept : BOOLEAN]
  /\ reported \subseteq State
  /\ event \in {"none", "clear", "set"}
  /\ turn \in 1..(PartCount + 1) /\ system \in SystemDrives
  /\ child \in [Part -> [st : {"none", "started", "picked", "mounted", "gone"},
                         letter : 0..(Bits - 1) \cup {NoDrive}]]
  /\ dflag \subseteq Letter /\ seen \subseteq Part /\ kept \subseteq Part

Init ==
  /\ pc = [main |-> "start", handler |-> "idle"]
  /\ rep = [t \in Thread |-> NoReport]
  /\ status = [state |-> "STOPPED", accept |-> FALSE]
  /\ scm = [state |-> "START_PENDING", accept |-> FALSE]
  /\ reported = {} /\ event = "none"
  /\ turn = 1 /\ system \in SystemDrives
  /\ child = [p \in Part |-> [st |-> "none", letter |-> NoDrive]]
  /\ dflag = {} /\ seen = {} /\ kept = {}

-----------------------------------------------------------------------------
(* report_svc_status (324-349), called by a thread that goes on to then.   *)

Report(t, state, then) ==
  rep' = [rep EXCEPT ![t] = [step |-> "state", state |-> state, then |-> then]]

At(t, place) == pc[t] = place /\ rep[t].step = "none"

WriteState(t) ==
  /\ rep[t].step = "state"
  /\ status' = [status EXCEPT !.state = rep[t].state]
  /\ rep' = [rep EXCEPT ![t].step = "accept"]
  /\ UNCHANGED <<pc, scm, reported, event>>

WriteAccept(t) ==
  /\ rep[t].step = "accept"
  /\ status' = [status EXCEPT !.accept = rep[t].state # "START_PENDING"]
  /\ rep' = [rep EXCEPT ![t].step = "set"]
  /\ UNCHANGED <<pc, scm, reported, event>>

SetServiceStatus(t) ==
  /\ rep[t].step = "set"
  /\ scm' = status
  /\ reported' = reported \cup {status.state}
  /\ rep' = [rep EXCEPT ![t] = NoReport]
  /\ pc' = [pc EXCEPT ![t] = rep[t].then]
  /\ UNCHANGED <<status, event>>

Reporting(t) ==
  /\ WriteState(t) \/ WriteAccept(t) \/ SetServiceStatus(t)
  /\ UNCHANGED dvars

GoTo(t, place) == pc' = [pc EXCEPT ![t] = place] /\ UNCHANGED rep

-----------------------------------------------------------------------------
(* eokan_svc_main.                                                         *)

RegisterReportsRunning ==
  /\ At("main", "start")
  /\ Report("main", "RUNNING", "event") /\ UNCHANGED pc
  /\ UNCHANGED <<status, scm, reported, event, dvars>>

Register ==
  /\ At("main", "start")
  /\ \/ Report("main", "START_PENDING", "event") /\ UNCHANGED pc
     \/ GoTo("main", "returned")      \* no handle, and no report
  /\ UNCHANGED <<status, scm, reported, event, dvars>>

CreateStopEvent ==
  /\ At("main", "event")
  /\ \/ event' = "clear" /\ GoTo("main", "load")
     \/ Report("main", "STOPPED", "returned") /\ UNCHANGED <<pc, event>>
  /\ UNCHANGED <<status, scm, reported, dvars>>

(* mount_phydisk_parts does nothing without dokan.dll.                     *)
LoadToMount ==
  /\ At("main", "load")
  /\ \/ GoTo("main", "mount")
     \/ Report("main", "RUNNING", "wait") /\ UNCHANGED pc
  /\ UNCHANGED <<status, scm, reported, event, dvars>>

MountPartToCount ==
  /\ At("main", "mount") /\ turn <= PartCount + 1
  /\ turn' = turn + 1
  /\ UNCHANGED <<svars, system, child, dflag, seen, kept>>

(* A partition that vfs_mount knows gets a process, if one can be created. *)
MountPart ==
  /\ At("main", "mount") /\ turn <= PartCount
  /\ turn' = turn + 1
  /\ \/ child' = [child EXCEPT ![turn].st = "started"]
     \/ UNCHANGED child
  /\ UNCHANGED <<svars, system, dflag, seen, kept>>

Mounted ==
  /\ At("main", "mount") /\ turn > PartCount
  /\ Report("main", "RUNNING", "wait")
  /\ UNCHANGED <<pc, status, scm, reported, event, dvars>>

WaitStop ==
  /\ At("main", "wait") /\ event = "set"
  /\ GoTo("main", "look")
  /\ UNCHANGED <<status, scm, reported, event, dvars>>

MountedOn == { child[p].letter : p \in { q \in Part : child[q].st = "mounted" } }
GetLogicalDrives == system \cup MountedOn

(* umount_phydisk_parts looks at the drives once.                          *)
LookAtDrivesFromNext ==
  /\ At("main", "look")
  /\ dflag' = { x \in GetLogicalDrives : x > First }
  /\ seen' = { p \in Part : child[p].st = "mounted" }
  /\ GoTo("main", "umount")
  /\ UNCHANGED <<status, scm, reported, event, turn, system, child, kept>>

LookAtDrives ==
  /\ At("main", "look")
  /\ \/ /\ dflag' = { x \in GetLogicalDrives : x >= First }
        /\ seen' = { p \in Part : child[p].st = "mounted" }
        /\ GoTo("main", "umount")
     \/ /\ Report("main", "STOPPED", "returned")      \* no dokan.dll
        /\ UNCHANGED <<pc, dflag, seen>>
  /\ UNCHANGED <<status, scm, reported, event, turn, system, child, kept>>

(* DokanRemoveMountPoint on the next letter: its process, if it has one,   *)
(* leaves DokanMain, unless Dokan fails.                                   *)
UmountNext ==
  /\ At("main", "umount") /\ dflag # {}
  /\ LET x  == CHOOSE y \in dflag : \A z \in dflag : y <= z
         on == { p \in Part : child[p].st = "mounted" /\ child[p].letter = x }
     IN  /\ dflag' = dflag \ {x}
         /\ \/ /\ child' = [p \in Part |->
                     IF p \in on THEN [child[p] EXCEPT !.st = "gone"] ELSE child[p]]
               /\ UNCHANGED kept
            \/ kept' = kept \cup on /\ UNCHANGED child
  /\ UNCHANGED <<svars, turn, system, seen>>

UmountDoneEarly ==
  /\ At("main", "umount")
  /\ Report("main", "STOPPED", "returned")
  /\ UNCHANGED <<pc, status, scm, reported, event, dvars>>

UmountDone ==
  /\ At("main", "umount") /\ dflag = {}
  /\ Report("main", "STOPPED", "returned")
  /\ UNCHANGED <<pc, status, scm, reported, event, dvars>>

MainStep ==
  \/ Register \/ CreateStopEvent \/ LoadToMount \/ MountPart \/ Mounted
  \/ WaitStop \/ LookAtDrives \/ UmountNext \/ UmountDone \/ Reporting("main")

-----------------------------------------------------------------------------
(* svcctl_handler (351-367).                                               *)

Stop ==
  /\ At("handler", "idle")
  /\ scm.state = "RUNNING" /\ scm.accept
  /\ Report("handler", "STOP_PENDING", "signal")
  /\ UNCHANGED <<pc, status, scm, reported, event, dvars>>

SignalForgotten ==
  /\ At("handler", "signal")
  /\ UNCHANGED event
  /\ GoTo("handler", "again")
  /\ UNCHANGED <<status, scm, reported, dvars>>

Signal ==
  /\ At("handler", "signal")
  /\ event' = IF event = "none" THEN event ELSE "set"
  /\ GoTo("handler", "again")
  /\ UNCHANGED <<status, scm, reported, dvars>>

AgainRunning ==
  /\ At("handler", "again")
  /\ Report("handler", "RUNNING", "done")
  /\ UNCHANGED <<pc, status, scm, reported, event, dvars>>

(* Line 360 reads gSvcStatus.dwCurrentState and reports it once more.      *)
Again ==
  /\ At("handler", "again")
  /\ Report("handler", status.state, "done")
  /\ UNCHANGED <<pc, status, scm, reported, event, dvars>>

HandlerStep == Signal \/ Again \/ Reporting("handler")

-----------------------------------------------------------------------------
(* A process started by the service.                                       *)

FindInUse(inUse) == First

(* find_valid_drive('C'): the loop of line 375 moves on by two letters.    *)
FindValidDrive(inUse) ==
  LET scan[x \in Nat] == IF x < Bits /\ x \in inUse THEN scan[x + 2] ELSE x
  IN  IF scan[First] >= Bits THEN NoDrive ELSE scan[First]

ChildGone(p) ==
  child' = [child EXCEPT ![p].st = "gone"]

ChildPick(p) ==
  /\ child[p].st = "started"
  /\ child' = [child EXCEPT ![p] =
                 [st |-> "picked", letter |-> FindValidDrive(GetLogicalDrives)]]
  /\ UNCHANGED <<svars, turn, system, dflag, seen, kept>>

ChildMount(p) ==
  /\ child[p].st = "picked"
  /\ child[p].letter \in Letter \ GetLogicalDrives
  /\ child' = [child EXCEPT ![p].st = "mounted"]
  /\ UNCHANGED <<svars, turn, system, dflag, seen, kept>>

(* The disk or the file system cannot be opened, or DokanMain fails, or    *)
(* somebody unmounts the drive (eokan -u, lines 572-577).                  *)
ChildEnds(p) ==
  /\ child[p].st \in {"started", "picked", "mounted"}
  /\ ChildGone(p)
  /\ UNCHANGED <<svars, turn, system, dflag, seen, kept>>

ChildStep(p) == ChildPick(p) \/ ChildMount(p) \/ ChildEnds(p)

Finished ==
  /\ pc["main"] = "returned" /\ pc["handler"] \in {"idle", "done"}
  /\ UNCHANGED vars

Next ==
  \/ MainStep \/ Stop \/ HandlerStep
  \/ \E p \in Part : ChildStep(p)
  \/ Finished

(* Both threads are scheduled.  Nobody has to stop the service, and        *)
(* nothing is assumed of the processes.                                    *)
Spec == Init /\ [][Next]_vars /\ WF_vars(MainStep) /\ WF_vars(HandlerStep)

-----------------------------------------------------------------------------
(***************************************************************************)
(* The handler never signals an event that does not exist: a stop comes    *)
(* only after RUNNING was reported, and that after CreateEvent.            *)
(***************************************************************************)
SignalFindsEvent == At("handler", "signal") => event # "none"

(***************************************************************************)
(* Once the service has said that it is stopping it never says again that  *)
(* it is running, though the second report of the handler repeats what it  *)
(* finds in the shared structure (line 360).                               *)
(***************************************************************************)
NeverRunningAgain ==
  [][("STOP_PENDING" \in reported /\ scm' # scm) => scm'.state # "RUNNING"]_vars

(***************************************************************************)
(* When the main function returns, every process that was mounted when it  *)
(* looked at the drives is gone, or Dokan refused.  (A process that mounts *)
(* later is left behind: line 448 looks once.)                             *)
(***************************************************************************)
SeenAreUnmounted ==
  (pc["main"] = "returned") => \A p \in seen : child[p].st = "gone" \/ p \in kept

(***************************************************************************)
(* A process picks a letter that nobody uses, and runs past the last       *)
(* letter only when every second one from C on is in use.                  *)
(***************************************************************************)
PicksUnused ==
  [][\A p \in Part :
       (child[p].st = "started" /\ child'[p].st = "picked") =>
         LET x == child'[p].letter
         IN  /\ x \notin GetLogicalDrives
             /\ x \notin Letter =>
                  \A k \in 0..LetterCount :
                    First + 2 * k \in Letter => First + 2 * k \in GetLogicalDrives]_vars

(* A stop that was delivered leads to the return of the main function.     *)
StopEnds == (rep["handler"].step # "none") ~> (pc["main"] = "returned")

(***************************************************************************)
(* "Report the status of the service to the SCM." (eokan_svc.c:347): when  *)
(* the main function of a registered service has returned, the service has *)
(* reported that it is stopped.                                            *)
(***************************************************************************)
StoppedReported ==
  (pc["main"] = "returned" /\ reported # {}) => "STOPPED" \in reported
=============================================================================
