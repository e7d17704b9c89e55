------------------------------ MODULE ScmControl ------------------------------
(***************************************************************************)
(* eokan_svc -i and eokan_svc -r (eokan_svc.c:36-317): a process that      *)
(* installs the service, and one that stops and removes it while the       *)
(* service of EokanSvc runs.  The remover polls the state the service last *)
(* reported and gives up after 30 seconds, so its view may be late.        *)
(*                                                                         *)
(* The service control manager, the heap and the services that depend on   *)
(* this one are external.  Each of their calls may be refused: a refusal   *)
(* that nothing compels is in Refused and assumed by no fairness.          *)
(* (Windows refuses the calls of do_stop_eokansvc on the handle of line    *)
(* 298, which asks for DELETE only; the model covers that and the handle   *)
(* the code after it is written for.)                                      *)
(***************************************************************************)
EXTENDS EokanSvc

CONSTANT Dependents     (* the services that depend on this one              *)

VARIABLES
  started,    (* the manager has started the service                         *)
  ctl,        (* where the installing or removing process is                 *)
  ssp,        (* its ssp.dwCurrentState                                      *)
  late,       (* which of its 30 second time-outs are over                   *)
  todo,       (* the dependents its list has left                            *)
  stopping,   (* the one it waits for, with its ssp.dwCurrentState: a set    *)
  active,     (* the dependents that run                                     *)
  held        (* its handles: manager, service, the dependents it has        *)
              (* opened; and "list", the list it has made of them            *)

cvars == <<started, ctl, ssp, late, todo, stopping, active, held>>
allvars == <<vars, cvars>>

Timer == {"stop", "depends"}
Own == {"manager", "service"}
Handle == Own \cup {"list"} \cup Dependents
InDepends == {"depends", "each", "polled"}
Removing == {"query", "pending", "control", "answer", "wait", "delete"} \cup InDepends
CtlPc == {"idle", "create", "start", "installed", "open", "done"} \cup Removing

ASSUME DependentsAssumption == Dependents \cap {"manager", "service", "list"} = {}

CtlTypeOK ==
  /\ TypeOK
  /\ started \in BOOLEAN
  /\ ctl \in CtlPc /\ ssp \in State /\ late \in SUBSET Timer
  /\ todo \subseteq Dependents /\ active \in SUBSET Dependents
  /\ stopping \subseteq Dependents
  /\ held \subseteq Handle

CtlInit ==
  /\ Init
  /\ started = FALSE
  /\ ctl = "idle" /\ ssp = "STOPPED" /\ late = {}
  /\ todo = {} /\ stopping = {} /\ active \in SUBSET Dependents
  /\ held = {}

(* The process returns, and what it knew is gone.                          *)
Finish == ctl' = "done" /\ ssp' = "STOPPED" /\ late' = {}

CloseServiceHandle(handle) == held' = held \ handle

-----------------------------------------------------------------------------
(* eokan_svc_install.                                                      *)

Install ==
  /\ ctl = "idle"
  /\ \/ /\ ctl' = "create" /\ held' = held \cup {"manager"}
        /\ UNCHANGED <<ssp, late>>
     \/ Finish /\ UNCHANGED held     \* no module name, or no manager
  /\ UNCHANGED <<vars, started, todo, stopping, active>>

CreateService ==
  /\ ctl = "create"
  /\ \/ /\ ctl' = "start" /\ held' = held \cup {"service"}
        /\ UNCHANGED <<ssp, late>>
     \/ Finish /\ CloseServiceHandle({"manager"})
  /\ UNCHANGED <<vars, started, todo, stopping, active>>

(* A start that fails is reported on stderr only.                          *)
StartService ==
  /\ ctl = "start"
  /\ started' \in BOOLEAN
  /\ ctl' = "installed" /\ CloseServiceHandle({"service", "manager"})
  /\ UNCHANGED <<vars, ssp, late, todo, stopping, active>>

-----------------------------------------------------------------------------
(* eokan_svc_remove, and do_stop_eokansvc to its stop_cleanup.             *)

Remove ==
  /\ ctl = "installed"
  /\ \/ /\ ctl' = "open" /\ held' = held \cup {"manager"}
        /\ UNCHANGED <<ssp, late>>
     \/ Finish /\ UNCHANGED held
  /\ UNCHANGED <<vars, started, todo, stopping, active>>

OpenServiceLosing ==
  /\ ctl = "open"
  /\ \/ /\ ctl' = "query" /\ held' = held \cup {"service"}
        /\ UNCHANGED <<ssp, late>>
     \/ Finish /\ UNCHANGED held
  /\ UNCHANGED <<vars, started, todo, stopping, active>>

OpenService ==
  /\ ctl = "open"
  /\ \/ /\ ctl' = "query" /\ held' = held \cup {"service"}
        /\ UNCHANGED <<ssp, late>>
     \/ Finish /\ CloseServiceHandle({"manager"})
  /\ UNCHANGED <<vars, started, todo, stopping, active>>

Reported == IF started THEN scm.state ELSE "STOPPED"

Query ==
  /\ ctl = "query"
  /\ ssp' = Reported
  /\ ctl' = CASE Reported = "STOPPED" -> "delete"
              [] Reported = "STOP_PENDING" -> "pending"
              [] OTHER -> "depends"
  /\ UNCHANGED <<vars, started, late, todo, stopping, active, held>>

(* One turn of the loop of lines 196-231.                                  *)
Pending ==
  /\ ctl = "pending"
  /\ ssp' = Reported
  /\ ctl' = CASE Reported = "STOPPED" \/ "stop" \in late -> "delete"
              [] Reported = "STOP_PENDING" -> "pending"
              [] OTHER -> "depends"
  /\ UNCHANGED <<vars, started, late, todo, stopping, active, held>>

(* Lines 248-276 send the stop and wait; the handler runs before           *)
(* ControlService returns, with the state the service last reported.       *)
Control ==
  /\ ctl = "control"
  /\ \/ Stop /\ started /\ ctl' = "answer"
     \/ ctl' = "delete" /\ UNCHANGED vars
        /\ ~(started /\ At("handler", "idle") /\ scm.state = "RUNNING" /\ scm.accept)
  /\ UNCHANGED <<started, ssp, late, todo, stopping, active, held>>

Answer ==
  /\ ctl = "answer" /\ At("handler", "done")
  /\ ssp' = Reported
  /\ ctl' = "wait"
  /\ UNCHANGED <<vars, started, late, todo, stopping, active, held>>

WaitForever ==
  /\ ctl = "wait"
  /\ IF ssp = "STOPPED" THEN UNCHANGED ssp ELSE ssp' = Reported
  /\ ctl' = IF ssp' = "STOPPED" THEN "delete" ELSE "wait"
  /\ UNCHANGED <<vars, started, late, todo, stopping, active, held>>

WaitStopped ==
  /\ ctl = "wait"
  /\ IF ssp = "STOPPED" THEN UNCHANGED ssp ELSE ssp' = Reported
  /\ ctl' = IF ssp' = "STOPPED" \/ "stop" \in late THEN "delete" ELSE "wait"
  /\ UNCHANGED <<vars, started, late, todo, stopping, active, held>>

(* Whatever do_stop_eokansvc came to, the service is deleted; what         *)
(* DeleteService answers is printed.                                       *)
Delete ==
  /\ ctl = "delete"
  /\ Finish /\ CloseServiceHandle({"service", "manager"})
  /\ UNCHANGED <<vars, started, todo, stopping, active>>

-----------------------------------------------------------------------------
(* stop_depends (92-167).  Its result is not looked at (line 240): every   *)
(* way out goes on to ControlService.  The list is freed at the end of it  *)
(* only, and no dependent's handle is ever closed.                         *)

LeaveDepends ==
  /\ ctl' = "control"
  /\ todo' = {} /\ stopping' = {} /\ late' = late \ {"depends"}

Depends ==
  /\ ctl = "depends"
  /\ IF active = {}
     THEN LeaveDepends /\ UNCHANGED held
     ELSE /\ ctl' = "each" /\ todo' = active /\ held' = held \cup {"list"}
          /\ UNCHANGED <<late, stopping>>
  /\ UNCHANGED <<vars, started, ssp, active>>

(* The next of the list, which may have stopped since it was made: then    *)
(* ControlService fails and the rest of the list is left alone.            *)
NextDependent ==
  /\ ctl = "each"
  /\ \/ todo = {} /\ LeaveDepends /\ held' = held \ {"list"}
     \/ \E d \in todo :
          /\ held' = held \cup {d}
          /\ IF d \in active
             THEN /\ ctl' = "polled" /\ stopping' = {d}
                  /\ todo' = todo \ {d} /\ UNCHANGED late
             ELSE LeaveDepends
  /\ UNCHANGED <<vars, started, ssp, active>>

PollForever ==
  /\ ctl = "polled"
  /\ stopping \cap active = {}
  /\ ctl' = "each" /\ stopping' = {}
  /\ UNCHANGED <<vars, started, ssp, late, todo, active, held>>

PollDependent ==
  /\ ctl = "polled"
  /\ \/ /\ stopping \cap active = {}
        /\ ctl' = "each" /\ stopping' = {}
        /\ UNCHANGED <<todo, late>>
     \/ stopping \cap active # {} /\ "depends" \in late /\ LeaveDepends
  /\ UNCHANGED <<vars, started, ssp, active, held>>

-----------------------------------------------------------------------------
(* Time, the dependents and refusals.                                      *)

(* 30 seconds are over, noticed in a loop: those of do_stop_eokansvc first.*)
Tick ==
  /\ late' = IF ctl \in InDepends /\ "stop" \in late THEN Timer ELSE {"stop"}
  /\ ctl \in {"pending", "polled", "wait"}
  /\ UNCHANGED <<vars, started, ctl, ssp, todo, stopping, active, held>>

(* A dependent stops, told so or not (the model looks while it matters).   *)
DependentEnds ==
  /\ ctl \in InDepends
  /\ \E d \in active : active' = active \ {d}
  /\ UNCHANGED <<vars, started, ctl, ssp, late, todo, stopping, held>>

(* A call fails though it could succeed: in stop_depends the listing, with *)
(* or without its memory, the opening or the control of the next dependent,*)
(* or a query of the one waited for.                                       *)
Refused ==
  /\ \/ /\ ctl \in {"query", "pending", "control", "answer", "wait"}
        /\ ctl' = "delete"
        /\ UNCHANGED <<late, todo, stopping, held>>
     \/ /\ ctl \in InDepends
        /\ LeaveDepends
        /\ \/ UNCHANGED held
           \/ ctl = "depends" /\ held' = held \cup {"list"}
           \/ \E d \in todo : ctl = "each" /\ held' = held \cup {d}
  /\ UNCHANGED <<vars, started, ssp, active>>

CtlStep ==
  \/ CreateService \/ StartService \/ OpenService \/ Query \/ Pending \/ Control \/ Answer
  \/ WaitStopped \/ Delete \/ Depends \/ NextDependent \/ PollDependent

ServiceStep ==
  /\ started
  /\ MainStep \/ Stop \/ HandlerStep \/ \E p \in Part : ChildStep(p)
  /\ UNCHANGED cvars

CtlFinished ==
  /\ ctl = "done" /\ (started => pc["main"] = "returned")
  /\ UNCHANGED allvars

CtlNext ==
  \/ ServiceStep
  \/ Install \/ Remove \/ CtlStep
  \/ Tick \/ DependentEnds \/ Refused
  \/ CtlFinished

(* The threads of the service and the control process are scheduled and    *)
(* time goes on.  Nobody has to remove the service, and a dependent may    *)
(* never stop.                                                             *)
CtlFairness ==
  /\ WF_allvars(started /\ MainStep /\ UNCHANGED cvars)
  /\ WF_allvars(started /\ HandlerStep /\ UNCHANGED cvars)
  /\ WF_allvars(CtlStep)
  /\ WF_allvars(Tick)

CtlSpec == CtlInit /\ [][CtlNext]_allvars /\ CtlFairness

-----------------------------------------------------------------------------
(***************************************************************************)
(* A removal that has begun ends, though the service or a dependent may    *)
(* never be seen to stop: the second report of svcctl_handler can follow   *)
(* the STOPPED of the main thread (line 360) and a dependent need not obey.*)
(***************************************************************************)
RemoveEnds == (ctl \in Removing) ~> (ctl = "done")

(***************************************************************************)
(* When the remover sees STOPPED ("Service stopped successfully"), the     *)
(* main thread has been through the drives: what was mounted when it       *)
(* looked is unmounted or Dokan refused, and it will unmount no more.      *)
(***************************************************************************)
StoppedMeansDone ==
  [][(ctl' \in Removing /\ ssp' = "STOPPED" /\ ssp # "STOPPED") =>
       /\ started /\ dflag = {}
       /\ pc["main"] = "returned" \/ rep["main"].then = "returned"
       /\ \A p \in seen : child[p].st = "gone" \/ p \in kept]_allvars

(***************************************************************************)
(* Whichever call failed, installer and remover give back the manager and  *)
(* the service, and not before the last call that needs them; list and     *)
(* handle of a dependent are there while it is stopped.  What a removal    *)
(* leaves open are the dependents it came to, and their list only if it    *)
(* gave it up before the end.                                              *)
(***************************************************************************)
HandlesClosed ==
  /\ ctl \in {"idle", "installed", "done"} => held \cap Own = {}
  /\ ctl \in {"create", "open"} => held \cap Own = {"manager"}
  /\ ctl \in {"start"} \cup Removing => Own \subseteq held
  /\ todo \cap held = {} /\ stopping \subseteq held
  /\ ctl \in {"each", "polled"} => "list" \in held
=============================================================================
