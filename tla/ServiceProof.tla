----------------------------- MODULE ServiceProof -----------------------------
(***************************************************************************)
(* Theorems about EokanSvc, for every number of partitions and of letters, *)
(* and whatever letters others use; and about ScmControl, which puts the   *)
(* installer and the remover next to the service, for every set of         *)
(* dependent services.                                                     *)
(***************************************************************************)
EXTENDS ScmControl, WellFoundedInduction, TLAPS

(***************************************************************************)
(* The inductive invariant.  A thread reports one state from each place,   *)
(* so what rep and pc may be together is known.                            *)
(***************************************************************************)
MainReports ==
  LET r == rep["main"]
  IN  /\ pc["main"] \in MainPc
      /\ r.step = "none" => r = NoReport
      /\ r.step # "none" =>
           \/ pc["main"] = "start" /\ r.state = "START_PENDING" /\ r.then = "event"
           \/ pc["main"] \in {"load", "mount"} /\ r.state = "RUNNING" /\ r.then = "wait"
           \/ pc["main"] \in {"event", "look", "umount"}
                /\ r.state = "STOPPED" /\ r.then = "returned"

HandlerReports ==
  LET r == rep["handler"]
  IN  /\ pc["handler"] \in HandlerPc
      /\ r.step = "none" => r = NoReport
      /\ r.step # "none" =>
           \/ pc["handler"] = "idle" /\ r.state = "STOP_PENDING" /\ r.then = "signal"
           \/ pc["handler"] = "again" /\ r.state \in {"STOP_PENDING", "STOPPED"}
                /\ r.then = "done"

(* The main thread has reported RUNNING, or has returned; it is leaving.   *)
Up == pc["main"] \in {"wait", "look", "umount", "returned"}
Leaving == pc["main"] = "returned" \/ rep["main"].then = "returned"

(* The handler runs; it has written its STOP_PENDING.                      *)
Called == pc["handler"] # "idle" \/ rep["handler"].step # "none"
Told == pc["handler"] # "idle" \/ rep["handler"].step \in {"accept", "set"}

Unwritten == pc["main"] = "start" /\ rep["main"].step \in {"none", "state"}

(* A stop can only come after the event was made and RUNNING reported.     *)
EventFirst ==
  /\ pc["main"] \in {"start", "event"} => event = "none"
  /\ pc["main"] \in {"load", "mount", "wait", "look", "umount"} => event # "none"
  /\ scm.state = "RUNNING" \/ Called => Up /\ event # "none"
  /\ status.state = "RUNNING" =>
       event # "none" /\ (Up \/ rep["main"].step \in {"accept", "set"})

(* What the shared structure may say, and what may have been sent from it. *)
StatusFollows ==
  /\ Told => status.state \in {"STOP_PENDING", "STOPPED"}
  /\ ~Told => "STOP_PENDING" \notin reported /\ status.state # "STOP_PENDING"
  /\ status.state = "STOPPED" => Leaving \/ Unwritten
  /\ rep["handler"].step # "none" /\ rep["handler"].state = "STOPPED" => Leaving
  /\ scm.state = "STOPPED" => Leaving

(* The letters of the processes, and the drives still to be visited.       *)
LettersGiven ==
  \A p \in Part :
    /\ child[p].st = "picked" => child[p].letter = NoDrive \/ child[p].letter >= First
    /\ child[p].st = "mounted" => child[p].letter \in Letter /\ child[p].letter >= First

SeenAreVisited ==
  /\ pc["main"] \notin {"umount", "returned"} => seen = {} /\ dflag = {}
  /\ pc["main"] = "returned" \/ rep["main"].step # "none" => dflag = {}
  /\ \A p \in seen :
       \/ child[p].st = "gone" \/ p \in kept
       \/ child[p].st = "mounted" /\ child[p].letter \in dflag

IInv ==
  /\ TypeOK
  /\ MainReports /\ HandlerReports
  /\ EventFirst /\ StatusFollows
  /\ LettersGiven /\ SeenAreVisited

-----------------------------------------------------------------------------


(* Every set of numbers has a least one.                                   *)
LEMMA Least ==
  ASSUME NEW S \in SUBSET Nat, S # {}
  PROVE  \E x \in S : \A y \in S : x <= y
<1> DEFINE less == { ss \in Nat \X Nat : ss[1] < ss[2] }
<1>1. IsWellFoundedOn(less, Nat)
  BY NatLessThanWellFounded DEF OpToRel
<1>2. PICK x \in S : \A y \in S : ~(<<y, x>> \in less)
  <2> HIDE DEF less
  <2> QED BY <1>1, WFMin
<1>3. ASSUME NEW y \in S PROVE x <= y
  <2>1. ~(<<y, x>>[1] < <<y, x>>[2])
    BY <1>2
  <2> QED BY <2>1
<1> QED BY <1>2, <1>3

(* The loop of find_valid_drive as FindValidDrive has it, and the places   *)
(* it may stop at from x on.                                               *)
IsScan(f, inUse) ==
  f = [x \in Nat |-> IF x < Bits /\ x \in inUse THEN f[x + 2] ELSE x]

Stops(x, inUse) ==
  { y \in Nat : (\E k \in Nat : y = x + 2 * k) /\ ~(y < Bits /\ y \in inUse) }

LEMMA ScanExists ==
  ASSUME NEW inUse
  PROVE  \E f : IsScan(f, inUse)
<1> DEFINE Min(S) == CHOOSE y \in S : \A z \in S : y <= z
           f == [x \in Nat |-> Min(Stops(x, inUse))]
<1>1. ASSUME NEW x \in Nat
      PROVE  Stops(x, inUse) \in SUBSET Nat /\ x + 2 * Bits \in Stops(x, inUse)
  BY DriveAssumption DEF Stops
<1>2. ASSUME NEW x \in Nat
      PROVE  /\ Min(Stops(x, inUse)) \in Stops(x, inUse)
             /\ \A z \in Stops(x, inUse) : Min(Stops(x, inUse)) <= z
  BY <1>1, Least
<1> HIDE DEF Min
<1>3. ASSUME NEW x \in Nat, x < Bits, x \in inUse PROVE f[x] = f[x + 2]
  <2>1. ASSUME NEW y PROVE y \in Stops(x, inUse) <=> y \in Stops(x + 2, inUse)
    <3>1. ASSUME NEW k \in Nat, y = x + 2 * k, y \in Nat, ~(y < Bits /\ y \in inUse)
          PROVE  k - 1 \in Nat /\ y = (x + 2) + 2 * (k - 1)
      BY <1>3, <3>1
    <3>2. ASSUME NEW k \in Nat, y = (x + 2) + 2 * k
          PROVE  k + 1 \in Nat /\ y = x + 2 * (k + 1)
      BY <3>2
    <3> QED BY <3>1, <3>2 DEF Stops
  <2>2. Stops(x, inUse) = Stops(x + 2, inUse)
    BY <2>1
  <2> QED BY <2>2
<1>4. ASSUME NEW x \in Nat, ~(x < Bits /\ x \in inUse) PROVE f[x] = x
  <2>1. x \in Stops(x, inUse)
    BY <1>4 DEF Stops
  <2>2. \A z \in Stops(x, inUse) : z \in Nat /\ x <= z
    BY DEF Stops
  <2> QED BY <2>1, <2>2, <1>2
<1>5. IsScan(f, inUse)
  BY <1>3, <1>4 DEF IsScan
<1> QED BY <1>5

(* It ends at or after its start, at a place that is free or past the last *)
(* bit, and every second place before is in use.                           *)
Lands(x, y, inUse) ==
  /\ y \in Nat /\ x <= y /\ ~(y < Bits /\ y \in inUse)
  /\ \A k \in Nat : x + 2 * k < y => x + 2 * k \in inUse

LEMMA ScanLands ==
  ASSUME NEW inUse, NEW f, IsScan(f, inUse), NEW x \in Nat
  PROVE  Lands(x, f[x], inUse)
<1> DEFINE Bad == { z \in Nat : ~Lands(z, f[z], inUse) }
           Left == { n \in Nat : \E z \in Bad : z + n = Bits }
<1>1. ASSUME NEW z \in Nat, ~(z < Bits /\ z \in inUse) PROVE Lands(z, f[z], inUse)
  <2>1. f[z] = z
    BY <1>1 DEF IsScan
  <2> QED BY <2>1, <1>1 DEF Lands
<1>2. ASSUME NEW z \in Nat, z < Bits, z \in inUse, Lands(z + 2, f[z + 2], inUse)
      PROVE  Lands(z, f[z], inUse)
  <2>1. f[z] = f[z + 2]
    BY <1>2 DEF IsScan
  <2>2. ASSUME NEW k \in Nat, z + 2 * k < f[z] PROVE z + 2 * k \in inUse
    <3>1. CASE k = 0
      BY <3>1, <1>2
    <3>2. CASE k # 0
      <4>1. k - 1 \in Nat /\ z + 2 * k = (z + 2) + 2 * (k - 1)
        BY <3>2
      <4> QED BY <4>1, <2>1, <2>2, <1>2 DEF Lands
    <3> QED BY <3>1, <3>2
  <2> QED BY <2>1, <2>2, <1>2 DEF Lands
<1>3. CASE Bad = {}
  BY <1>3
<1>4. CASE Bad # {}
  <2>1. \A z \in Bad : z \in Nat /\ z < Bits /\ z \in inUse
    BY <1>1
  <2>2. Left # {} /\ Left \in SUBSET Nat
    <3>1. PICK z \in Bad : TRUE
      BY <1>4
    <3>2. Bits - z \in Nat /\ z + (Bits - z) = Bits
      BY <3>1, <2>1, DriveAssumption
    <3> QED BY <3>1, <3>2
  <2>3. PICK n \in Left : \A m \in Left : n <= m
    BY <2>2, Least
  <2>4. PICK z \in Bad : z + n = Bits
    BY <2>3
  <2>5. z + 2 \in Bad
    BY <2>1, <2>4, <1>2
  <2>6. n - 2 \in Nat /\ (z + 2) + (n - 2) = Bits
    BY <2>1, <2>3, <2>4, <2>5, DriveAssumption
  <2>7. n - 2 \in Left
    BY <2>5, <2>6
  <2>8. n \in Nat /\ n <= n - 2
    BY <2>2, <2>3, <2>7
  <2> QED BY <2>8
<1> QED BY <1>3, <1>4

LEMMA FindValidDriveLands ==
  ASSUME NEW inUse
  PROVE  \E y : /\ Lands(First, y, inUse)
                /\ FindValidDrive(inUse) = IF y >= Bits THEN NoDrive ELSE y
<1> DEFINE f == CHOOSE scan : IsScan(scan, inUse)
<1>1. IsScan(f, inUse)
  BY ScanExists
<1>2. FindValidDrive(inUse) = IF f[First] >= Bits THEN NoDrive ELSE f[First]
  BY DEF FindValidDrive, IsScan
<1> HIDE DEF f
<1> QED BY <1>1, <1>2, ScanLands, DriveAssumption
-----------------------------------------------------------------------------
(* Every step preserves the invariant: a lemma for each action.            *)

LEMMA RegisterPreserves ==
  ASSUME IInv, Register
  PROVE  IInv'
<1> USE DEF IInv, Register, TypeOK, At, Report, GoTo, NoReport,
            svars, dvars, Thread, State, MainPc, HandlerPc
<1>1. TypeOK' /\ MainReports' /\ HandlerReports'
  BY DriveAssumption DEF MainReports, HandlerReports
<1>2. EventFirst' /\ StatusFollows'
  BY DEF EventFirst, StatusFollows, MainReports, HandlerReports, Up, Leaving,
         Called, Told, Unwritten
<1>3. LettersGiven' /\ SeenAreVisited'
  BY DriveAssumption DEF LettersGiven, SeenAreVisited, MainReports
<1> QED BY <1>1, <1>2, <1>3

LEMMA CreateStopEventPreserves ==
  ASSUME IInv, CreateStopEvent
  PROVE  IInv'
<1> USE DEF IInv, CreateStopEvent, TypeOK, At, Report, GoTo, NoReport,
            svars, dvars, Thread, State, MainPc, HandlerPc
<1>1. TypeOK' /\ MainReports' /\ HandlerReports'
  BY DriveAssumption DEF MainReports, HandlerReports
<1>2. EventFirst' /\ StatusFollows'
  BY DEF EventFirst, StatusFollows, MainReports, HandlerReports, Up, Leaving,
         Called, Told, Unwritten
<1>3. LettersGiven' /\ SeenAreVisited'
  BY DriveAssumption DEF LettersGiven, SeenAreVisited, MainReports
<1> QED BY <1>1, <1>2, <1>3

LEMMA LoadToMountPreserves ==
  ASSUME IInv, LoadToMount
  PROVE  IInv'
<1> USE DEF IInv, LoadToMount, TypeOK, At, Report, GoTo, NoReport,
            svars, dvars, Thread, State, MainPc, HandlerPc
<1>1. TypeOK' /\ MainReports' /\ HandlerReports'
  BY DriveAssumption DEF MainReports, HandlerReports
<1>2. EventFirst' /\ StatusFollows'
  BY DEF EventFirst, StatusFollows, MainReports, HandlerReports, Up, Leaving,
         Called, Told, Unwritten
<1>3. LettersGiven' /\ SeenAreVisited'
  BY DriveAssumption DEF LettersGiven, SeenAreVisited, MainReports
<1> QED BY <1>1, <1>2, <1>3

LEMMA MountPartPreserves ==
  ASSUME IInv, MountPart
  PROVE  IInv'
<1> USE DEF IInv, MountPart, TypeOK, At, Report, GoTo, NoReport,
            svars, dvars, Thread, State, MainPc, HandlerPc
<1>1. TypeOK' /\ MainReports' /\ HandlerReports'
  BY DriveAssumption DEF MainReports, HandlerReports
<1>2. EventFirst' /\ StatusFollows'
  BY DEF EventFirst, StatusFollows, MainReports, HandlerReports, Up, Leaving,
         Called, Told, Unwritten
<1>3. LettersGiven' /\ SeenAreVisited'
  BY DriveAssumption DEF LettersGiven, SeenAreVisited, MainReports
<1> QED BY <1>1, <1>2, <1>3

LEMMA MountedPreserves ==
  ASSUME IInv, Mounted
  PROVE  IInv'
<1> USE DEF IInv, Mounted, TypeOK, At, Report, GoTo, NoReport,
            svars, dvars, Thread, State, MainPc, HandlerPc
<1>1. TypeOK' /\ MainReports' /\ HandlerReports'
  BY DriveAssumption DEF MainReports, HandlerReports
<1>2. EventFirst' /\ StatusFollows'
  BY DEF EventFirst, StatusFollows, MainReports, HandlerReports, Up, Leaving,
         Called, Told, Unwritten
<1>3. LettersGiven' /\ SeenAreVisited'
  BY DriveAssumption DEF LettersGiven, SeenAreVisited, MainReports
<1> QED BY <1>1, <1>2, <1>3

LEMMA WaitStopPreserves ==
  ASSUME IInv, WaitStop
  PROVE  IInv'
<1> USE DEF IInv, WaitStop, TypeOK, At, Report, GoTo, NoReport,
            svars, dvars, Thread, State, MainPc, HandlerPc
<1>1. TypeOK' /\ MainReports' /\ HandlerReports'
  BY DriveAssumption DEF MainReports, HandlerReports
<1>2. EventFirst' /\ StatusFollows'
  BY DEF EventFirst, StatusFollows, MainReports, HandlerReports, Up, Leaving,
         Called, Told, Unwritten
<1>3. LettersGiven' /\ SeenAreVisited'
  BY DriveAssumption DEF LettersGiven, SeenAreVisited, MainReports
<1> QED BY <1>1, <1>2, <1>3

LEMMA LookAtDrivesPreserves ==
  ASSUME IInv, LookAtDrives
  PROVE  IInv'
<1> USE DEF IInv, LookAtDrives, TypeOK, At, Report, GoTo, NoReport,
            svars, dvars, Thread, State, MainPc, HandlerPc
<1>1. GetLogicalDrives \subseteq Letter
  BY DriveAssumption DEF GetLogicalDrives, MountedOn, LettersGiven
<1>2. TypeOK' /\ MainReports' /\ HandlerReports'
  BY <1>1, DriveAssumption DEF MainReports, HandlerReports
<1>3. EventFirst' /\ StatusFollows'
  BY DEF EventFirst, StatusFollows, MainReports, HandlerReports, Up, Leaving,
         Called, Told, Unwritten
<1>4. LettersGiven' /\ SeenAreVisited'
  BY DriveAssumption
  DEF LettersGiven, SeenAreVisited, MainReports, GetLogicalDrives, MountedOn, Letter
<1> QED BY <1>2, <1>3, <1>4

LEMMA UmountNextPreserves ==
  ASSUME IInv, UmountNext
  PROVE  IInv'
<1> USE DEF IInv, UmountNext, TypeOK, At, Report, GoTo, NoReport,
            svars, dvars, Thread, State, MainPc, HandlerPc
<1>1. TypeOK' /\ MainReports' /\ HandlerReports'
  BY DriveAssumption DEF MainReports, HandlerReports
<1>2. EventFirst' /\ StatusFollows'
  BY DEF EventFirst, StatusFollows, MainReports, HandlerReports, Up, Leaving,
         Called, Told, Unwritten
<1>3. LettersGiven' /\ SeenAreVisited'
  BY DriveAssumption DEF LettersGiven, SeenAreVisited, MainReports
<1> QED BY <1>1, <1>2, <1>3

LEMMA UmountDonePreserves ==
  ASSUME IInv, UmountDone
  PROVE  IInv'
<1> USE DEF IInv, UmountDone, TypeOK, At, Report, GoTo, NoReport,
            svars, dvars, Thread, State, MainPc, HandlerPc
<1>1. TypeOK' /\ MainReports' /\ HandlerReports'
  BY DriveAssumption DEF MainReports, HandlerReports
<1>2. EventFirst' /\ StatusFollows'
  BY DEF EventFirst, StatusFollows, MainReports, HandlerReports, Up, Leaving,
         Called, Told, Unwritten
<1>3. LettersGiven' /\ SeenAreVisited'
  BY DriveAssumption DEF LettersGiven, SeenAreVisited, MainReports
<1> QED BY <1>1, <1>2, <1>3

LEMMA StopPreserves ==
  ASSUME IInv, Stop
  PROVE  IInv'
<1> USE DEF IInv, Stop, TypeOK, At, Report, GoTo, NoReport,
            svars, dvars, Thread, State, MainPc, HandlerPc
<1>1. TypeOK' /\ MainReports' /\ HandlerReports'
  BY DriveAssumption DEF MainReports, HandlerReports
<1>2. EventFirst' /\ StatusFollows'
  BY DEF EventFirst, StatusFollows, MainReports, HandlerReports, Up, Leaving,
         Called, Told, Unwritten
<1>3. LettersGiven' /\ SeenAreVisited'
  BY DriveAssumption DEF LettersGiven, SeenAreVisited, MainReports
<1> QED BY <1>1, <1>2, <1>3

LEMMA SignalPreserves ==
  ASSUME IInv, Signal
  PROVE  IInv'
<1> USE DEF IInv, Signal, TypeOK, At, Report, GoTo, NoReport,
            svars, dvars, Thread, State, MainPc, HandlerPc
<1>1. TypeOK' /\ MainReports' /\ HandlerReports'
  BY DriveAssumption DEF MainReports, HandlerReports
<1>2. EventFirst' /\ StatusFollows'
  BY DEF EventFirst, StatusFollows, MainReports, HandlerReports, Up, Leaving,
         Called, Told, Unwritten
<1>3. LettersGiven' /\ SeenAreVisited'
  BY DriveAssumption DEF LettersGiven, SeenAreVisited, MainReports
<1> QED BY <1>1, <1>2, <1>3

LEMMA AgainPreserves ==
  ASSUME IInv, Again
  PROVE  IInv'
<1> USE DEF IInv, Again, TypeOK, At, Report, GoTo, NoReport,
            svars, dvars, Thread, State, MainPc, HandlerPc
<1>1. TypeOK' /\ MainReports' /\ HandlerReports'
  BY DriveAssumption DEF MainReports, HandlerReports, StatusFollows, Told
<1>2. EventFirst' /\ StatusFollows'
  BY DEF EventFirst, StatusFollows, MainReports, HandlerReports, Up, Leaving,
         Called, Told, Unwritten
<1>3. LettersGiven' /\ SeenAreVisited'
  BY DriveAssumption DEF LettersGiven, SeenAreVisited, MainReports
<1> QED BY <1>1, <1>2, <1>3

LEMMA WriteStatePreserves ==
  ASSUME NEW t \in Thread, IInv, WriteState(t), UNCHANGED dvars
  PROVE  IInv'
<1> USE DEF IInv, WriteState, TypeOK, At, Report, GoTo, NoReport,
            svars, dvars, Thread, State, MainPc, HandlerPc
<1>1. TypeOK' /\ MainReports' /\ HandlerReports'
  BY DriveAssumption DEF MainReports, HandlerReports
<1>2. EventFirst' /\ StatusFollows'
  BY DEF EventFirst, StatusFollows, MainReports, HandlerReports, Up, Leaving,
         Called, Told, Unwritten
<1>3. LettersGiven' /\ SeenAreVisited'
  BY DriveAssumption DEF LettersGiven, SeenAreVisited, MainReports
<1> QED BY <1>1, <1>2, <1>3

LEMMA WriteAcceptPreserves ==
  ASSUME NEW t \in Thread, IInv, WriteAccept(t), UNCHANGED dvars
  PROVE  IInv'
<1> USE DEF IInv, WriteAccept, TypeOK, At, Report, GoTo, NoReport,
            svars, dvars, Thread, State, MainPc, HandlerPc
<1> DEFINE accept == rep[t].state # "START_PENDING"
<1>0. accept \in BOOLEAN /\ status' = [status EXCEPT !.accept = accept]
  OBVIOUS
<1> HIDE DEF accept
<1>1. TypeOK' /\ MainReports' /\ HandlerReports'
  <2>1. status' \in [state : State, accept : BOOLEAN]
    BY <1>0
  <2>2. rep' = [rep EXCEPT ![t].step = "set"] /\ rep[t].step = "accept"
    OBVIOUS
  <2> QED BY <2>1, <2>2, DriveAssumption DEF MainReports, HandlerReports
<1>2. EventFirst' /\ StatusFollows'
  BY DEF EventFirst, StatusFollows, MainReports, HandlerReports, Up, Leaving,
         Called, Told, Unwritten
<1>3. LettersGiven' /\ SeenAreVisited'
  BY DriveAssumption DEF LettersGiven, SeenAreVisited, MainReports
<1> QED BY <1>1, <1>2, <1>3

LEMMA SetServiceStatusPreserves ==
  ASSUME NEW t \in Thread, IInv, SetServiceStatus(t), UNCHANGED dvars
  PROVE  IInv'
<1> USE DEF IInv, SetServiceStatus, TypeOK, At, Report, GoTo, NoReport,
            svars, dvars, Thread, State, MainPc, HandlerPc
<1>1. TypeOK' /\ MainReports' /\ HandlerReports'
  <2>1. TypeOK'
    BY DriveAssumption
  <2>2. MainReports' /\ HandlerReports'
    BY DEF MainReports, HandlerReports
  <2> QED BY <2>1, <2>2
<1>2. EventFirst' /\ StatusFollows'
  BY DEF EventFirst, StatusFollows, MainReports, HandlerReports, Up, Leaving,
         Called, Told, Unwritten
<1>3. LettersGiven' /\ SeenAreVisited'
  BY DriveAssumption DEF LettersGiven, SeenAreVisited, MainReports
<1> QED BY <1>1, <1>2, <1>3

LEMMA ChildPickPreserves ==
  ASSUME NEW p \in Part, IInv, ChildPick(p)
  PROVE  IInv'
<1> USE DEF IInv, ChildPick, TypeOK, At, Report, GoTo, NoReport,
            svars, dvars, Thread, State, MainPc, HandlerPc
<1> PICK y : /\ Lands(First, y, GetLogicalDrives)
             /\ FindValidDrive(GetLogicalDrives) =
                  IF y >= Bits THEN NoDrive ELSE y
  BY FindValidDriveLands
<1>0. /\ FindValidDrive(GetLogicalDrives) \in 0..(Bits - 1) \cup {NoDrive}
      /\ \/ FindValidDrive(GetLogicalDrives) = NoDrive
         \/ FindValidDrive(GetLogicalDrives) >= First
  BY DriveAssumption DEF Lands
<1>1. TypeOK' /\ MainReports' /\ HandlerReports'
  BY <1>0, DriveAssumption DEF MainReports, HandlerReports
<1>2. EventFirst' /\ StatusFollows'
  BY DEF EventFirst, StatusFollows, MainReports, HandlerReports, Up, Leaving,
         Called, Told, Unwritten
<1>3. LettersGiven' /\ SeenAreVisited'
  BY <1>0, DriveAssumption DEF LettersGiven, SeenAreVisited, MainReports
<1> QED BY <1>1, <1>2, <1>3

LEMMA ChildMountPreserves ==
  ASSUME NEW p \in Part, IInv, ChildMount(p)
  PROVE  IInv'
<1> USE DEF IInv, ChildMount, TypeOK, At, Report, GoTo, NoReport,
            svars, dvars, Thread, State, MainPc, HandlerPc
<1>1. TypeOK' /\ MainReports' /\ HandlerReports'
  BY DriveAssumption DEF MainReports, HandlerReports
<1>2. EventFirst' /\ StatusFollows'
  BY DEF EventFirst, StatusFollows, MainReports, HandlerReports, Up, Leaving,
         Called, Told, Unwritten
<1>3. LettersGiven' /\ SeenAreVisited'
  BY DriveAssumption DEF LettersGiven, SeenAreVisited, MainReports,
                         GetLogicalDrives, Letter, NoDrive
<1> QED BY <1>1, <1>2, <1>3

LEMMA ChildEndsPreserves ==
  ASSUME NEW p \in Part, IInv, ChildEnds(p)
  PROVE  IInv'
<1> USE DEF IInv, ChildEnds, ChildGone, TypeOK, At, Report, GoTo, NoReport,
            svars, dvars, Thread, State, MainPc, HandlerPc
<1>1. TypeOK' /\ MainReports' /\ HandlerReports'
  BY DriveAssumption DEF MainReports, HandlerReports
<1>2. EventFirst' /\ StatusFollows'
  BY DEF EventFirst, StatusFollows, MainReports, HandlerReports, Up, Leaving,
         Called, Told, Unwritten
<1>3. LettersGiven' /\ SeenAreVisited'
  BY DriveAssumption DEF LettersGiven, SeenAreVisited, MainReports
<1> QED BY <1>1, <1>2, <1>3

LEMMA InitIInv == Init => IInv
<1> SUFFICES ASSUME Init PROVE IInv
  OBVIOUS
<1> USE DEF Init, NoReport, Thread, State, MainPc, HandlerPc
<1>1. TypeOK
  BY DriveAssumption DEF TypeOK
<1>2. MainReports /\ HandlerReports /\ EventFirst
  BY DEF MainReports, HandlerReports, EventFirst, Up, Called
<1>3. StatusFollows /\ LettersGiven /\ SeenAreVisited
  BY DEF StatusFollows, LettersGiven, SeenAreVisited, Told, Leaving, Unwritten
<1> QED BY <1>1, <1>2, <1>3 DEF IInv

LEMMA ReportingPreserves ==
  ASSUME NEW t \in Thread, IInv, Reporting(t)
  PROVE  IInv'
BY WriteStatePreserves, WriteAcceptPreserves, SetServiceStatusPreserves DEF Reporting

LEMMA StutterPreserves ==
  ASSUME IInv, UNCHANGED vars
  PROVE  IInv'
<1> USE DEF vars, svars, dvars
<1>1. TypeOK' = TypeOK
  BY DEF TypeOK
<1>2. (MainReports /\ HandlerReports)' = (MainReports /\ HandlerReports)
  BY DEF MainReports, HandlerReports
<1>3. (EventFirst /\ StatusFollows)' = (EventFirst /\ StatusFollows)
  BY DEF EventFirst, StatusFollows, Up, Leaving, Called, Told, Unwritten
<1>4. (LettersGiven /\ SeenAreVisited)' = (LettersGiven /\ SeenAreVisited)
  BY DEF LettersGiven, SeenAreVisited
<1> QED BY <1>1, <1>2, <1>3, <1>4 DEF IInv

LEMMA NextIInv == IInv /\ [Next]_vars => IInv'
<1> SUFFICES ASSUME IInv, [Next]_vars PROVE IInv'
  OBVIOUS
<1>1. CASE Register \/ CreateStopEvent \/ LoadToMount \/ MountPart \/ Mounted
  BY <1>1, RegisterPreserves, CreateStopEventPreserves, LoadToMountPreserves,
     MountPartPreserves, MountedPreserves
<1>2. CASE WaitStop \/ LookAtDrives \/ UmountNext \/ UmountDone
  BY <1>2, WaitStopPreserves, LookAtDrivesPreserves, UmountNextPreserves,
     UmountDonePreserves
<1>3. CASE Stop \/ Signal \/ Again
  BY <1>3, StopPreserves, SignalPreserves, AgainPreserves
<1>4. CASE Reporting("main") \/ Reporting("handler")
  BY <1>4, ReportingPreserves DEF Thread
<1>5. ASSUME NEW p \in Part, ChildStep(p) PROVE IInv'
  BY <1>5, ChildPickPreserves, ChildMountPreserves, ChildEndsPreserves DEF ChildStep
<1>6. CASE Finished \/ UNCHANGED vars
  BY <1>6, StutterPreserves DEF Finished
<1> QED BY <1>1, <1>2, <1>3, <1>4, <1>5, <1>6 DEF Next, MainStep, HandlerStep

(* IInv holds in every state of every behaviour.                           *)
THEOREM Invariance == Spec => []IInv
<1>1. Init => IInv
  BY InitIInv
<1>2. IInv /\ [Next]_vars => IInv'
  BY NextIInv
<1> QED BY <1>1, <1>2, PTL DEF Spec

-----------------------------------------------------------------------------
(***************************************************************************)
(* The two threads, their reports, the processes and the drives are what   *)
(* TypeOK says, whatever the threads' writes of gSvcStatus interleave to   *)
(* (eokan_svc.c:324-493); so a letter that is picked is a bit of the mask  *)
(* or none.                                                                *)
(***************************************************************************)
THEOREM TypeCorrect == Spec => []TypeOK
<1>1. IInv => TypeOK
  BY DEF IInv
<1> QED BY <1>1, Invariance, PTL

(***************************************************************************)
(* The handler never signals an event that was not created: a stop comes   *)
(* only after RUNNING was sent, which no thread writes before the event is *)
(* there (eokan_svc.c:351-367, 459-493).                                   *)
(***************************************************************************)
THEOREM StopFindsEvent == Spec => []SignalFindsEvent
<1>1. IInv => SignalFindsEvent
  BY DEF IInv, SignalFindsEvent, At, EventFirst, Called
<1> QED BY <1>1, Invariance, PTL

(***************************************************************************)
(* Every process that was mounted when umount_phydisk_parts looked at the  *)
(* drives is gone when the main function returns, or Dokan refused it, for *)
(* its letter is one of the drives visited (eokan_svc.c:440-457).          *)
(***************************************************************************)
THEOREM SeenLeave == Spec => []SeenAreUnmounted
<1>1. IInv => SeenAreUnmounted
  BY DEF IInv, SeenAreUnmounted, SeenAreVisited
<1> QED BY <1>1, Invariance, PTL

(***************************************************************************)
(* Once STOP_PENDING has been sent RUNNING is never sent again: from the   *)
(* handler's write of it on the shared structure says STOP_PENDING or      *)
(* STOPPED, also when the main thread reports (eokan_svc.c:334-348).       *)
(***************************************************************************)
THEOREM StoppingIsFinal == Spec => NeverRunningAgain
<1>1. IInv /\ [Next]_vars =>
        [("STOP_PENDING" \in reported /\ scm' # scm) => scm'.state # "RUNNING"]_vars
  <2> SUFFICES ASSUME IInv, Next, "STOP_PENDING" \in reported, scm' # scm
               PROVE  scm'.state # "RUNNING"
    OBVIOUS
  <2>1. scm' = status
    BY DEF Next, MainStep, HandlerStep, ChildStep, Reporting, Register, CreateStopEvent,
           LoadToMount, MountPart, Mounted, WaitStop, LookAtDrives, UmountNext,
           UmountDone, Stop, Signal, Again, WriteState, WriteAccept, SetServiceStatus,
           ChildPick, ChildMount, ChildEnds, Finished, vars, svars
  <2>2. status.state \in {"STOP_PENDING", "STOPPED"}
    BY DEF IInv, StatusFollows
  <2> QED BY <2>1, <2>2
<1> QED BY <1>1, Invariance, PTL DEF Spec, NeverRunningAgain

(***************************************************************************)
(* The letter a process picks is not in use, and it finds none only when   *)
(* every second letter from C on is (find_valid_drive, eokan_svc.c:369-380)*)
(***************************************************************************)
THEOREM LetterIsFree == Spec => PicksUnused
<1> DEFINE Free(p) ==
      (child[p].st = "started" /\ child'[p].st = "picked") =>
        LET x == child'[p].letter
        IN  /\ x \notin GetLogicalDrives
            /\ x \notin Letter =>
                 \A k \in 0..LetterCount :
                   First + 2 * k \in Letter => First + 2 * k \in GetLogicalDrives
<1>1. ASSUME IInv, [Next]_vars, NEW p \in Part, child[p].st = "started",
             child'[p].st = "picked"
      PROVE  Free(p)
  <2>1. ChildPick(p)
    BY <1>1
    DEF Next, MainStep, HandlerStep, ChildStep, Reporting, Register, CreateStopEvent,
        LoadToMount, MountPart, Mounted, WaitStop, LookAtDrives, UmountNext, UmountDone,
        Stop, Signal, Again, WriteState, WriteAccept, SetServiceStatus, ChildPick,
        ChildMount, ChildEnds, ChildGone, Finished, vars, dvars, IInv, TypeOK
  <2>2. GetLogicalDrives \subseteq Letter
    BY <1>1, DriveAssumption
    DEF GetLogicalDrives, MountedOn, IInv, TypeOK, LettersGiven
  <2>3. PICK y : /\ Lands(First, y, GetLogicalDrives)
                 /\ FindValidDrive(GetLogicalDrives) = IF y >= Bits THEN NoDrive ELSE y
    BY FindValidDriveLands
  <2>4. child'[p].letter = FindValidDrive(GetLogicalDrives)
    BY <1>1, <2>1 DEF ChildPick, IInv, TypeOK
  <2>5. child'[p].letter \notin GetLogicalDrives
    BY <2>2, <2>3, <2>4, DriveAssumption DEF Lands, NoDrive, Letter
  <2>6. ASSUME child'[p].letter \notin Letter, NEW k \in 0..LetterCount,
               First + 2 * k \in Letter
        PROVE  First + 2 * k \in GetLogicalDrives
    <3>1. y >= LetterCount
      BY <2>3, <2>4, <2>6, DriveAssumption DEF Lands, Letter
    <3>2. k \in Nat /\ First + 2 * k < y
      BY <3>1, <2>3, <2>6, DriveAssumption DEF Lands, Letter
    <3> QED BY <3>2, <2>3 DEF Lands
  <2> QED BY <2>5, <2>6
<1>2. IInv /\ [Next]_vars => [\A p \in Part : Free(p)]_vars
  BY <1>1
<1> QED BY <1>2, Invariance, PTL DEF Spec, PicksUnused

-----------------------------------------------------------------------------
(* Whatever the control process does, the service takes its own steps.     *)
LEMMA ServiceSteps == [CtlNext]_allvars => [Next]_vars
<1> SUFFICES ASSUME CtlNext PROVE Next \/ UNCHANGED vars
  BY DEF allvars
<1>1. CASE ServiceStep
  BY <1>1 DEF ServiceStep, Next
<1>2. CASE Control
  BY <1>2 DEF Control, Next
<1>3. ASSUME CtlNext, ~ServiceStep, ~Control PROVE UNCHANGED vars
  BY <1>3
  DEF CtlNext, Install, Remove, CtlStep, Tick, DependentEnds, Refused, CtlFinished,
      CreateService, StartService, OpenService, Query, Pending, Answer, WaitStopped,
      Delete, Depends, NextDependent, PollDependent, allvars
<1> QED BY <1>1, <1>2, <1>3

-----------------------------------------------------------------------------
(* The inductive invariant: that of the service, the handles, and that     *)
(* a removal that has got past its first query found a service that was    *)
(* started; before that query ssp is what it began with, and no dependent  *)
(* is opened before the list is there.                                     *)
RemovesStarted ==
  /\ ctl \in Removing \ {"query", "delete"} => started
  /\ ctl \notin Removing \ {"query"} => ssp = "STOPPED"
  /\ ctl \in CtlPc \ {"each", "polled", "control", "answer", "wait", "delete", "done"}
       => held \subseteq Own

CtlIInv == IInv /\ CtlTypeOK /\ HandlesClosed /\ RemovesStarted

LEMMA CtlInitIInv == CtlInit => CtlIInv
<1> SUFFICES ASSUME CtlInit PROVE CtlIInv
  OBVIOUS
<1>1. IInv
  BY InitIInv DEF CtlInit
<1>2. CtlTypeOK /\ HandlesClosed /\ RemovesStarted
  BY <1>1 DEF CtlInit, CtlTypeOK, CtlPc, Removing, InDepends, HandlesClosed,
              RemovesStarted, State, IInv, Own, Handle
<1> QED BY <1>1, <1>2 DEF CtlIInv

(* A step of the service leaves the control process where it is.           *)
LEMMA ServiceKeepsControl ==
  ASSUME CtlIInv, TypeOK', UNCHANGED cvars
  PROVE  (CtlTypeOK /\ HandlesClosed /\ RemovesStarted)'
BY DEF CtlIInv, CtlTypeOK, HandlesClosed, RemovesStarted, cvars

LEMMA ReportedState ==
  ASSUME CtlIInv
  PROVE  Reported \in State
BY DEF CtlIInv, IInv, TypeOK, Reported, State

LEMMA InstallKeepsControl ==
  ASSUME CtlIInv, TypeOK',
         \/ Install \/ CreateService \/ StartService
         \/ Remove \/ OpenService \/ Delete
  PROVE  (CtlTypeOK /\ HandlesClosed /\ RemovesStarted)'
BY DependentsAssumption
DEF CtlIInv, CtlTypeOK, CtlPc, Removing, InDepends, HandlesClosed, RemovesStarted,
    Own, Handle, Timer, State, Install, CreateService, StartService, Remove,
    OpenService, Delete, Finish, CloseServiceHandle

LEMMA StopKeepsControl ==
  ASSUME CtlIInv, TypeOK', Query \/ Pending \/ Control \/ Answer \/ WaitStopped
  PROVE  (CtlTypeOK /\ HandlesClosed /\ RemovesStarted)'
BY ReportedState
DEF CtlIInv, CtlTypeOK, CtlPc, Removing, InDepends, HandlesClosed, RemovesStarted,
    State, Reported, Query, Pending, Control, Answer, WaitStopped

LEMMA DependsKeepsControl ==
  ASSUME CtlIInv, TypeOK', Depends \/ NextDependent \/ PollDependent
  PROVE  (CtlTypeOK /\ HandlesClosed /\ RemovesStarted)'
BY DependentsAssumption
DEF CtlIInv, CtlTypeOK, CtlPc, Removing, InDepends, HandlesClosed, RemovesStarted,
    Own, Handle, Depends, NextDependent, PollDependent, LeaveDepends

LEMMA OutsideKeepsControl ==
  ASSUME CtlIInv, TypeOK', Tick \/ DependentEnds \/ Refused
  PROVE  (CtlTypeOK /\ HandlesClosed /\ RemovesStarted)'
BY DependentsAssumption
DEF CtlIInv, CtlTypeOK, CtlPc, Removing, InDepends, HandlesClosed, RemovesStarted,
    Own, Handle, Timer, Tick, DependentEnds, Refused, LeaveDepends

LEMMA CtlNextIInv == CtlIInv /\ [CtlNext]_allvars => CtlIInv'
<1> SUFFICES ASSUME CtlIInv, [CtlNext]_allvars PROVE CtlIInv'
  OBVIOUS
<1>1. IInv'
  BY ServiceSteps, NextIInv DEF CtlIInv
<1>2. TypeOK'
  BY <1>1 DEF IInv
<1>3. CASE UNCHANGED cvars
  BY <1>1, <1>2, <1>3, ServiceKeepsControl DEF CtlIInv
<1>4. CASE \/ Install \/ CreateService \/ StartService
           \/ Remove \/ OpenService \/ Delete
  BY <1>1, <1>2, <1>4, InstallKeepsControl DEF CtlIInv
<1>5. CASE Query \/ Pending \/ Control \/ Answer \/ WaitStopped
  BY <1>1, <1>2, <1>5, StopKeepsControl DEF CtlIInv
<1>6. CASE Depends \/ NextDependent \/ PollDependent
  BY <1>1, <1>2, <1>6, DependsKeepsControl DEF CtlIInv
<1>7. CASE Tick \/ DependentEnds \/ Refused
  BY <1>1, <1>2, <1>7, OutsideKeepsControl DEF CtlIInv
<1> QED BY <1>3, <1>4, <1>5, <1>6, <1>7
        DEF CtlNext, CtlStep, ServiceStep, CtlFinished, allvars

(* CtlIInv holds in every state of every behaviour.                        *)
THEOREM CtlInvariance == CtlSpec => []CtlIInv
<1> QED BY CtlInitIInv, CtlNextIInv, PTL DEF CtlSpec

-----------------------------------------------------------------------------
(***************************************************************************)
(* A service that is installed, started and removed behaves as EokanSvc    *)
(* says: an installation or a removal only sends it the stop it would take *)
(* anyhow, so what is proved of the service holds in this system too.      *)
(***************************************************************************)
THEOREM RunsTheService == CtlSpec => Init /\ [][Next]_vars
<1>1. CtlInit => Init
  BY DEF CtlInit
<1> QED BY <1>1, ServiceSteps, PTL DEF CtlSpec

(***************************************************************************)
(* The control process, its copy of the state the service reported, its    *)
(* time-outs and its list of dependents are what CtlTypeOK says.           *)
(***************************************************************************)
THEOREM CtlTypeCorrect == CtlSpec => []CtlTypeOK
<1>1. CtlIInv => CtlTypeOK
  BY DEF CtlIInv
<1> QED BY <1>1, CtlInvariance, PTL

(***************************************************************************)
(* Whichever call was refused, installer and remover give back the manager *)
(* and the service, and no sooner than the last call that needs them       *)
(* (eokan_svc.c:36-90, 279-317), and no dependent is opened twice or told  *)
(* to stop without its handle (92-167).                                    *)
(***************************************************************************)
THEOREM NoHandleLeft == CtlSpec => []HandlesClosed
<1>1. CtlIInv => HandlesClosed
  BY DEF CtlIInv
<1> QED BY <1>1, CtlInvariance, PTL

(***************************************************************************)
(* When a removal takes the service for stopped, though it looks at a      *)
(* state reported earlier, the main thread has been through the drives     *)
(* (eokan_svc.c:196-276): STOPPED is reported by a thread only once the    *)
(* main thread has nothing left to unmount.                                *)
(***************************************************************************)
THEOREM StoppedIsDone == CtlSpec => StoppedMeansDone
<1>1. CtlIInv /\ [CtlNext]_allvars =>
        [(ctl' \in Removing /\ ssp' = "STOPPED" /\ ssp # "STOPPED") =>
           /\ started /\ dflag = {}
           /\ pc["main"] = "returned" \/ rep["main"].then = "returned"
           /\ \A p \in seen : child[p].st = "gone" \/ p \in kept]_allvars
  <2> SUFFICES ASSUME CtlIInv, CtlNext, ctl' \in Removing, ssp' = "STOPPED",
                      ssp # "STOPPED"
               PROVE  /\ started /\ dflag = {}
                      /\ pc["main"] = "returned" \/ rep["main"].then = "returned"
                      /\ \A p \in seen : child[p].st = "gone" \/ p \in kept
    OBVIOUS
  <2>1. ctl \in {"pending", "answer", "wait"} /\ Reported = "STOPPED"
    BY DEF CtlNext, CtlStep, Install, CreateService, StartService, Remove, OpenService,
           Delete, Query, Pending, Control, Answer, WaitStopped, Depends, NextDependent,
           PollDependent, Tick, DependentEnds, Refused, LeaveDepends, Finish,
           CtlFinished, ServiceStep, cvars, allvars, Removing, InDepends,
           CtlIInv, RemovesStarted
  <2>2. started /\ scm.state = "STOPPED"
    BY <2>1 DEF CtlIInv, RemovesStarted, Removing, InDepends, Reported
  <2>3. Leaving
    BY <2>2 DEF CtlIInv, IInv, StatusFollows
  <2>4. pc["main"] = "returned" \/ rep["main"].step # "none"
    BY <2>3 DEF Leaving, CtlIInv, IInv, MainReports, NoReport
  <2> QED BY <2>2, <2>3, <2>4 DEF Leaving, CtlIInv, IInv, SeenAreVisited
<1> QED BY <1>1, CtlInvariance, PTL DEF CtlSpec, StoppedMeansDone
=============================================================================
