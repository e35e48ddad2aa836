--------------------------- MODULE PwrCtrlProofs ---------------------------
(***************************************************************************)
(* Proofs about the 32K power control: the types, and that the firmware is *)
(* never left with a request to sleep while a task is registered or after  *)
(* power save was left, for any number of tasks, of contexts that enter    *)
(* and leave power save, of retries and of stops.                          *)
(***************************************************************************)
EXTENDS PwrCtrl, TLAPS

Contexts == Tasks \union PsCtx \union {"work"}

(* Who polls has asked for S2 or more, and has retries left. *)
PollInv == lock # "free" => rpwm >= S2 /\ retry <= RetryCnt

(* A firmware whose last request was to sleep got it in power save, from a driver *)
(* with no task registered, and rpwm and cpwm say so: whoever wants the chip next *)
(* finds that it has to ask.                                                      *)
SleepInv ==
  ~Gone /\ fwReq < S2 =>
    rpwm < S2 /\ cpwm < S2 /\ inPs /\ mode = "ps" /\ alives = {}

PowerInv == TypeOK /\ PollInv /\ SleepInv

-----------------------------------------------------------------------------
(* rtw_set_rpwm, whoever calls it with the lock free: a request for S2 or more *)
(* reaches the firmware or has done so before; one for S0 that does is seen in *)
(* rpwm and cpwm.                                                              *)
LEMMA SetRpwm ==
  ASSUME PowerInv, lock = "free", NEW p \in {S0, S2, S4}, NEW forced \in BOOLEAN,
         NEW who \in Contexts, rtw_set_rpwm(p, forced, who)
  PROVE  /\ rpwm' \in {S0, S2, S4} /\ cpwm' \in {S0, S2, S4} /\ fwReq' \in {S0, S2, S4}
         /\ lock' \in Contexts \union {"free"} /\ retry' \in 0..(RetryCnt + 1)
         /\ PollInv'
         /\ ~Gone /\ fwReq' < S2 => p = S0 /\ rpwm' < S2 /\ cpwm' < S2
<1> USE NumberAssumption DEF PowerInv, TypeOK, S0, S2, S4
<1>1. rpwm' \in {S0, S2, S4} /\ cpwm' \in {S0, S2, S4} /\ fwReq' \in {S0, S2, S4}
  BY DEF rtw_set_rpwm
<1>2. lock' \in Contexts \union {"free"}
  BY DEF rtw_set_rpwm
<1>3. retry' \in 0..(RetryCnt + 1)
  BY DEF rtw_set_rpwm
<1>4. PollInv'
  BY DEF rtw_set_rpwm, NeedsAck, PollInv
<1>5. ASSUME ~Gone, fwReq' < S2 PROVE p = S0 /\ rpwm' < S2 /\ cpwm' < S2
  <2>1. CASE Sends(p, forced)
    BY <1>5, <2>1 DEF rtw_set_rpwm, NeedsAck
  <2>2. CASE ~Sends(p, forced)
    <3>1. rpwm' = rpwm /\ fwReq' = fwReq /\ cpwm' = cpwm
      BY <1>5, <2>2 DEF rtw_set_rpwm
    <3>2. rpwm < S2 /\ cpwm < S2
      BY <1>5, <3>1 DEF SleepInv
    <3>3. p = S0
      BY <1>5, <2>2, <3>2 DEF Sends, Skips
    <3> QED
      BY <3>1, <3>2, <3>3
  <2> QED
    BY <2>1, <2>2
<1> QED
  BY <1>1, <1>2, <1>3, <1>4, <1>5

(* Gone is about the driver, whatever the levels are. *)
LEMMA GoneSame == ASSUME UNCHANGED driverVars PROVE Gone' = Gone
  BY DEF driverVars, Gone

(* The rest of the state, in a step that leaves the driver alone. *)
ControlTypes ==
  /\ alives \subseteq Tasks
  /\ inPs \in BOOLEAN /\ mode \in {"active", "ps"}
  /\ timer \in BOOLEAN /\ queued \in BOOLEAN
  /\ wpc \in {"idle", "check", "probe", "int", "again"}
  /\ tstate \in [Tasks -> {"idle", "polling", "reread", "ready", "failed"}]
  /\ ppc \in [PsCtx -> {"idle", "enter", "leave", "direct"}]
  /\ fw \in {"awake", "32k"}

(* The levels, the lock and the retries. *)
LevelTypes ==
  /\ rpwm \in {S0, S2, S4} /\ cpwm \in {S0, S2, S4} /\ fwReq \in {S0, S2, S4}
  /\ lock \in Contexts \union {"free"}
  /\ retry \in 0..(RetryCnt + 1)

(* The driver's flags. *)
DriverTypes ==
  /\ stopped \in BOOLEAN /\ removed \in BOOLEAN /\ hwInit \in BOOLEAN /\ bup \in BOOLEAN
  /\ stops \in Nat

(* The type invariant in these three parts. *)
LEMMA TypeParts == TypeOK <=> LevelTypes /\ ControlTypes /\ DriverTypes
  BY DEF TypeOK, LevelTypes, ControlTypes, DriverTypes, Contexts

(* And of the next state. *)
LEMMA TypePartsNext == LevelTypes' /\ ControlTypes' /\ DriverTypes' => TypeOK'
  BY DEF TypeOK, LevelTypes, ControlTypes, DriverTypes, Contexts

(* A step that leaves the driver's flags alone keeps their types. *)
LEMMA DriverSame == ASSUME DriverTypes, UNCHANGED driverVars PROVE DriverTypes'
  BY DEF DriverTypes, driverVars

(* A step that leaves the levels alone keeps their part of the invariant. *)
LEMMA LevelsSame ==
  ASSUME LevelTypes, PollInv, UNCHANGED <<levelVars, lock>>
  PROVE  LevelTypes' /\ PollInv'
  BY DEF LevelTypes, PollInv, levelVars

-----------------------------------------------------------------------------
(* The steps *)

(* Registering wakes a sleeping firmware up; unregistering sends it to sleep only with *)
(* the last task, in power save.                                                       *)
LEMMA TaskStep ==
  ASSUME PowerInv, NEW t \in Tasks, Task(t)
  PROVE  PowerInv'
<1> USE DEF PowerInv
<1>0. LevelTypes /\ ControlTypes /\ DriverTypes
  BY TypeParts
<1>1. CASE Register(t)
  <2>1. ControlTypes'
    BY <1>0, <1>1 DEF Register, ControlTypes, workVars
  <2>2. DriverTypes' /\ Gone' = Gone
    BY <1>0, <1>1, DriverSame, GoneSame DEF Register
  <2>3. CASE UNCHANGED <<levelVars, lock>> /\ ~(inPs /\ cpwm < S2 /\ rpwm < S2)
    <3>1. LevelTypes' /\ PollInv'
      BY <1>0, <2>3, LevelsSame
    <3>2. SleepInv'
      BY <1>1, <2>2, <2>3 DEF Register, SleepInv, levelVars
    <3> QED
      BY <2>1, <2>2, <3>1, <3>2, TypePartsNext
  <2>4. CASE rtw_set_rpwm(S2, FALSE, t)
    <3>1. LevelTypes' /\ PollInv' /\ ~(~Gone /\ fwReq' < S2)
      <4>1. lock = "free"
        BY <1>1 DEF Register
      <4>2. /\ LevelTypes' /\ PollInv'
            /\ ~Gone /\ fwReq' < S2 => S2 = S0
        BY <2>4, <4>1, SetRpwm DEF Contexts, LevelTypes
      <4> QED
        BY <4>2 DEF S0, S2
    <3>2. SleepInv'
      BY <2>2, <3>1 DEF SleepInv
    <3> QED
      BY <2>1, <2>2, <3>1, <3>2, TypePartsNext
  <2> QED
    <3>1. rpwm >= S2 => ~(rpwm < S2)
      BY <1>0 DEF LevelTypes, S0, S2, S4
    <3> QED
      BY <1>1, <2>3, <2>4, <3>1 DEF Register
<1>2. CASE Return(t)
  <2>1. ControlTypes' /\ DriverTypes' /\ Gone' = Gone
    BY <1>0, <1>2, DriverSame, GoneSame DEF Return, ControlTypes, workVars
  <2>2. LevelTypes' /\ PollInv'
    BY <1>0, <1>2, LevelsSame DEF Return
  <2>3. SleepInv'
    BY <1>2, <2>1 DEF Return, SleepInv, levelVars
  <2> QED
    BY <2>1, <2>2, <2>3, TypePartsNext
<1>3. CASE Unregister(t)
  <2>1. ControlTypes'
    BY <1>0, <1>3 DEF Unregister, ControlTypes, workVars
  <2>2. DriverTypes' /\ Gone' = Gone
    BY <1>0, <1>3, DriverSame, GoneSame DEF Unregister
  <2>3. CASE UNCHANGED <<levelVars, lock>>
    <3>1. LevelTypes' /\ PollInv'
      BY <1>0, <2>3, LevelsSame
    <3>2. SleepInv'
      BY <1>3, <2>2, <2>3 DEF Unregister, SleepInv, levelVars
    <3> QED
      BY <2>1, <2>2, <3>1, <3>2, TypePartsNext
  <2>4. CASE \E floor \in {S0, S2} :
               /\ mode # "active" /\ inPs
               /\ floor >= S2 \/ alives' = {}
               /\ rtw_set_rpwm(floor, FALSE, t)
    <3>1. PICK floor \in {S0, S2} :
               /\ mode # "active" /\ inPs
               /\ floor >= S2 \/ alives' = {}
               /\ rtw_set_rpwm(floor, FALSE, t)
      BY <2>4
    <3>2. /\ LevelTypes' /\ PollInv'
          /\ ~Gone /\ fwReq' < S2 => floor = S0 /\ rpwm' < S2 /\ cpwm' < S2
      BY <1>3, <3>1, SetRpwm DEF Unregister, Contexts, LevelTypes
    <3>3. inPs' /\ mode' = "ps"
      BY <1>0, <1>3, <3>1 DEF Unregister, ControlTypes
    <3>4. SleepInv'
      BY <2>2, <3>1, <3>2, <3>3 DEF SleepInv, S0, S2
    <3> QED
      BY <2>1, <2>2, <3>2, <3>4, TypePartsNext
  <2> QED
    BY <1>3, <2>3, <2>4 DEF Unregister
<1> QED
  BY <1>1, <1>2, <1>3 DEF Task

(* Entering power save asks for S0 only when no task is registered; leaving it, either *)
(* way, leaves a request for S4.                                                       *)
LEMMA PsStep ==
  ASSUME PowerInv, NEW p \in PsCtx, Ps(p)
  PROVE  PowerInv'
<1> USE DEF PowerInv
<1>0. LevelTypes /\ ControlTypes /\ DriverTypes
  BY TypeParts
<1>1. CASE PsStart(p) \/ PsRefused(p)
  <2>1. ControlTypes' /\ DriverTypes' /\ Gone' = Gone
    BY <1>0, <1>1, DriverSame, GoneSame DEF PsStart, PsRefused, ControlTypes, workVars
  <2>2. LevelTypes' /\ PollInv'
    BY <1>0, <1>1, LevelsSame DEF PsStart, PsRefused
  <2>3. SleepInv'
    BY <1>1, <2>1 DEF PsStart, PsRefused, SleepInv, levelVars
  <2> QED
    BY <2>1, <2>2, <2>3, TypePartsNext
<1>2. CASE SetPsEnter(p)
  <2>1. PICK pslv \in {S0, S2} :
          /\ pslv = S0 => alives = {}
          /\ rtw_set_rpwm(pslv, FALSE, p)
          /\ ppc' = [ppc EXCEPT ![p] = IF NeedsAck(pslv, FALSE) THEN "enter" ELSE "idle"]
    <3>1. PICK floor \in {S0, S2} :
            LET lv == IF alives = {} THEN floor ELSE S2 IN
            /\ rtw_set_rpwm(lv, FALSE, p)
            /\ ppc' = [ppc EXCEPT ![p] = IF NeedsAck(lv, FALSE) THEN "enter" ELSE "idle"]
      BY <1>2 DEF SetPsEnter
    <3>2. CASE alives = {}
      BY <3>1, <3>2
    <3>3. CASE alives # {}
      <4>1. S2 # S0
        BY DEF S0, S2
      <4> QED
        BY <3>1, <3>3, <4>1
    <3> QED
      BY <3>2, <3>3
  <2>2. ControlTypes' /\ DriverTypes' /\ Gone' = Gone
    BY <1>0, <1>2, <2>1, DriverSame, GoneSame DEF SetPsEnter, ControlTypes, workVars
  <2>3. /\ LevelTypes' /\ PollInv'
        /\ ~Gone /\ fwReq' < S2 => pslv = S0 /\ rpwm' < S2 /\ cpwm' < S2
    BY <1>2, <2>1, SetRpwm DEF SetPsEnter, Contexts, LevelTypes
  <2>4. SleepInv'
    BY <1>2, <2>1, <2>2, <2>3 DEF SetPsEnter, SleepInv
  <2> QED
    BY <2>2, <2>3, <2>4, TypePartsNext
<1>3. CASE SetPsLeave(p) \/ LeaveDirect(p)
  <2>1. ControlTypes' /\ DriverTypes' /\ Gone' = Gone
    BY <1>0, <1>3, DriverSame, GoneSame
    DEF SetPsLeave, LeaveDirect, ControlTypes, workVars
  <2>2. LevelTypes' /\ PollInv' /\ ~(~Gone /\ fwReq' < S2)
    <3>1. lock = "free" /\ rtw_set_rpwm(S4, FALSE, p)
      BY <1>3 DEF SetPsLeave, LeaveDirect
    <3>2. /\ LevelTypes' /\ PollInv'
          /\ ~Gone /\ fwReq' < S2 => S4 = S0
      BY <3>1, SetRpwm DEF Contexts, LevelTypes
    <3> QED
      BY <3>2 DEF S0, S4
  <2>3. SleepInv'
    BY <2>1, <2>2 DEF SleepInv
  <2> QED
    BY <2>1, <2>2, <2>3, TypePartsNext
<1> QED
  BY <1>1, <1>2, <1>3 DEF Ps

(* The polling context asked for S2 or more, so that whatever it does afterwards the *)
(* firmware has been asked to be awake.                                              *)
LEMMA PollStep ==
  ASSUME PowerInv, NEW who \in Contexts, Poll(who), who # "free"
  PROVE  PowerInv'
<1> USE DEF PowerInv
<1>0. LevelTypes /\ ControlTypes /\ DriverTypes
  BY TypeParts
<1>1. lock # "free" /\ rpwm >= S2 /\ retry <= RetryCnt
  BY DEF Poll, PollOk, PollMiss, PollInv
<1>2. ASSUME AfterRpwm(who)
      PROVE  /\ inPs' \in BOOLEAN /\ wpc' \in {"idle", "check", "probe", "int", "again"}
             /\ tstate' \in [Tasks -> {"idle", "polling", "reread", "ready", "failed"}]
             /\ ppc' \in [PsCtx -> {"idle", "enter", "leave", "direct"}]
  BY <1>0, <1>2 DEF AfterRpwm, ControlTypes
<1>3. ControlTypes'
  BY <1>0, <1>2 DEF Poll, PollOk, PollMiss, ControlTypes
<1>4. DriverTypes' /\ Gone' = Gone
  BY <1>0, DriverSame, GoneSame DEF Poll, PollOk, PollMiss
<1>5. ~(~Gone /\ fwReq' < S2)
  BY <1>0, <1>1 DEF Poll, PollOk, PollMiss, SleepInv, LevelTypes, S0, S2, S4
<1>6. LevelTypes'
  BY <1>0, <1>1, NumberAssumption DEF Poll, PollOk, PollMiss, LevelTypes
<1>7. PollInv'
  BY <1>0, <1>1, NumberAssumption DEF Poll, PollOk, PollMiss, LevelTypes, PollInv
<1>8. SleepInv'
  BY <1>4, <1>5 DEF SleepInv
<1> QED
  BY <1>3, <1>4, <1>6, <1>7, <1>8, TypePartsNext

(* The recovery repeats the request in rpwm only while that is S2 or more. *)
LEMMA WorkSteps ==
  ASSUME PowerInv, Work
  PROVE  PowerInv'
<1> USE DEF PowerInv
<1>0. LevelTypes /\ ControlTypes /\ DriverTypes
  BY TypeParts
<1>1. DriverTypes' /\ Gone' = Gone
  BY <1>0, DriverSame, GoneSame
  DEF Work, WorkStart, WorkCheck, WorkProbe, cpwm_int_hdl, WorkAgain
<1>2. ControlTypes'
  BY <1>0 DEF Work, WorkStart, WorkCheck, WorkProbe, cpwm_int_hdl, WorkAgain, ControlTypes
<1>3. ~CpwmDone => rpwm >= S2
  BY <1>0 DEF CpwmDone, LevelTypes, S0, S2, S4
<1>4. CASE UNCHANGED <<levelVars, lock>> /\ UNCHANGED <<inPs, mode, alives>>
  <2>1. LevelTypes' /\ PollInv'
    BY <1>0, <1>4, LevelsSame
  <2>2. SleepInv'
    BY <1>1, <1>4 DEF SleepInv, levelVars
  <2> QED
    BY <1>1, <1>2, <2>1, <2>2, TypePartsNext
<1>5. CASE WorkCheck
  <2>1. LevelTypes' /\ PollInv'
    BY <1>0, <1>5, NumberAssumption DEF WorkCheck, LevelTypes, PollInv
  <2>2. SleepInv'
    BY <1>0, <1>1, <1>3, <1>5 DEF WorkCheck, SleepInv, LevelTypes, S0, S2, S4
  <2> QED
    BY <1>1, <1>2, <2>1, <2>2, TypePartsNext
<1>6. CASE cpwm_int_hdl
  <2>1. LevelTypes' /\ PollInv'
    BY <1>0, <1>6 DEF cpwm_int_hdl, LevelTypes, PollInv, S2
  <2>2. SleepInv'
    BY <1>0, <1>1, <1>6 DEF cpwm_int_hdl, CpwmRaised, SleepInv, LevelTypes, S0, S2, S4
  <2> QED
    BY <1>1, <1>2, <2>1, <2>2, TypePartsNext
<1>7. CASE WorkAgain /\ ~CpwmDone
  <2>1. lock = "free" /\ rtw_set_rpwm(rpwm, TRUE, "work") /\ rpwm \in {S0, S2, S4}
    BY <1>0, <1>7 DEF WorkAgain, LevelTypes
  <2>2. /\ LevelTypes' /\ PollInv'
        /\ ~Gone /\ fwReq' < S2 => rpwm = S0
    BY <2>1, SetRpwm DEF Contexts, LevelTypes
  <2>3. SleepInv'
    BY <1>0, <1>1, <1>3, <1>7, <2>2 DEF SleepInv, S0, S2
  <2> QED
    BY <1>1, <1>2, <2>2, <2>3, TypePartsNext
<1> QED
  BY <1>4, <1>5, <1>6, <1>7 DEF Work, WorkStart, WorkProbe, WorkAgain

(* Stops keep everything else; a restart loads a firmware that is awake. *)
LEMMA OtherSteps ==
  ASSUME PowerInv, TimerFires \/ Driver \/ FwWake \/ FwSleep \/ UNCHANGED vars
  PROVE  PowerInv'
<1> USE DEF PowerInv
<1>0. LevelTypes /\ ControlTypes /\ DriverTypes
  BY TypeParts
<1>1. ControlTypes'
  BY <1>0 DEF TimerFires, Driver, Open, SetDrvStopped, DevUnload, SurpriseRemove, FwWake,
              FwSleep, vars, ControlTypes, workVars
<1>2. DriverTypes'
  <2>1. CASE TimerFires \/ FwWake \/ FwSleep \/ UNCHANGED vars
    BY <1>0, <2>1, DriverSame DEF TimerFires, FwWake, FwSleep, vars, driverVars
  <2>2. CASE Open
    BY <1>0, <2>2 DEF Open, DriverTypes
  <2>3. CASE SetDrvStopped
    BY <1>0, <2>3 DEF SetDrvStopped, DriverTypes
  <2>4. CASE DevUnload
    BY <1>0, <2>4 DEF DevUnload, DriverTypes
  <2>5. CASE SurpriseRemove
    BY <1>0, <2>5 DEF SurpriseRemove, DriverTypes
  <2> QED
    BY <2>1, <2>2, <2>3, <2>4, <2>5 DEF Driver
<1>3. LevelTypes' /\ PollInv'
  BY <1>0 DEF TimerFires, Driver, Open, SetDrvStopped, DevUnload, SurpriseRemove, FwWake,
              FwSleep, vars, LevelTypes, PollInv, levelVars
<1>4. SleepInv'
  BY <1>0 DEF TimerFires, Driver, Open, SetDrvStopped, DevUnload, SurpriseRemove, FwWake,
              FwSleep, vars, SleepInv, Gone, levelVars, driverVars, DriverTypes, S2, S4
<1> QED
  BY <1>1, <1>2, <1>3, <1>4, TypePartsNext

(* The driver is loaded with no request outstanding. *)
LEMMA PowerInit == Init => PowerInv
<1> SUFFICES ASSUME Init PROVE PowerInv
  OBVIOUS
<1>1. LevelTypes
  BY NumberAssumption DEF Init, LevelTypes
<1>2. ControlTypes
  <2>1. /\ tstate \in [Tasks -> {"idle", "polling", "reread", "ready", "failed"}]
        /\ ppc \in [PsCtx -> {"idle", "enter", "leave", "direct"}]
    BY DEF Init
  <2>2. inPs \in BOOLEAN /\ timer \in BOOLEAN /\ queued \in BOOLEAN
    BY DEF Init
  <2> QED
    BY <2>1, <2>2 DEF Init, ControlTypes
<1>3. DriverTypes
  BY DEF Init, DriverTypes
<1>4. PollInv /\ SleepInv
  BY DEF Init, PollInv, SleepInv, S2, S4
<1> QED
  BY <1>1, <1>2, <1>3, <1>4, TypeParts DEF PowerInv

(* Every step keeps the invariant. *)
LEMMA PowerNext == PowerInv /\ [Next]_vars => PowerInv'
<1> SUFFICES ASSUME PowerInv, [Next]_vars PROVE PowerInv'
  OBVIOUS
<1>1. ASSUME NEW who \in Contexts PROVE who # "free"
  BY ContextAssumption DEF Contexts
<1> QED
  BY <1>1, TaskStep, PsStep, PollStep, WorkSteps, OtherSteps DEF Next, Contexts

(* TypeOK: every variable of the power control keeps its type. *)
THEOREM TypeCorrect == Spec => []TypeOK
<1>1. PowerInv => TypeOK
  BY DEF PowerInv
<1> QED
  BY <1>1, PowerInit, PowerNext, PTL DEF Spec

(* AliveKeepsAwake: while any task is registered the firmware's last request is not the *)
(* one to sleep, whatever the order of registering, unregistering, entering and leaving *)
(* power save, lost acknowledgements, stops and restarts.                               *)
THEOREM AliveKeepsAwakeHolds == Spec => []AliveKeepsAwake
<1>1. PowerInv => AliveKeepsAwake
  BY DEF PowerInv, SleepInv, AliveKeepsAwake, TypeOK, S0, S2, S4
<1> QED
  BY <1>1, PowerInit, PowerNext, PTL DEF Spec

(* ActiveIsRequested: rtw_set_ps_mode and LeaveAllPowerSaveModeDirect never leave the    *)
(* driver in active mode with a firmware that was last asked to sleep.                   *)
THEOREM ActiveIsRequestedHolds == Spec => []ActiveIsRequested
<1>1. PowerInv => ActiveIsRequested
  BY DEF PowerInv, SleepInv, ActiveIsRequested, TypeOK, S0, S2, S4
<1> QED
  BY <1>1, PowerInit, PowerNext, PTL DEF Spec
=============================================================================
