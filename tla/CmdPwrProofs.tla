---------------------------- MODULE CmdPwrProofs ----------------------------
(***************************************************************************)
(* The composition of the command thread and the power control implements  *)
(* each of the two, for every set of commands, tasks and contexts, and the *)
(* chip is on while a handler that does I/O runs.                          *)
(***************************************************************************)
EXTENDS CmdPwr, TLAPS

(* The power control's own steps leave the life cycle to the driver. *)
LEMMA PowerAloneShares == PowerAlone => UNCHANGED shared
  BY DEF PowerAlone, P!Return, P!Task, P!Register, P!Unregister, P!Ps, P!PsStart,
         P!PsRefused, P!SetPsEnter, P!SetPsLeave, P!LeaveDirect, P!Poll, P!PollOk, P!PollMiss,
         P!TimerFires, P!WorkStart, P!WorkCheck, P!WorkProbe, P!WorkAgain, P!FwWake, P!FwSleep,
         P!driverVars, shared

(* ... and the bit of the command thread to the command thread. *)
LEMMA PowerAloneBit == PowerAlone => (CmdTask \in alives)' = (CmdTask \in alives)
<1> SUFFICES ASSUME PowerAlone PROVE (CmdTask \in alives)' = (CmdTask \in alives)
  OBVIOUS
<1>1. CASE \E t \in Tasks \ {CmdTask} : P!Task(t)
  <2>1. PICK t \in Tasks \ {CmdTask} : P!Task(t)
    BY <1>1
  <2>2. alives' = alives \union {t} \/ alives' = alives \/ alives' = alives \ {t}
    BY <2>1 DEF P!Task, P!Register, P!Return, P!Unregister
  <2> QED
    BY <2>2
<1>2. CASE ~\E t \in Tasks \ {CmdTask} : P!Task(t)
  <2>1. alives' = alives
    BY <1>2 DEF PowerAlone, P!Return, P!Ps, P!PsStart, P!PsRefused, P!SetPsEnter,
           P!SetPsLeave, P!LeaveDirect, P!Poll, P!PollOk, P!PollMiss, P!TimerFires,
           P!WorkStart, P!WorkCheck, P!WorkProbe, P!WorkAgain, P!FwWake, P!FwSleep
  <2> QED
    BY <2>1
<1> QED
  BY <1>1, <1>2

(* The steps of the thread and of callers that do not enter the power control leave the *)
(* life cycle alone as well.                                                            *)
LEMMA ThreadShares == ThreadAlone \/ Registered \/ Requeue => UNCHANGED shared
  BY DEF ThreadAlone, Registered, Requeue, C!ThreadRegistered, C!ThreadRequeue, C!ThreadEnter,
         C!ThreadDown, C!ThreadInterrupted, C!ThreadWoken, C!ThreadNext, C!ThreadFilter,
         C!ThreadExec, C!ThreadPost, C!ThreadLock, C!ThreadComplete, C!ThreadUnlock,
         C!ThreadFree, C!ThreadDrain, C!ThreadGone, C!adminVars, shared

(* Likewise for callers, and for the admin steps between those of the power control. *)
LEMMA CallersShare == Callers \/ AdminAlone => UNCHANGED shared
  BY DEF Callers, AdminAlone, C!StartDone, C!StopCmdThread, C!Caller, C!Submit,
         C!EnqueueFilter, C!EnqueueInsert, C!EnqueueUp, C!SctxWaitDone, C!SctxWaitTimeout,
         C!CallerLock, C!CallerClear, C!adminVars, shared

-----------------------------------------------------------------------------
(* Refinement *)

(* Every step is one of the command path, or leaves all of it alone. *)
LEMMA StepOfCmdThread == [Next]_vars => [C!Next]_C!vars
<1> SUFFICES ASSUME [Next]_vars PROVE C!Next \/ UNCHANGED C!vars
  OBVIOUS
<1>1. CASE RegisterCmdAlive \/ Registered \/ Requeue \/ UnregisterCmdAlive \/ ThreadAlone
  BY <1>1 DEF RegisterCmdAlive, Registered, Requeue, UnregisterCmdAlive, ThreadAlone,
              C!Next, C!Thread, C!ThreadBody
<1>2. CASE Callers \/ OpenStart \/ Stop \/ Unload \/ Remove \/ AdminAlone
  BY <1>2 DEF Callers, OpenStart, Stop, Unload, Remove, AdminAlone, C!Next, C!Admin, C!Env
<1>3. CASE CpwmInt
  <2>1. UNCHANGED <<queue, running, startSema, mutex, tpc, cur, res, cpc, mem, sctx,
                    status, done, ran, apc, linked, stopped, removed, hwInit, stops, alives>>
    BY <1>3 DEF CpwmInt, P!cpwm_int_hdl, P!driverVars
  <2>2. CASE P!CpwmRaised /\ CmdTask \in alives
    <3>1. ~C!CannotRun /\ sema < MaxSema /\ sema' = sema + 1
      BY <1>3, <2>2 DEF CpwmInt, P!CpwmRaised, P!CannotRun, C!CannotRun
    <3>2. C!CpwmInt
      BY <2>1, <2>2, <3>1 DEF C!CpwmInt, C!threadVars, C!callerVars, C!adminVars
    <3> QED
      BY <3>2 DEF C!Next, C!Env
  <2>3. CASE ~(P!CpwmRaised /\ CmdTask \in alives)
    <3>1. sema' = sema
      BY <1>3, <2>3 DEF CpwmInt
    <3> QED
      BY <2>1, <3>1 DEF C!vars
  <2> QED
    BY <2>2, <2>3
<1>4. CASE PowerAlone
  BY <1>4, PowerAloneShares, PowerAloneBit DEF PowerAlone, cmdOnly, shared, C!vars
<1>5. CASE UNCHANGED vars
  BY <1>5 DEF vars, cmdOnly, pwrOnly, shared, C!vars
<1> QED
  BY <1>1, <1>2, <1>3, <1>4, <1>5 DEF Next

(* Every step is one of the power control, or leaves all of it alone. *)
LEMMA StepOfPwrCtrl == [Next]_vars => [P!Next]_P!vars
<1> SUFFICES ASSUME [Next]_vars PROVE P!Next \/ UNCHANGED P!vars
  OBVIOUS
<1>1. CASE RegisterCmdAlive \/ UnregisterCmdAlive
  BY <1>1, CmdTaskAssumption DEF RegisterCmdAlive, UnregisterCmdAlive, P!Next, P!Task
<1>2. CASE Registered \/ Requeue \/ ThreadAlone \/ Callers \/ AdminAlone \/ UNCHANGED vars
  <2>1. UNCHANGED shared
    BY <1>2, ThreadShares, CallersShare DEF vars
  <2>2. UNCHANGED pwrOnly
    BY <1>2 DEF Registered, Requeue, ThreadAlone, Callers, AdminAlone, vars
  <2> QED
    BY <2>1, <2>2 DEF shared, pwrOnly, P!vars
<1>3. CASE CpwmInt \/ OpenStart \/ Stop \/ Unload \/ Remove
  BY <1>3 DEF CpwmInt, OpenStart, Stop, Unload, Remove, P!Next, P!Work, P!Driver
<1>4. CASE PowerAlone
  <2>1. P!Return(CmdTask) => P!Task(CmdTask)
    BY DEF P!Task
  <2> QED
    BY <1>4, <2>1, CmdTaskAssumption DEF PowerAlone, P!Next, P!Work
<1> QED
  BY <1>1, <1>2, <1>3, <1>4 DEF Next

(* ImplementsBoth: the command thread of rtw_cmd.c and the power control of           *)
(* rtw_pwrctrl.c, run together, do what each of them may do on its own: all that is   *)
(* proved of the two holds of the driver.                                             *)
THEOREM Implements == Spec => ImplementsBoth
<1>1. Init => C!Init /\ P!Init
  BY DEF Init
<1> QED
  BY <1>1, StepOfCmdThread, StepOfPwrCtrl, PTL DEF Spec, ImplementsBoth, C!Spec, P!Spec

-----------------------------------------------------------------------------
(* The chip under a handler *)

(* What is proved of the power control, for the power control of the composition *)
PP == INSTANCE PwrCtrlProofs

(* The definitions of PwrCtrl reached through P and through PP are the same: for a task, *)
LEMMA SameTask == ASSUME NEW x, P!Task(x) PROVE PP!Task(x)
  BY DEF P!S0, PP!S0, P!S2, PP!S2, P!S4, PP!S4, P!CannotRun, PP!CannotRun, P!Skips,
         PP!Skips, P!Gone, PP!Gone, P!Sends, PP!Sends, P!NeedsAck, PP!NeedsAck,
         P!rtw_set_rpwm, PP!rtw_set_rpwm, P!AfterRpwm, PP!AfterRpwm, P!levelVars,
         PP!levelVars, P!workVars, PP!workVars, P!driverVars, PP!driverVars, P!CpwmDone,
         PP!CpwmDone, P!CpwmRaised, PP!CpwmRaised, P!Task, PP!Task, P!Register,
         PP!Register, P!Return, PP!Return, P!Unregister, PP!Unregister

(* for a power save context, *)
LEMMA SamePs == ASSUME NEW x, P!Ps(x) PROVE PP!Ps(x)
  BY DEF P!S0, PP!S0, P!S2, PP!S2, P!S4, PP!S4, P!CannotRun, PP!CannotRun, P!Skips,
         PP!Skips, P!Gone, PP!Gone, P!Sends, PP!Sends, P!NeedsAck, PP!NeedsAck,
         P!rtw_set_rpwm, PP!rtw_set_rpwm, P!AfterRpwm, PP!AfterRpwm, P!levelVars,
         PP!levelVars, P!workVars, PP!workVars, P!driverVars, PP!driverVars, P!CpwmDone,
         PP!CpwmDone, P!CpwmRaised, PP!CpwmRaised, P!Ps, PP!Ps, P!PsStart, PP!PsStart,
         P!PsRefused, PP!PsRefused, P!SetPsEnter, PP!SetPsEnter, P!SetPsLeave,
         PP!SetPsLeave, P!LeaveDirect, PP!LeaveDirect

(* for whoever polls, *)
LEMMA SamePoll == ASSUME NEW x, P!Poll(x) PROVE PP!Poll(x)
  BY DEF P!S0, PP!S0, P!S2, PP!S2, P!S4, PP!S4, P!CannotRun, PP!CannotRun, P!Skips,
         PP!Skips, P!Gone, PP!Gone, P!Sends, PP!Sends, P!NeedsAck, PP!NeedsAck,
         P!rtw_set_rpwm, PP!rtw_set_rpwm, P!AfterRpwm, PP!AfterRpwm, P!levelVars,
         PP!levelVars, P!workVars, PP!workVars, P!driverVars, PP!driverVars, P!CpwmDone,
         PP!CpwmDone, P!CpwmRaised, PP!CpwmRaised, P!Poll, PP!Poll, P!PollOk, PP!PollOk,
         P!PollMiss, PP!PollMiss

(* and for the recovery, the driver and the firmware. *)
LEMMA SameRest ==
  P!TimerFires \/ P!Work \/ P!Driver \/ P!FwWake \/ P!FwSleep
    => PP!TimerFires \/ PP!Work \/ PP!Driver \/ PP!FwWake \/ PP!FwSleep
  BY DEF P!S0, PP!S0, P!S2, PP!S2, P!S4, PP!S4, P!CannotRun, PP!CannotRun, P!Skips,
         PP!Skips, P!Gone, PP!Gone, P!Sends, PP!Sends, P!NeedsAck, PP!NeedsAck,
         P!rtw_set_rpwm, PP!rtw_set_rpwm, P!AfterRpwm, PP!AfterRpwm, P!levelVars,
         PP!levelVars, P!workVars, PP!workVars, P!driverVars, PP!driverVars, P!CpwmDone,
         PP!CpwmDone, P!CpwmRaised, PP!CpwmRaised, P!TimerFires, PP!TimerFires, P!Work,
         PP!Work, P!WorkStart, PP!WorkStart, P!WorkCheck, PP!WorkCheck, P!WorkProbe,
         PP!WorkProbe, P!cpwm_int_hdl, PP!cpwm_int_hdl, P!WorkAgain, PP!WorkAgain,
         P!Driver, PP!Driver, P!Open, PP!Open, P!SetDrvStopped, PP!SetDrvStopped,
         P!DevUnload, PP!DevUnload, P!SurpriseRemove, PP!SurpriseRemove, P!FwWake,
         PP!FwWake, P!FwSleep, PP!FwSleep

(* The power control's invariant holds in the composition. *)
LEMMA PowerInvNext == PP!PowerInv /\ [P!Next]_P!vars => PP!PowerInv'
<1> SUFFICES ASSUME PP!PowerInv, [P!Next]_P!vars PROVE PP!PowerInv'
  OBVIOUS
<1>1. CASE P!Next
  <2>1. PP!Next
    BY <1>1, SameTask, SamePs, SamePoll, SameRest DEF P!Next, PP!Next
  <2> QED
    BY <2>1, PP!PowerNext, ContextAssumption, NumberAssumption
<1>2. CASE UNCHANGED P!vars
  <2>1. UNCHANGED PP!vars
    BY <1>2 DEF P!vars, PP!vars
  <2> QED
    BY <2>1, PP!PowerNext, ContextAssumption, NumberAssumption
<1> QED
  BY <1>1, <1>2

(* ... from the start. *)
LEMMA PowerInvInit == P!Init => PP!PowerInv
<1>1. P!Init => PP!Init
  BY DEF P!Init, PP!Init, P!S0, PP!S0, P!S4, PP!S4
<1> QED
  BY <1>1, PP!PowerInit, ContextAssumption, NumberAssumption

(* The thread holds CMD_ALIVE from rtw_register_cmd_alive to the end of the handler. *)
ExecInv ==
  /\ tpc = "register" => CmdTask \in alives
  /\ tpc = "exec" /\ cur \notin NoIo => CmdTask \in alives

(* No step of the command path, in the composition either, gives the bit up before *)
(* the handler returned.                                                            *)
LEMMA ExecNext == ExecInv /\ [C!Next]_C!vars => ExecInv'
<1> SUFFICES ASSUME ExecInv, [C!Next]_C!vars PROVE ExecInv'
  OBVIOUS
<1> USE DEF ExecInv
<1>1. CASE UNCHANGED <<tpc, cur, CmdTask \in alives>>
  BY <1>1
<1>2. CASE \E c \in Cmds : C!Caller(c)
  BY <1>2, <1>1 DEF C!Caller, C!Submit, C!EnqueueFilter, C!EnqueueInsert, C!EnqueueUp,
         C!SctxWaitDone, C!SctxWaitTimeout, C!CallerLock, C!CallerClear, C!threadVars
<1>3. CASE C!Admin \/ C!Env \/ UNCHANGED C!vars
  BY <1>3, <1>1 DEF C!Admin, C!Env, C!StartThread, C!StartDone, C!SetDrvStopped,
         C!StopCmdThread, C!StopJoined, C!SurpriseRemove, C!HwInitChange, C!CpwmInt,
         C!threadVars, C!vars
<1>4. CASE C!ThreadNoIo \/ C!ThreadRegister \/ C!ThreadRegistered
  BY <1>4 DEF C!ThreadNoIo, C!ThreadRegister, C!ThreadRegistered
<1>5. CASE /\ C!Thread
           /\ ~(C!ThreadNoIo \/ C!ThreadRegister \/ C!ThreadRegistered)
  <2>1. tpc' \notin {"register", "exec"}
    BY <1>5 DEF C!Thread, C!ThreadBody, C!ThreadEnter, C!ThreadDown, C!ThreadInterrupted,
           C!ThreadWoken, C!ThreadNext, C!ThreadFilter, C!ThreadRequeue, C!ThreadExec,
           C!ThreadPost, C!ThreadLock, C!ThreadComplete, C!ThreadUnlock, C!ThreadFree,
           C!ThreadExit, C!ThreadDrain, C!ThreadGone
  <2> QED
    BY <2>1
<1> QED
  BY <1>2, <1>3, <1>4, <1>5 DEF C!Next

(* HandlerKeepsChipOn: while the handler of a command that does I/O runs, CMD_ALIVE is *)
(* set and the firmware's last request is to be awake, whatever the other tasks and    *)
(* the contexts that enter power save do, and through stops and restarts.              *)
THEOREM HandlerKeepsChipOnHolds == Spec => []HandlerKeepsChipOn
<1> DEFINE IInv == PP!PowerInv /\ ExecInv
<1>1. Init => IInv
  BY PowerInvInit DEF Init, C!Init, ExecInv
<1>2. IInv /\ [Next]_vars => IInv'
  BY PowerInvNext, ExecNext, StepOfCmdThread, StepOfPwrCtrl
<1>3. IInv => HandlerKeepsChipOn
  <2> SUFFICES ASSUME IInv, tpc = "exec", cur \notin NoIo
               PROVE  CmdTask \in alives /\ (~P!Gone => fwReq >= P!S2)
    BY DEF HandlerKeepsChipOn
  <2>1. CmdTask \in alives
    BY DEF ExecInv
  <2>2. ~P!Gone => fwReq >= P!S2
    BY <2>1 DEF PP!PowerInv, PP!SleepInv, PP!TypeOK, P!Gone, PP!Gone, P!S2, PP!S0, PP!S2, PP!S4
  <2> QED
    BY <2>1, <2>2
<1> HIDE DEF IInv
<1> QED
  BY <1>1, <1>2, <1>3, PTL DEF Spec
=============================================================================
