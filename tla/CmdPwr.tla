------------------------------- MODULE CmdPwr -------------------------------
(***************************************************************************)
(* The command thread and the power control together: the answer the       *)
(* thread gets from rtw_register_cmd_alive, which CmdThread leaves open, is *)
(* the one PwrCtrl computes, and the token cpwm_int_hdl gives is the one    *)
(* the work item produces.  The life cycle of the driver is shared.         *)
(***************************************************************************)
EXTENDS Naturals, Sequences

CONSTANTS
  Cmds, NoCmd, NoIo, ChanPlan, Sync, MaxSema, MaxStops,
  Tasks, PsCtx, RetryCnt,
  CmdTask,     \* CMD_ALIVE, the bit of the command thread
  Removable    \* bound: whether the device may vanish

ASSUME CmdTaskAssumption == CmdTask \in Tasks /\ Removable \in BOOLEAN

ASSUME ContextAssumption ==
  /\ Tasks \intersect PsCtx = {}
  /\ {"free", "work"} \intersect (Tasks \union PsCtx) = {}

ASSUME NumberAssumption == RetryCnt \in Nat /\ MaxStops \in Nat

VARIABLES
  queue, sema, running, startSema, mutex, tpc, cur, res, cpc, mem, sctx, status,
  done, ran, apc, linked,
  rpwm, cpwm, alives, inPs, mode, lock, retry, timer, queued, wpc, tstate, ppc,
  bup, fw, fwReq,
  stopped, removed, hwInit, stops

cmdOnly == <<queue, sema, running, startSema, mutex, tpc, cur, res, cpc, mem, sctx,
             status, done, ran, apc, linked>>
pwrOnly == <<rpwm, cpwm, alives, inPs, mode, lock, retry, timer, queued, wpc, tstate,
             ppc, bup, fw, fwReq>>
shared == <<stopped, removed, hwInit, stops>>
vars == <<cmdOnly, pwrOnly, shared>>

C == INSTANCE CmdThread WITH alive <- CmdTask \in alives
P == INSTANCE PwrCtrl

Init == P!Init /\ C!Init

(* The calls the thread makes into the power control *)
RegisterCmdAlive == P!Register(CmdTask) /\ C!ThreadRegister

(* rtw_register_cmd_alive returned _SUCCESS or _FAIL. *)
Registered == tstate[CmdTask] = "ready" /\ UNCHANGED pwrOnly /\ C!ThreadRegistered
Requeue == tstate[CmdTask] = "failed" /\ UNCHANGED pwrOnly /\ C!ThreadRequeue

UnregisterCmdAlive ==
  /\ P!Unregister(CmdTask)
  /\ \/ queue = << >> /\ ~C!CannotRun /\ C!ThreadNext
     \/ C!ThreadNoIo
     \/ C!ThreadExit

(* Everything else the thread does leaves the power control alone. *)
ThreadAlone ==
  /\ UNCHANGED pwrOnly
  /\ \/ C!ThreadEnter \/ C!ThreadDown \/ C!ThreadInterrupted \/ C!ThreadWoken
     \/ (queue # << >> \/ C!CannotRun) /\ C!ThreadNext
     \/ C!ThreadFilter \/ C!ThreadExec \/ C!ThreadPost
     \/ C!ThreadDrain \/ C!ThreadGone

Callers == UNCHANGED pwrOnly /\ \E c \in Cmds : C!Caller(c)

(* Mutant: every CPWM gives a token, whether the thread is registered or not. *)
CpwmIntAlways ==
  /\ sema < MaxSema
  /\ P!cpwm_int_hdl
  /\ sema' = sema + 1
  /\ UNCHANGED <<queue, running, startSema, mutex, tpc, cur, res, cpc, mem, sctx,
                 status, done, ran, apc, linked>>

(* cpwm_int_hdl ups cmd_queue_sema when it raises cpwm for a registered thread. *)
(* MaxSema bounds the tokens.                                                   *)
CpwmInt ==
  /\ sema < MaxSema
  /\ P!cpwm_int_hdl
  /\ sema' = IF P!CpwmRaised /\ CmdTask \in alives THEN sema + 1 ELSE sema
  /\ UNCHANGED <<queue, running, startSema, mutex, tpc, cur, res, cpc, mem, sctx,
                 status, done, ran, apc, linked>>

PowerAlone ==
  /\ \/ P!Return(CmdTask)
     \/ \E t \in Tasks \ {CmdTask} : P!Task(t)
     \/ \E p \in PsCtx : P!Ps(p)
     \/ \E who \in Tasks \union PsCtx \union {"work"} : P!Poll(who)
     \/ P!TimerFires \/ P!WorkStart \/ P!WorkCheck \/ P!WorkProbe \/ P!WorkAgain
     \/ P!FwWake \/ P!FwSleep
  /\ UNCHANGED cmdOnly

(* Life cycle *)
OpenStart == P!Open /\ C!StartThread
Stop == P!SetDrvStopped /\ C!SetDrvStopped
(* Mutant: the driver is unloaded while the thread still runs. *)
UnloadEarly ==
  /\ P!DevUnload
  /\ apc = "join" /\ apc' = "down"
  /\ UNCHANGED <<queue, sema, running, startSema, mutex, tpc, cur, res, cpc, mem, sctx,
                 status, done, ran, linked>>

Unload == P!DevUnload /\ C!StopJoined
Remove == Removable /\ P!SurpriseRemove /\ C!SurpriseRemove
AdminAlone == UNCHANGED pwrOnly /\ (C!StartDone \/ C!StopCmdThread)

Next ==
  \/ RegisterCmdAlive \/ Registered \/ Requeue \/ UnregisterCmdAlive \/ ThreadAlone
  \/ Callers \/ CpwmInt \/ PowerAlone
  \/ OpenStart \/ Stop \/ Unload \/ Remove \/ AdminAlone

Spec == Init /\ [][Next]_vars

-----------------------------------------------------------------------------
(* Properties *)

(* The composition implements both components: what CmdThread and PwrCtrl were  *)
(* checked and proved for holds of the driver that runs them together.          *)
ImplementsBoth == C!Spec /\ P!Spec

(* While a handler that does I/O runs, CMD_ALIVE is set and the firmware's last  *)
(* request is to be awake: neither another task that unregisters nor a context   *)
(* that enters power save sends the chip to 32K under it.                        *)
HandlerKeepsChipOn ==
  tpc = "exec" /\ cur \notin NoIo =>
    CmdTask \in alives /\ (~P!Gone => fwReq >= P!S2)
=============================================================================
