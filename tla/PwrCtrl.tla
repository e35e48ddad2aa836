------------------------------ MODULE PwrCtrl ------------------------------
(***************************************************************************)
(* LPS 32K power control (WIFI/core/rtw_pwrctrl.c, lps_level LPS_LCLK).    *)
(*                                                                         *)
(* rpwm is what the driver last asked of the firmware, cpwm what it        *)
(* believes the firmware granted.  Tasks register before they touch the    *)
(* chip and unregister afterwards; entering and leaving 802.11 power save  *)
(* changes the request too.  A request that has to wake the chip polls for *)
(* its acknowledgement with pwrctrl->lock held; when the polling gives up  *)
(* it arms pwr_rpwm_timer, whose handler queues a work item that finds out *)
(* whether the firmware woke up and otherwise asks again.  Readers outside *)
(* the lock: the timer handler, the checks before rtw_set_ps_mode locks    *)
(* and the second look a registering task takes at cpwm.                   *)
(***************************************************************************)
EXTENDS Naturals

CONSTANTS
  Tasks,       \* CMD_ALIVE, BTCOEX_ALIVE, LPS_ALIVE: the bits of alives in use
  PsCtx,       \* contexts that enter and leave power save
  RetryCnt,    \* LPS_RPWM_RETRY_CNT
  MaxStops     \* bound: how often the driver is stopped

ASSUME ContextAssumption ==
  /\ Tasks \intersect PsCtx = {}
  /\ {"free", "work"} \intersect (Tasks \union PsCtx) = {}

ASSUME NumberAssumption == RetryCnt \in Nat /\ MaxStops \in Nat

VARIABLES
  rpwm,        \* pwrctrl->rpwm
  cpwm,        \* pwrctrl->cpwm
  alives,      \* pwrctrl->alives
  inPs,        \* pwrctrl->bFwCurrentInPSMode
  mode,        \* pwrctrl->pwr_mode: "active" or "ps"
  lock,        \* who polls with pwrctrl->lock held, or "free"
  retry,       \* pwrctrl->rpwm_retry
  timer,       \* pwr_rpwm_timer is pending
  queued,      \* rpwmtimeoutwi is queued
  wpc,         \* control point of rpwmtimeout_workitem_callback
  tstate,      \* where each task is in rtw_register_task_alive, and its answer
  ppc,         \* control point of each power save context
  stopped,     \* rtw_is_drv_stopped
  removed,     \* rtw_is_surprise_removed
  hwInit,      \* rtw_is_hw_init_completed
  bup,         \* padapter->bup
  stops,       \* number of stops so far
  fw,          \* firmware: "awake", or in "32k" (register 0x100 reads 0xEA)
  fwReq        \* firmware: the last power request it was sent

levelVars == <<rpwm, cpwm, fwReq, retry>>
workVars == <<timer, queued, wpc>>
driverVars == <<stopped, removed, hwInit, bup, stops>>
vars == <<rpwm, cpwm, alives, inPs, mode, lock, retry, timer, queued, wpc,
          tstate, ppc, stopped, removed, hwInit, bup, stops, fw, fwReq>>

(* PS_STATE_S0: 32K; PS_STATE_S2: awake for I/O; PS_STATE_S4: fully on *)
S0 == 0
S2 == 2
S4 == 4

CannotRun == stopped \/ removed

Init ==
  /\ rpwm = S0 /\ cpwm = S4 /\ alives = {} /\ inPs = FALSE /\ mode = "active"
  /\ lock = "free" /\ retry = 0 /\ timer = FALSE /\ queued = FALSE /\ wpc = "idle"
  /\ tstate = [t \in Tasks |-> "idle"]
  /\ ppc = [p \in PsCtx |-> "idle"]
  /\ stopped = TRUE /\ removed = FALSE /\ hwInit = FALSE /\ bup = FALSE /\ stops = 0
  /\ fw = "awake" /\ fwReq = S4

-----------------------------------------------------------------------------
(* rtw_set_rpwm and rtw_cpwm_polling.  "forced" is pwrctrl->brpwmtimeout. *)

Skips(p, forced) == ~forced /\ (rpwm = p \/ (rpwm >= S2 /\ p >= S2))

Gone == removed \/ ~hwInit

Sends(p, forced) ==
  ~Skips(p, forced) /\ ~Gone /\ ~(stopped /\ p < S2)

(* Only from S0/S1 to S2 and higher needs PS_ACK: the caller has to poll. *)
NeedsAck(p, forced) == Sends(p, forced) /\ cpwm < S2 /\ p >= S2

(* Mutant: rpwm_retry is not reset when a new polling starts. *)
rtw_set_rpwm_keeps_retry(p, forced, who) ==
  /\ rpwm' = IF Sends(p, forced) THEN p ELSE rpwm
  /\ fwReq' = IF Sends(p, forced) THEN p ELSE fwReq
  /\ cpwm' = IF ~Skips(p, forced) /\ Gone THEN S4
             ELSE IF Sends(p, forced) /\ ~NeedsAck(p, forced) THEN p ELSE cpwm
  /\ lock' = IF NeedsAck(p, forced) THEN who ELSE lock
  /\ retry' = retry

(* The request up to the point where the polling starts, if it does *)
rtw_set_rpwm(p, forced, who) ==
  /\ rpwm' = IF Sends(p, forced) THEN p ELSE rpwm
  /\ fwReq' = IF Sends(p, forced) THEN p ELSE fwReq
  /\ cpwm' = IF ~Skips(p, forced) /\ Gone THEN S4
             ELSE IF Sends(p, forced) /\ ~NeedsAck(p, forced) THEN p ELSE cpwm
  /\ lock' = IF NeedsAck(p, forced) THEN who ELSE lock
  /\ retry' = IF NeedsAck(p, forced) THEN 0 ELSE retry

(* What the context that called rtw_set_rpwm does after it returned *)
AfterRpwm(who) ==
  /\ tstate' = IF who \in Tasks THEN [tstate EXCEPT ![who] = "reread"] ELSE tstate
  /\ inPs' = IF who \in PsCtx THEN inPs /\ ppc[who] # "leave" ELSE inPs
  /\ ppc' = IF who \in PsCtx
              THEN [ppc EXCEPT ![who] =
                      IF @ = "direct" /\ mode # "active" THEN "leave" ELSE "idle"]
              ELSE ppc
  /\ wpc' = IF who = "work" THEN "idle" ELSE wpc

(* The CPWM toggle bit changed: the firmware acknowledged. *)
PollOk(who) ==
  /\ lock = who /\ fw = "awake"
  /\ cpwm' = S4
  /\ lock' = "free"
  /\ AfterRpwm(who)
  /\ UNCHANGED <<rpwm, fwReq, retry, alives, mode, timer, queued, driverVars, fw>>

(* LPS_CPWM_TIMEOUT_MS passed without a change: send the request again, and give *)
(* up, arming the timer, after the last retry or when the driver stops.          *)
PollMiss(who) ==
  /\ lock = who
  /\ retry' = retry + 1
  /\ fwReq' = rpwm
  /\ \/ /\ retry < RetryCnt /\ ~CannotRun
        /\ UNCHANGED <<lock, timer, tstate, inPs, ppc, wpc>>
     \/ /\ ~(retry < RetryCnt /\ ~CannotRun)
        /\ timer' = TRUE
        /\ lock' = "free"
        /\ AfterRpwm(who)
  /\ UNCHANGED <<rpwm, cpwm, alives, mode, queued, driverVars, fw>>

-----------------------------------------------------------------------------
(* Tasks: rtw_register_task_alive / rtw_register_cmd_alive and their inverses *)

Register(t) ==
  /\ bup /\ lock = "free" /\ tstate[t] \in {"idle", "ready", "failed"}
  /\ alives' = alives \union {t}
  /\ \/ /\ ~(inPs /\ cpwm < S2)
        /\ tstate' = [tstate EXCEPT ![t] = "ready"]
        /\ UNCHANGED <<levelVars, lock>>
     \/ /\ inPs /\ cpwm < S2 /\ rpwm >= S2
        /\ tstate' = [tstate EXCEPT ![t] = "reread"]
        /\ UNCHANGED <<levelVars, lock>>
     \/ /\ inPs /\ cpwm < S2 /\ rpwm < S2
        /\ rtw_set_rpwm(S2, FALSE, t)
        /\ tstate' = [tstate EXCEPT ![t] = IF NeedsAck(S2, FALSE) THEN "polling" ELSE "reread"]
  /\ UNCHANGED <<inPs, mode, workVars, ppc, driverVars, fw>>

(* The second look at cpwm, after the lock was released *)
Return(t) ==
  /\ tstate[t] = "reread"
  /\ tstate' = [tstate EXCEPT ![t] = IF cpwm >= S2 THEN "ready" ELSE "failed"]
  /\ UNCHANGED <<levelVars, lock, alives, inPs, mode, workVars, ppc, driverVars, fw>>

(* Mutant: the chip is sent to sleep although other tasks are registered. *)
UnregisterAll(t) ==
  /\ lock = "free" /\ tstate[t] \in {"idle", "ready", "failed"}
  /\ alives' = alives \ {t}
  /\ tstate' = [tstate EXCEPT ![t] = "idle"]
  /\ \E floor \in {S0, S2} :
       IF mode # "active" /\ inPs /\ cpwm > floor
         THEN rtw_set_rpwm(floor, FALSE, t)
         ELSE UNCHANGED <<levelVars, lock>>
  /\ UNCHANGED <<inPs, mode, workVars, ppc, driverVars, fw>>

(* floor: S2 if BT controls LPS and asks for it, or P2P power save is on *)
Unregister(t) ==
  /\ lock = "free" /\ tstate[t] \in {"idle", "ready", "failed"}
  /\ alives' = alives \ {t}
  /\ tstate' = [tstate EXCEPT ![t] = "idle"]
  /\ \E floor \in {S0, S2} :
       \/ /\ mode # "active" /\ inPs /\ cpwm > floor
          /\ floor >= S2 \/ alives' = {}
          /\ rtw_set_rpwm(floor, FALSE, t)
       \/ /\ ~(mode # "active" /\ inPs /\ cpwm > floor /\ (floor >= S2 \/ alives' = {}))
          /\ UNCHANGED <<levelVars, lock>>
  /\ UNCHANGED <<inPs, mode, workVars, ppc, driverVars, fw>>

-----------------------------------------------------------------------------
(* Power save: LPS_Enter, LPS_Leave, LeaveAllPowerSaveModeDirect, rtw_set_ps_mode *)

(* The checks these functions make before rtw_set_ps_mode takes the lock.  BT   *)
(* coexistence may enter again while the mode is already a power save mode.     *)
PsStart(p) ==
  /\ bup /\ ppc[p] = "idle"
  /\ \/ ppc' = [ppc EXCEPT ![p] = "enter"]
     \/ mode # "active" /\ ppc' = [ppc EXCEPT ![p] = "leave"]
     \/ mode # "active" /\ ~removed /\ ppc' = [ppc EXCEPT ![p] = "direct"]
  /\ UNCHANGED <<levelVars, lock, alives, inPs, mode, workVars, tstate, driverVars, fw>>

(* rtw_set_ps_mode does nothing: not associated or not ready for power save, or *)
(* BT coexistence or P2P holds the chip in power save.                          *)
PsRefused(p) ==
  /\ lock = "free" /\ ppc[p] \in {"enter", "leave"}
  /\ ppc' = [ppc EXCEPT ![p] = "idle"]
  /\ UNCHANGED <<levelVars, lock, alives, inPs, mode, workVars, tstate, driverVars, fw>>

(* Mutant: entering power save does not look at alives. *)
SetPsEnterBlind(p) ==
  /\ lock = "free" /\ ppc[p] = "enter"
  /\ inPs' = TRUE
  /\ mode' = "ps"
  /\ rtw_set_rpwm(S0, FALSE, p)
  /\ ppc' = [ppc EXCEPT ![p] = "idle"]
  /\ UNCHANGED <<alives, workVars, tstate, driverVars, fw>>

SetPsEnter(p) ==
  /\ lock = "free" /\ ppc[p] = "enter"
  /\ inPs' = TRUE
  /\ mode' = "ps"
  /\ \E floor \in {S0, S2} :
       LET pslv == IF alives = {} THEN floor ELSE S2 IN
       /\ rtw_set_rpwm(pslv, FALSE, p)
       /\ ppc' = [ppc EXCEPT ![p] = IF NeedsAck(pslv, FALSE) THEN "enter" ELSE "idle"]
  /\ UNCHANGED <<alives, workVars, tstate, driverVars, fw>>

(* Mutant: leaving power save does not ask for S4. *)
SetPsLeaveSilent(p) ==
  /\ lock = "free" /\ ppc[p] = "leave"
  /\ mode' = "active" /\ inPs' = FALSE
  /\ ppc' = [ppc EXCEPT ![p] = "idle"]
  /\ UNCHANGED <<levelVars, lock, alives, workVars, tstate, driverVars, fw>>

(* The mode changes first, bFwCurrentInPSMode after rtw_set_rpwm returned. *)
SetPsLeave(p) ==
  /\ lock = "free" /\ ppc[p] = "leave"
  /\ mode' = "active"
  /\ rtw_set_rpwm(S4, FALSE, p)
  /\ IF NeedsAck(S4, FALSE) THEN UNCHANGED <<inPs, ppc>>
     ELSE inPs' = FALSE /\ ppc' = [ppc EXCEPT ![p] = "idle"]
  /\ UNCHANGED <<alives, workVars, tstate, driverVars, fw>>

(* LeaveAllPowerSaveModeDirect asks for S4 first, then calls LPS_Leave. *)
LeaveDirect(p) ==
  /\ lock = "free" /\ ppc[p] = "direct"
  /\ rtw_set_rpwm(S4, FALSE, p)
  /\ ppc' = [ppc EXCEPT ![p] = IF NeedsAck(S4, FALSE) THEN "direct"
                               ELSE IF mode # "active" THEN "leave" ELSE "idle"]
  /\ UNCHANGED <<alives, inPs, mode, workVars, tstate, driverVars, fw>>

-----------------------------------------------------------------------------
(* pwr_rpwm_timeout_handler and rpwmtimeout_workitem_callback *)

CpwmDone == rpwm = cpwm \/ cpwm >= S2

TimerFires ==
  /\ timer
  /\ timer' = FALSE
  /\ queued' = (queued \/ (~CannotRun /\ ~CpwmDone))
  /\ UNCHANGED <<levelVars, lock, alives, inPs, mode, wpc, tstate, ppc, driverVars, fw>>

WorkStart ==
  /\ queued /\ wpc = "idle"
  /\ queued' = FALSE
  /\ wpc' = IF CannotRun THEN "idle" ELSE "check"
  /\ UNCHANGED <<levelVars, lock, alives, inPs, mode, timer, tstate, ppc, driverVars, fw>>

(* Mutant: the work item repeats the request forever and never probes. *)
WorkCheckNoProbe ==
  /\ wpc = "check" /\ lock = "free"
  /\ wpc' = "idle"
  /\ retry' = IF ~CpwmDone /\ retry < RetryCnt THEN retry + 1 ELSE retry
  /\ fwReq' = IF CpwmDone THEN fwReq ELSE rpwm
  /\ timer' = (timer \/ ~CpwmDone)
  /\ UNCHANGED <<rpwm, cpwm, lock, alives, inPs, mode, queued, tstate, ppc,
                 driverVars, fw>>

(* Under the lock: done; or one more request and a new timeout; or probe. *)
WorkCheck ==
  /\ wpc = "check" /\ lock = "free"
  /\ wpc' = IF CpwmDone \/ retry < RetryCnt THEN "idle" ELSE "probe"
  /\ retry' = IF CpwmDone THEN retry ELSE IF retry < RetryCnt THEN retry + 1 ELSE 0
  /\ fwReq' = IF ~CpwmDone /\ retry < RetryCnt THEN rpwm ELSE fwReq
  /\ timer' = (timer \/ (~CpwmDone /\ retry < RetryCnt))
  /\ UNCHANGED <<rpwm, cpwm, lock, alives, inPs, mode, queued, tstate, ppc,
                 driverVars, fw>>

(* Register 0x100 is read without the lock; a read that fails returns 0. *)
WorkProbe ==
  /\ wpc = "probe"
  /\ wpc' = IF fw = "32k" /\ ~CannotRun THEN "again" ELSE "int"
  /\ UNCHANGED <<levelVars, lock, alives, inPs, mode, timer, queued, tstate, ppc,
                 driverVars, fw>>

(* cpwm_int_hdl(PS_STATE_S2) sets cpwm; it also ups cmd_queue_sema if the *)
(* command thread is registered.                                          *)
CpwmRaised == wpc = "int" /\ ~CannotRun /\ rpwm >= S2

cpwm_int_hdl ==
  /\ wpc = "int" /\ (lock = "free" \/ CannotRun)
  /\ wpc' = "idle"
  /\ cpwm' = IF CpwmRaised THEN S2 ELSE cpwm
  /\ UNCHANGED <<rpwm, fwReq, retry, lock, alives, inPs, mode, timer, queued,
                 tstate, ppc, driverVars, fw>>

(* Still in 32K: look again under the lock and force the request. *)
WorkAgain ==
  /\ wpc = "again" /\ lock = "free"
  /\ IF CpwmDone
       THEN wpc' = "idle" /\ UNCHANGED <<levelVars, lock>>
       ELSE /\ rtw_set_rpwm(rpwm, TRUE, "work")
            /\ wpc' = IF NeedsAck(rpwm, TRUE) THEN "again" ELSE "idle"
  /\ UNCHANGED <<alives, inPs, mode, timer, queued, tstate, ppc, driverVars, fw>>

-----------------------------------------------------------------------------
(* The driver's life cycle, and the firmware *)

(* netdev_open: the stop flags are cleared and rtw_hal_init loads the firmware. *)
Open ==
  /\ ~bup
  /\ stopped' = FALSE /\ removed' = FALSE /\ hwInit' = TRUE /\ bup' = TRUE
  /\ inPs' = FALSE
  /\ fw' = "awake" /\ fwReq' = S4
  /\ UNCHANGED <<rpwm, cpwm, retry, lock, alives, mode, workVars, tstate, ppc, stops>>

SetDrvStopped ==
  /\ bup /\ ~stopped /\ stops < MaxStops
  /\ stopped' = TRUE /\ stops' = stops + 1
  /\ UNCHANGED <<levelVars, lock, alives, inPs, mode, workVars, tstate, ppc,
                 removed, hwInit, bup, fw>>

(* The rest of rtw_dev_unload: rtw_hal_deinit, rtw_cancel_all_timer *)
DevUnload ==
  /\ bup /\ stopped
  /\ hwInit' = (hwInit /\ removed) /\ removed' = TRUE /\ bup' = FALSE
  /\ timer' = FALSE
  /\ UNCHANGED <<levelVars, lock, alives, inPs, mode, queued, wpc, tstate, ppc,
                 stopped, stops, fw>>

SurpriseRemove ==
  /\ bup /\ ~removed
  /\ removed' = TRUE
  /\ UNCHANGED <<levelVars, lock, alives, inPs, mode, workVars, tstate, ppc,
                 stopped, hwInit, bup, stops, fw>>

FwWake ==
  /\ fw = "32k" /\ fwReq >= S2
  /\ fw' = "awake"
  /\ UNCHANGED <<levelVars, lock, alives, inPs, mode, workVars, tstate, ppc, driverVars>>

FwSleep ==
  /\ fw = "awake" /\ fwReq < S2 /\ inPs
  /\ fw' = "32k"
  /\ UNCHANGED <<levelVars, lock, alives, inPs, mode, workVars, tstate, ppc, driverVars>>

Task(t) == Register(t) \/ Return(t) \/ Unregister(t)

Ps(p) == PsStart(p) \/ PsRefused(p) \/ SetPsEnter(p) \/ SetPsLeave(p) \/ LeaveDirect(p)

Poll(who) == PollOk(who) \/ PollMiss(who)

Work == WorkStart \/ WorkCheck \/ WorkProbe \/ cpwm_int_hdl \/ WorkAgain

Driver == Open \/ SetDrvStopped \/ DevUnload \/ SurpriseRemove

Next ==
  \/ \E t \in Tasks : Task(t)
  \/ \E p \in PsCtx : Ps(p)
  \/ \E who \in Tasks \union PsCtx \union {"work"} : Poll(who)
  \/ TimerFires \/ Work \/ Driver \/ FwWake \/ FwSleep

Spec == Init /\ [][Next]_vars

(* A polling context and the work item keep running, an armed timer expires, a   *)
(* mutex is handed over eventually; the firmware obeys a request it keeps having. *)
Fairness ==
  /\ \A who \in Tasks \union PsCtx \union {"work"} : WF_vars(Poll(who))
  /\ WF_vars(TimerFires)
  /\ SF_vars(Work)
  /\ WF_vars(FwWake)

FairSpec == Spec /\ Fairness

-----------------------------------------------------------------------------
(* Properties *)

TypeOK ==
  /\ rpwm \in {S0, S2, S4} /\ cpwm \in {S0, S2, S4} /\ fwReq \in {S0, S2, S4}
  /\ alives \subseteq Tasks
  /\ inPs \in BOOLEAN /\ mode \in {"active", "ps"}
  /\ lock \in Tasks \union PsCtx \union {"free", "work"}
  /\ retry \in 0..(RetryCnt + 1)
  /\ timer \in BOOLEAN /\ queued \in BOOLEAN
  /\ wpc \in {"idle", "check", "probe", "int", "again"}
  /\ tstate \in [Tasks -> {"idle", "polling", "reread", "ready", "failed"}]
  /\ ppc \in [PsCtx -> {"idle", "enter", "leave", "direct"}]
  /\ stopped \in BOOLEAN /\ removed \in BOOLEAN /\ hwInit \in BOOLEAN /\ bup \in BOOLEAN
  /\ stops \in Nat
  /\ fw \in {"awake", "32k"}

(* A registered task keeps the firmware out of 32K: while any bit of alives is   *)
(* set, the last request the firmware was sent is not the one to sleep, whatever *)
(* the order in which other tasks unregister and power save is entered and left. *)
AliveKeepsAwake == alives # {} /\ ~Gone => fwReq >= S2

(* Leaving power save always leaves a request to be awake behind, also when its  *)
(* polling failed or another context entered power save in between.              *)
ActiveIsRequested ==
  mode = "active" /\ lock = "free" /\ ~Gone => fwReq >= S2

(* rtw_register_task_alive promises "_SUCCESS hardware is ready for I/O": the    *)
(* chip of a task with that answer is not in 32K.                                *)
ReadyMeansAwake ==
  \A t \in Tasks : tstate[t] = "ready" /\ hwInit /\ ~CannotRun => fw = "awake"

(* "If not (cpwm is less than S2), then the sub-routine will raise the cpwm":    *)
(* once the driver asked for S2 or more, cpwm gets there unless the request is   *)
(* withdrawn, power save is left or the driver stops.                            *)
RaisesCpwmAlways ==
  rpwm >= S2 /\ cpwm < S2 /\ inPs ~> cpwm >= S2 \/ rpwm < S2 \/ ~inPs \/ CannotRun

(* The same for a driver that has not been stopped since it was loaded: the      *)
(* retries, the timer and the work item that probes register 0x100 get there.    *)
RaisesCpwm ==
  rpwm >= S2 /\ cpwm < S2 /\ inPs /\ stops = 0
    ~> cpwm >= S2 \/ rpwm < S2 \/ ~inPs \/ CannotRun \/ stops > 0
=============================================================================
