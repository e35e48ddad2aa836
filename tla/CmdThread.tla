----------------------------- MODULE CmdThread -----------------------------
(***************************************************************************)
(* The command path of the WiFi driver (WIFI/core/rtw_cmd.c).              *)
(*                                                                         *)
(* Any kernel context submits a command: it allocates a cmd_obj, passes    *)
(* rtw_cmd_filter, links the object at the tail of cmd_queue and ups       *)
(* cmd_queue_sema.  A synchronous caller hangs a submit_ctx that lives on  *)
(* its own stack on the object and waits for it with a timeout.  One       *)
(* kernel thread, rtw_cmd_thread, takes the objects off the queue, asks    *)
(* the power control for a running chip, executes the handler, completes   *)
(* the submit_ctx under sctx_mutex and frees the object.  A third context  *)
(* stops and restarts the thread (rtw_dev_unload, netdev open/close).      *)
(***************************************************************************)
EXTENDS Naturals, Sequences

CONSTANTS
  Cmds,        \* the command objects callers may submit, each one once
  NoCmd,       \* a null struct cmd_obj pointer
  NoIo,        \* the commands with cmd_obj->no_io set
  ChanPlan,    \* the commands with cmdcode CMD_SET_CHANPLAN
  Sync,        \* the commands submitted with RTW_CMDF_WAIT_ACK
  MaxSema,     \* bound: spurious CPWM wake-ups stop at this semaphore count
  MaxStops     \* bound: how often the driver is stopped

ASSUME CmdAssumption ==
  /\ NoCmd \notin Cmds
  /\ "free" \notin Cmds /\ "thread" \notin Cmds
  /\ NoIo \subseteq Cmds
  /\ ChanPlan \subseteq Cmds
  /\ Sync \subseteq Cmds

ASSUME BoundAssumption == MaxSema \in Nat /\ MaxStops \in Nat

VARIABLES
  queue,       \* cmdpriv.cmd_queue
  sema,        \* cmdpriv.cmd_queue_sema
  running,     \* cmdpriv.cmdthd_running
  startSema,   \* cmdpriv.start_cmdthread_sema
  mutex,       \* holder of cmdpriv.sctx_mutex: "free", "thread" or a command's caller
  tpc,         \* control point of rtw_cmd_thread, "off" when there is no thread
  cur,         \* the thread's pcmd
  res,         \* pcmd->res of cur
  alive,       \* CMD_ALIVE is in pwrctrl->alives
  cpc,         \* control point of each command's caller
  mem,         \* whether the cmd_obj is allocated
  sctx,        \* the commands whose cmd_obj->sctx is not NULL
  status,      \* the caller's on-stack submit_ctx.status
  done,        \* the commands whose submit_ctx.done was completed
  ran,         \* how often the command's handler was executed
  apc,         \* control point of the context that starts and stops the driver
  stopped,     \* rtw_is_drv_stopped
  removed,     \* rtw_is_surprise_removed
  hwInit,      \* rtw_is_hw_init_completed
  stops,       \* number of stops so far
  linked       \* history: the commands in the order their callers linked them

threadVars == <<tpc, cur, res, alive>>
callerVars == <<cpc, mem, sctx, status, done>>
adminVars == <<apc, stopped, stops, startSema>>
vars == <<queue, sema, running, startSema, mutex, tpc, cur, res, alive, cpc,
          mem, sctx, status, done, ran, apc, stopped, removed, hwInit, stops, linked>>

CannotRun == stopped \/ removed

(* The caller's stack frame, which holds the submit_ctx, exists. *)
FrameLive(c) == cpc[c] \in {"filter", "insert", "up", "wait", "lock", "clear"}

InQueue(c) == \E i \in 1..Len(queue) : queue[i] = c

Init ==
  /\ queue = << >> /\ sema = 0 /\ running = FALSE /\ startSema = 0
  /\ mutex = "free"
  /\ tpc = "off" /\ cur = NoCmd /\ res = "none" /\ alive = FALSE
  /\ cpc = [c \in Cmds |-> "idle"]
  /\ mem = [c \in Cmds |-> "unalloc"]
  /\ sctx = {}
  /\ status = [c \in Cmds |-> "none"]
  /\ done = {}
  /\ ran = [c \in Cmds |-> 0]
  /\ apc = "down" /\ stopped = TRUE /\ removed = FALSE /\ hwInit = FALSE
  /\ stops = 0
  /\ linked = << >>

-----------------------------------------------------------------------------
(* Callers: rtw_xxx_cmd, rtw_enqueue_cmd and rtw_sctx_wait *)

rtw_cmd_filter(c) ==
  /\ hwInit \/ c \in NoIo \union ChanPlan
  /\ running

(* A caller allocates the object; a synchronous one also points cmdobj->sctx *)
(* at its stack and initialises it.                                          *)
Submit(c) ==
  /\ cpc[c] = "idle"
  /\ cpc' = [cpc EXCEPT ![c] = "filter"]
  /\ mem' = [mem EXCEPT ![c] = "live"]
  /\ sctx' = sctx \union ({c} \intersect Sync)
  /\ status' = [status EXCEPT ![c] = IF c \in Sync THEN "submitted" ELSE @]
  /\ UNCHANGED <<queue, sema, running, mutex, threadVars, done, ran, adminVars,
                 removed, hwInit, linked>>

(* Mutant: the object a refused caller allocated is not freed. *)
EnqueueFilterLeaks(c) ==
  /\ cpc[c] = "filter"
  /\ cpc' = [cpc EXCEPT ![c] = IF rtw_cmd_filter(c) THEN "insert" ELSE "ret"]
  /\ UNCHANGED <<queue, sema, running, mutex, threadVars, mem, sctx, status, done,
                 ran, adminVars, removed, hwInit, linked>>

(* rtw_enqueue_cmd reads the filter before it takes the queue lock; a refused *)
(* object is freed here and the caller returns _FAIL.                         *)
EnqueueFilter(c) ==
  /\ cpc[c] = "filter"
  /\ \/ /\ rtw_cmd_filter(c)
        /\ cpc' = [cpc EXCEPT ![c] = "insert"]
        /\ UNCHANGED <<mem, sctx>>
     \/ /\ ~rtw_cmd_filter(c)
        /\ cpc' = [cpc EXCEPT ![c] = "ret"]
        /\ mem' = [mem EXCEPT ![c] = "freed"]
        /\ sctx' = sctx \ {c}
  /\ UNCHANGED <<queue, sema, running, mutex, threadVars, status, done, ran,
                 adminVars, removed, hwInit, linked>>

EnqueueInsert(c) ==
  /\ cpc[c] = "insert"
  /\ queue' = Append(queue, c)
  /\ linked' = Append(linked, c)
  /\ cpc' = [cpc EXCEPT ![c] = "up"]
  /\ UNCHANGED <<sema, running, mutex, threadVars, mem, sctx, status, done, ran,
                 adminVars, removed, hwInit>>

(* Mutant: wake the thread only when the queue was empty before. *)
EnqueueUpIfFirst(c) ==
  /\ cpc[c] = "up"
  /\ sema' = IF Len(queue) = 1 THEN sema + 1 ELSE sema
  /\ cpc' = [cpc EXCEPT ![c] = IF c \in Sync THEN "wait" ELSE "ret"]
  /\ UNCHANGED <<queue, running, mutex, threadVars, mem, sctx, status, done, ran,
                 adminVars, removed, hwInit, linked>>

EnqueueUp(c) ==
  /\ cpc[c] = "up"
  /\ sema' = sema + 1
  /\ cpc' = [cpc EXCEPT ![c] = IF c \in Sync THEN "wait" ELSE "ret"]
  /\ UNCHANGED <<queue, running, mutex, threadVars, mem, sctx, status, done, ran,
                 adminVars, removed, hwInit, linked>>

SctxWaitDone(c) ==
  /\ cpc[c] = "wait" /\ c \in done
  /\ cpc' = [cpc EXCEPT ![c] = "lock"]
  /\ UNCHANGED <<queue, sema, running, mutex, threadVars, mem, sctx, status, done,
                 ran, adminVars, removed, hwInit, linked>>

(* Mutant: the wait has no timeout. *)
SctxWaitForever(c) == SctxWaitDone(c)

(* wait_for_completion_timeout expires; submit_ctx.status keeps its value. *)
SctxWaitTimeout(c) ==
  /\ cpc[c] = "wait"
  /\ cpc' = [cpc EXCEPT ![c] = "lock"]
  /\ UNCHANGED <<queue, sema, running, mutex, threadVars, mem, sctx, status, done,
                 ran, adminVars, removed, hwInit, linked>>

CallerLock(c) ==
  /\ cpc[c] = "lock" /\ mutex = "free"
  /\ mutex' = c
  /\ cpc' = [cpc EXCEPT ![c] = "clear"]
  /\ UNCHANGED <<queue, sema, running, threadVars, mem, sctx, status, done,
                 ran, adminVars, removed, hwInit, linked>>

(* Mutant: a caller whose wait timed out leaves cmdobj->sctx behind. *)
CallerClearForgets(c) ==
  /\ cpc[c] = "clear"
  /\ mutex' = "free"
  /\ cpc' = [cpc EXCEPT ![c] = "ret"]
  /\ UNCHANGED <<queue, sema, running, threadVars, mem, sctx, status, done, ran,
                 adminVars, removed, hwInit, linked>>

(* Mutant: a caller whose wait timed out returns with sctx_mutex locked. *)
CallerClearKeepsMutex(c) ==
  /\ cpc[c] = "clear"
  /\ sctx' = IF status[c] = "submitted" THEN sctx \ {c} ELSE sctx
  /\ mutex' = IF status[c] = "submitted" THEN mutex ELSE "free"
  /\ cpc' = [cpc EXCEPT ![c] = "ret"]
  /\ UNCHANGED <<queue, sema, running, threadVars, mem, status, done, ran,
                 adminVars, removed, hwInit, linked>>

(* if (sctx.status == RTW_SCTX_SUBMITTED) cmdobj->sctx = NULL; the caller then *)
(* unlocks and returns, and its stack frame is gone.                           *)
CallerClear(c) ==
  /\ cpc[c] = "clear"
  /\ sctx' = IF status[c] = "submitted" THEN sctx \ {c} ELSE sctx
  /\ mutex' = "free"
  /\ cpc' = [cpc EXCEPT ![c] = "ret"]
  /\ UNCHANGED <<queue, sema, running, threadVars, mem, status, done, ran,
                 adminVars, removed, hwInit, linked>>

Caller(c) ==
  \/ Submit(c) \/ EnqueueFilter(c) \/ EnqueueInsert(c) \/ EnqueueUp(c)
  \/ SctxWaitDone(c) \/ SctxWaitTimeout(c) \/ CallerLock(c) \/ CallerClear(c)

-----------------------------------------------------------------------------
(* rtw_cmd_thread *)

ThreadEnter ==
  /\ tpc = "init"
  /\ running' = TRUE
  /\ startSema' = startSema + 1
  /\ tpc' = "down"
  /\ UNCHANGED <<queue, sema, mutex, cur, res, alive, callerVars, ran, apc,
                 stopped, stops, removed, hwInit, linked>>

(* Mutant: the thread goes on without a token. *)
ThreadDownNoToken ==
  /\ tpc = "down"
  /\ sema' = sema - 1
  /\ tpc' = "woken"
  /\ UNCHANGED <<queue, running, mutex, cur, res, alive, callerVars, ran,
                 adminVars, removed, hwInit, linked>>

(* _rtw_down_sema takes a token, or a pending signal makes it fail. *)
ThreadDown ==
  /\ tpc = "down" /\ sema > 0
  /\ sema' = sema - 1
  /\ tpc' = "woken"
  /\ UNCHANGED <<queue, running, mutex, cur, res, alive, callerVars, ran,
                 adminVars, removed, hwInit, linked>>

ThreadInterrupted ==
  /\ tpc = "down"
  /\ tpc' = "exit"
  /\ UNCHANGED <<queue, sema, running, mutex, cur, res, alive, callerVars, ran,
                 adminVars, removed, hwInit, linked>>

ThreadWoken ==
  /\ tpc = "woken"
  /\ tpc' = IF CannotRun THEN "exit" ELSE IF queue = << >> THEN "down" ELSE "next"
  /\ UNCHANGED <<queue, sema, running, mutex, cur, res, alive, callerVars, ran,
                 adminVars, removed, hwInit, linked>>

(* Mutant: the thread keeps CMD_ALIVE when it runs out of commands. *)
ThreadNextStaysAlive ==
  /\ tpc = "next"
  /\ tpc' = IF CannotRun THEN "exit" ELSE IF queue = << >> THEN "down" ELSE "filter"
  /\ IF ~CannotRun /\ queue # << >>
       THEN cur' = Head(queue) /\ queue' = Tail(queue)
       ELSE UNCHANGED <<cur, queue>>
  /\ UNCHANGED <<sema, running, mutex, res, alive, callerVars, ran, adminVars,
                 removed, hwInit, linked>>

(* _next: leave when the driver stopped, else dequeue; an empty queue gives up *)
(* CMD_ALIVE and goes back to the semaphore.                                   *)
ThreadNext ==
  /\ tpc = "next"
  /\ \/ /\ CannotRun
        /\ tpc' = "exit"
        /\ UNCHANGED <<queue, cur, alive>>
     \/ /\ ~CannotRun /\ queue = << >>
        /\ alive' = FALSE
        /\ tpc' = "down"
        /\ UNCHANGED <<queue, cur>>
     \/ /\ ~CannotRun /\ queue # << >>
        /\ cur' = Head(queue)
        /\ queue' = Tail(queue)
        /\ tpc' = "filter"
        /\ UNCHANGED alive
  /\ UNCHANGED <<sema, running, mutex, res, callerVars, ran, adminVars, removed,
                 hwInit, linked>>

(* cmdsz, cmdcode and the command's handler are data the model leaves open: any *)
(* command may turn out to be refused for them.                                 *)
ThreadFilter ==
  /\ tpc = "filter"
  /\ \/ /\ res' = "param_error" /\ tpc' = "post"
     \/ /\ ~rtw_cmd_filter(cur)
        /\ res' = "dropped" /\ tpc' = "post"
     \/ /\ rtw_cmd_filter(cur)
        /\ tpc' = "alive" /\ UNCHANGED res
  /\ UNCHANGED <<queue, sema, running, mutex, cur, alive, callerVars, ran,
                 adminVars, removed, hwInit, linked>>

(* A command without I/O releases CMD_ALIVE.  For the others                 *)
(* rtw_register_cmd_alive sets it, waits for the chip and says whether it left *)
(* LPS 32K; if not, the object goes back to the head of the queue.             *)
ThreadNoIo ==
  /\ tpc = "alive" /\ cur \in NoIo
  /\ alive' = FALSE
  /\ tpc' = "exec"
  /\ UNCHANGED <<queue, sema, running, mutex, cur, res, callerVars, ran,
                 adminVars, removed, hwInit, linked>>

ThreadRegister ==
  /\ tpc = "alive" /\ cur \notin NoIo
  /\ alive' = TRUE
  /\ tpc' = "register"
  /\ UNCHANGED <<queue, sema, running, mutex, cur, res, callerVars, ran,
                 adminVars, removed, hwInit, linked>>

ThreadRegistered ==
  /\ tpc = "register"
  /\ tpc' = "exec"
  /\ UNCHANGED <<queue, sema, running, mutex, cur, res, alive, callerVars, ran,
                 adminVars, removed, hwInit, linked>>

(* Mutant: the object goes back to the tail instead of the head. *)
ThreadRequeueTail ==
  /\ tpc = "register"
  /\ queue' = Append(queue, cur)
  /\ cur' = NoCmd
  /\ tpc' = "down"
  /\ UNCHANGED <<sema, running, mutex, res, alive, callerVars, ran, adminVars,
                 removed, hwInit, linked>>

ThreadRequeue ==
  /\ tpc = "register"
  /\ queue' = <<cur>> \o queue
  /\ cur' = NoCmd
  /\ tpc' = "down"
  /\ UNCHANGED <<sema, running, mutex, res, alive, callerVars, ran, adminVars,
                 removed, hwInit, linked>>

ThreadExec ==
  /\ tpc = "exec"
  /\ ran' = [ran EXCEPT ![cur] = @ + 1]
  /\ res' \in {"success", "error"}
  /\ tpc' = "post"
  /\ UNCHANGED <<queue, sema, running, mutex, cur, alive, callerVars, adminVars,
                 removed, hwInit, linked>>

(* post_process, and the same steps for an object the exiting thread drains *)
ThreadLock ==
  /\ tpc = "post" /\ mutex = "free"
  /\ mutex' = "thread"
  /\ tpc' = "complete"
  /\ UNCHANGED <<queue, sema, running, cur, res, alive, callerVars, ran,
                 adminVars, removed, hwInit, linked>>

(* Mutant: a drained command is reported as done. *)
SctxResultDrained == IF res \in {"success", "drained"} THEN "success" ELSE "error"

SctxResult == CASE res = "success" -> "success"
                [] res = "drained" -> "drop"
                [] OTHER -> "error"

(* Mutant: the drain loop frees the object without completing its submit_ctx. *)
ThreadCompleteNotDrained ==
  /\ tpc = "complete"
  /\ status' = [status EXCEPT ![cur] =
                  IF cur \in sctx /\ res # "drained" THEN SctxResult ELSE @]
  /\ done' = done \union ({cur} \intersect sctx)
  /\ tpc' = "unlock"
  /\ UNCHANGED <<queue, sema, running, mutex, cur, res, alive, cpc, mem, sctx, ran,
                 adminVars, removed, hwInit, linked>>

(* rtw_sctx_done_err writes the status into the caller's frame and completes. *)
ThreadComplete ==
  /\ tpc = "complete"
  /\ status' = [status EXCEPT ![cur] = IF cur \in sctx THEN SctxResult ELSE @]
  /\ done' = done \union ({cur} \intersect sctx)
  /\ tpc' = "unlock"
  /\ UNCHANGED <<queue, sema, running, mutex, cur, res, alive, cpc, mem, sctx, ran,
                 adminVars, removed, hwInit, linked>>

ThreadUnlock ==
  /\ tpc = "unlock"
  /\ sctx' = sctx \ {cur}
  /\ mutex' = "free"
  /\ tpc' = "free"
  /\ UNCHANGED <<queue, sema, running, cur, res, alive, cpc, mem, status, done, ran,
                 adminVars, removed, hwInit, linked>>

(* rtw_free_cmd_obj, directly or at the end of the command's callback; pcmd->res *)
(* goes with the object.                                                         *)
ThreadFree ==
  /\ tpc = "free"
  /\ mem' = [mem EXCEPT ![cur] = "freed"]
  /\ cur' = NoCmd /\ res' = "none"
  /\ tpc' = IF res = "drained" THEN "drain" ELSE "next"
  /\ UNCHANGED <<queue, sema, running, mutex, alive, cpc, sctx, status, done,
                 ran, adminVars, removed, hwInit, linked>>

ThreadExit ==
  /\ tpc = "exit"
  /\ alive' = FALSE
  /\ running' = FALSE
  /\ tpc' = "drain"
  /\ UNCHANGED <<queue, sema, mutex, cur, res, callerVars, ran, adminVars,
                 removed, hwInit, linked>>

ThreadDrain ==
  /\ tpc = "drain"
  /\ \/ /\ queue = << >>
        /\ tpc' = "waitstop"
        /\ UNCHANGED <<queue, cur, res>>
     \/ /\ queue # << >>
        /\ cur' = Head(queue)
        /\ queue' = Tail(queue)
        /\ res' = "drained"
        /\ tpc' = "post"
  /\ UNCHANGED <<sema, running, mutex, alive, callerVars, ran, adminVars,
                 removed, hwInit, linked>>

(* rtw_thread_wait_stop returns once kthread_stop was called. *)
ThreadGone ==
  /\ tpc = "waitstop" /\ apc = "join"
  /\ tpc' = "off"
  /\ UNCHANGED <<queue, sema, running, mutex, cur, res, alive, callerVars, ran,
                 adminVars, removed, hwInit, linked>>

ThreadPost == ThreadLock \/ ThreadComplete \/ ThreadUnlock \/ ThreadFree

ThreadBody ==
  \/ ThreadEnter \/ ThreadDown \/ ThreadWoken \/ ThreadNext \/ ThreadFilter
  \/ ThreadNoIo \/ ThreadRegister \/ ThreadExec \/ ThreadPost \/ ThreadExit
  \/ ThreadDrain \/ ThreadGone

Thread == ThreadBody \/ ThreadRegistered \/ ThreadRequeue \/ ThreadInterrupted

-----------------------------------------------------------------------------
(* Start and stop of the driver, and what the environment does *)

(* netdev_open: clear the stop flags, rtw_hal_init, rtw_start_drv_threads: create *)
(* the thread, then wait until it runs.                                           *)
StartThread ==
  /\ apc = "down"
  /\ stopped' = FALSE /\ removed' = FALSE /\ hwInit' = TRUE
  /\ tpc' = "init"
  /\ apc' = "starting"
  /\ UNCHANGED <<queue, sema, running, startSema, mutex, cur, res, alive,
                 callerVars, ran, stops, linked>>

StartDone ==
  /\ apc = "starting" /\ startSema > 0
  /\ startSema' = startSema - 1
  /\ apc' = "up"
  /\ UNCHANGED <<queue, sema, running, mutex, threadVars, callerVars, ran,
                 stopped, stops, removed, hwInit, linked>>

(* rtw_dev_unload: rtw_set_drv_stopped, then rtw_stop_cmd_thread *)
SetDrvStopped ==
  /\ apc = "up" /\ stops < MaxStops
  /\ stopped' = TRUE
  /\ stops' = stops + 1
  /\ apc' = "stopping"
  /\ UNCHANGED <<queue, sema, running, startSema, mutex, threadVars, callerVars,
                 ran, removed, hwInit, linked>>

(* Mutant: kthread_stop without upping cmd_queue_sema. *)
StopCmdThreadSilent ==
  /\ apc = "stopping"
  /\ apc' = "join"
  /\ UNCHANGED <<queue, sema, running, startSema, mutex, threadVars, callerVars, ran,
                 stopped, stops, removed, hwInit, linked>>

StopCmdThread ==
  /\ apc = "stopping"
  /\ sema' = sema + 1
  /\ apc' = "join"
  /\ UNCHANGED <<queue, running, startSema, mutex, threadVars, callerVars, ran,
                 stopped, stops, removed, hwInit, linked>>

(* The thread is gone: rtw_dev_unload shuts the chip down and, as its last word, *)
(* marks the device as removed.                                                  *)
StopJoined ==
  /\ apc = "join" /\ tpc = "off"
  /\ apc' = "down"
  /\ hwInit' = (hwInit /\ removed) /\ removed' = TRUE
  /\ UNCHANGED <<queue, sema, running, startSema, mutex, threadVars, callerVars,
                 ran, stopped, stops, linked>>

SurpriseRemove ==
  /\ ~removed
  /\ removed' = TRUE
  /\ UNCHANGED <<queue, sema, running, mutex, threadVars, callerVars, ran,
                 adminVars, hwInit, linked>>

(* rtw_hal_init / rtw_hal_deinit, also from inactive power save *)
HwInitChange ==
  /\ hwInit' = ~hwInit
  /\ UNCHANGED <<queue, sema, running, mutex, threadVars, callerVars, ran,
                 adminVars, removed, linked>>

(* cpwm_int_hdl: the chip woke up; with CMD_ALIVE set the thread gets a token. *)
CpwmInt ==
  /\ ~CannotRun /\ alive /\ sema < MaxSema
  /\ sema' = sema + 1
  /\ UNCHANGED <<queue, running, mutex, threadVars, callerVars, ran, adminVars,
                 removed, hwInit, linked>>

Admin == StartThread \/ StartDone \/ SetDrvStopped \/ StopCmdThread \/ StopJoined

Env == SurpriseRemove \/ HwInitChange \/ CpwmInt

Next == Thread \/ Admin \/ Env \/ \E c \in Cmds : Caller(c)

Spec == Init /\ [][Next]_vars

(* What the scheduler guarantees: a runnable thread, a caller inside the     *)
(* driver and the stopping context keep going, a wait times out, and         *)
(* rtw_register_cmd_alive returns with one answer or the other.  Nothing is  *)
(* assumed of the chip: CPWM need not come.                                  *)
CallerStep(c) ==
  \/ EnqueueFilter(c) \/ EnqueueInsert(c) \/ EnqueueUp(c)
  \/ SctxWaitDone(c) \/ SctxWaitTimeout(c) \/ CallerLock(c) \/ CallerClear(c)

Fairness ==
  /\ WF_vars(ThreadBody \/ ThreadRegistered \/ ThreadRequeue)
  /\ WF_vars(StartDone \/ StopCmdThread \/ StopJoined)
  /\ \A c \in Cmds : WF_vars(CallerStep(c))

FairSpec == Spec /\ Fairness

-----------------------------------------------------------------------------
(* Properties *)

ThreadPoints == {"off", "init", "down", "woken", "next", "filter", "alive",
                 "register", "exec", "post", "complete", "unlock", "free", "exit",
                 "drain", "waitstop"}

(* The control points at which the thread owns the object pcmd points to *)
Holding == {"filter", "alive", "register", "exec", "post", "complete", "unlock", "free"}

TypeOK ==
  /\ queue \in Seq(Cmds) /\ linked \in Seq(Cmds)
  /\ sema \in Nat /\ startSema \in Nat /\ stops \in Nat
  /\ running \in BOOLEAN /\ alive \in BOOLEAN
  /\ mutex \in Cmds \union {"free", "thread"}
  /\ tpc \in ThreadPoints
  /\ cur \in Cmds \union {NoCmd}
  /\ res \in {"none", "success", "error", "dropped", "param_error", "drained"}
  /\ cpc \in [Cmds -> {"idle", "filter", "insert", "up", "wait", "lock", "clear", "ret"}]
  /\ mem \in [Cmds -> {"unalloc", "live", "freed"}]
  /\ sctx \subseteq Cmds /\ done \subseteq Cmds
  /\ status \in [Cmds -> {"none", "submitted", "success", "error", "drop"}]
  /\ ran \in [Cmds -> Nat]
  /\ apc \in {"down", "starting", "up", "stopping", "join"}
  /\ stopped \in BOOLEAN /\ removed \in BOOLEAN /\ hwInit \in BOOLEAN

(* Who may touch a command object: its caller until it is linked, the queue,   *)
(* or the thread that dequeued it.                                             *)
CallerOwns(c) == cpc[c] \in {"filter", "insert"}
ThreadOwns(c) == tpc \in Holding /\ cur = c

(* Ownership of cmd_obj: an allocated object has exactly one owner - its       *)
(* caller, one place in cmd_queue or the thread's pcmd - and a freed or        *)
(* unallocated one has none.  It rules out a double free, a use after free by  *)
(* queue or thread, a leaked object and an object linked twice, whatever the   *)
(* order of enqueue, re-queue, drain, stop and restart.                        *)
OneOwner ==
  /\ \A c \in Cmds :
       /\ mem[c] = "live" <=> CallerOwns(c) \/ InQueue(c) \/ ThreadOwns(c)
       /\ ~(CallerOwns(c) /\ InQueue(c))
       /\ ~(CallerOwns(c) /\ ThreadOwns(c))
       /\ ~(InQueue(c) /\ ThreadOwns(c))
  /\ \A i, j \in 1..Len(queue) : queue[i] = queue[j] => i = j

(* The submit_ctx lives on the caller's stack.  Whenever a command object that *)
(* the thread may still complete points to it, the frame still exists: a       *)
(* caller whose wait timed out never leaves a dangling cmd_obj->sctx behind.   *)
SctxInFrame == \A c \in sctx : FrameLive(c)

(* A caller that timed out writes cmdobj->sctx = NULL only while the object is *)
(* still allocated, although the thread may be completing and freeing it at    *)
(* the same moment.                                                            *)
ClearsLiveObject ==
  \A c \in Cmds : cpc[c] = "clear" /\ status[c] = "submitted" => mem[c] = "live"

(* What a synchronous caller is told is what happened: "success" only after    *)
(* its handler ran, "drop" only if it never ran; no command runs twice, not    *)
(* even one that was put back at the head of the queue.                        *)
AnswerIsTrue ==
  \A c \in Cmds :
    /\ ran[c] <= 1
    /\ status[c] = "success" => ran[c] = 1
    /\ status[c] = "drop" => ran[c] = 0

(* Commands are taken off the queue in the order they were linked: what is     *)
(* queued is always the newest part of the history, so a command put back      *)
(* because the chip was asleep keeps its place before every later one.         *)
QueueIsFifo ==
  /\ Len(queue) <= Len(linked)
  /\ \A i \in 1..Len(queue) : queue[i] = linked[Len(linked) - Len(queue) + i]

(* No lost wake-up: the thread never sleeps on cmd_queue_sema with a command   *)
(* queued unless a token is there, the enqueuing caller is about to up it, or  *)
(* the thread itself waits for the chip with CMD_ALIVE set.                    *)
NoLostWakeup ==
  tpc = "down" /\ queue # << >> /\ ~alive =>
    sema > 0 \/ \E c \in Cmds : cpc[c] = "up"

(* CMD_ALIVE keeps the chip out of 32K.  The thread sleeps with it set only    *)
(* while a command it put back waits at the head of the queue, and a thread    *)
(* that left never leaves it set.                                              *)
AliveOnlyForWork ==
  /\ tpc \in {"down", "woken"} /\ alive => queue # << >>
  /\ tpc \in {"off", "init", "drain", "waitstop"} => ~alive

(* The comment before cmdthd_running is cleared says "to avoid enqueue cmd     *)
(* after free all cmd_obj": once the queue was drained it stays empty until    *)
(* the thread is started again.                                                *)
NoCmdAfterDrain == tpc \in {"waitstop", "off"} => queue = << >>

(* Every call into the command path returns to its caller. *)
CallerReturns == \A c \in Cmds : cpc[c] # "idle" ~> cpc[c] = "ret"

(* rtw_stop_cmd_thread returns: the token it gives and the stop flag get the   *)
(* thread out of every place it can be blocked in.                             *)
StopCompletes == apc = "stopping" ~> apc = "down"

(* The thread sleeps for the chip, with CMD_ALIVE set so that cpwm_int_hdl's   *)
(* token goes to it.                                                           *)
WaitsForChip == tpc = "down" /\ alive

(* A queued command is executed, refused or dropped, and freed, unless the     *)
(* driver stops meanwhile; the only thing it may have to wait for is the chip, *)
(* and then rtw_cmd_thread waits where cpwm_int_hdl can wake it.               *)
QueuedIsFinished ==
  \A c \in Cmds :
    InQueue(c) ~> mem[c] = "freed" \/ CannotRun \/ ~running \/ WaitsForChip
=============================================================================
