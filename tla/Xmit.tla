-------------------------------- MODULE Xmit --------------------------------
(***************************************************************************)
(* The data transmit path of the WiFi driver, from rtw_xmit_entry to the   *)
(* bulk-out URB and back.                                                  *)
(*                                                                         *)
(* A packet gets an xmit_frame from a free list.  With a free xmit_buf and *)
(* nothing in its way it is copied into the buffer and submitted at once;  *)
(* otherwise the frame is linked to the pending queue of its station and   *)
(* access category, and nobody is told: a URB completion, or whoever lets  *)
(* transmission resume after a scan or a join, schedules the xmit tasklet, *)
(* which aggregates pending frames into buffers.  Frames that run short    *)
(* stop the network queue of the packet, and freeing a frame wakes it.     *)
(*                                                                         *)
(* The network core runs one sender per queue; a sender, the tasklet and   *)
(* the completions run on different processors.  pxmitpriv->lock is held   *)
(* by the tasklet while it aggregates (Locked); the other sections under   *)
(* it, and those under the free lists' locks, are single steps.            *)
(*                                                                         *)
(* Frames are alike: lists of them are represented by their lengths.  The  *)
(* one place where it matters which frame is taken is a wake-up that reads *)
(* os_qid of a frame it has freed already; see rtw_alloc_xmitframe.        *)
(***************************************************************************)
EXTENDS Integers, Sequences, FiniteSets, Sums

CONSTANTS
  NFrames,     \* NR_XMITFRAME
  Stas,        \* stations: the access point, or the clients of one
  NQueues,     \* network queues, each with its access category, in dequeue order
  NBufs,       \* NR_XMITBUFF
  StopAt,      \* free frames at which a queue is stopped: 4 in the code
  MaxEvents,   \* bound: scans and joins, departures, failed submissions, a stop,
               \* wake-ups misled by a frame that is used again
  None         \* no station

Queues == 1 .. NQueues

ASSUME SizeAssumption ==
  /\ NQueues \in Nat \ {0} /\ NFrames \in Nat /\ NBufs \in Nat /\ StopAt \in Nat
  /\ MaxEvents \in Nat
  /\ IsFiniteSet(Stas) /\ None \notin Stas

(* Without CONFIG_SINGLE_XMIT_BUF.  With one buffer a frame could be queued while the  *)
(* tasklet, which has found nothing, is about to give that buffer back.                *)
ASSUME BuffersAssumption == NBufs >= 2

(* A queue is stopped while a frame is left for each of them: 4 and 4 in the code, with *)
(* 256 frames.                                                                          *)
ASSUME StopAssumption == StopAt >= NQueues /\ NFrames >= NQueues

VARIABLES
  free,        \* free_xmitframe_cnt
  netq,        \* the network core's queues: "on" or "stopped"
  qcnt,        \* frames pending for each station and queue (tx_servq)
  sta_queue,   \* of each queue: the stations with pending frames, in service order
  accnt,       \* of each queue: hwxmits[].accnt
  bufs,        \* free_xmitbuf_cnt
  urbs,        \* buffers with the USB core
  ending,      \* a completion is between rtw_free_xmitbuf and tasklet_hi_schedule
  snd,         \* the sender of each queue: control point, station, and the os_qid
               \* of the frame it has freed
  sched,       \* the xmit tasklet is scheduled
  tsk,         \* the xmit tasklet: control point, station and queue it serves,
               \* and the os_qid of the frame it has freed
  hold,        \* transmission is held up: "scan", "link" or "none"
  resume,      \* rtw_mi_os_xmit_schedule is about to be called
  sta,         \* "assoc", "leaving" (rtw_free_stainfo before it flushes), "none"
  stopped,     \* RTW_CANNOT_TX
  events,      \* events so far that MaxEvents bounds
  silent,      \* history: a buffer was given back by a path that schedules nothing
  misled       \* history: a wake-up read another queue's os_qid

queueVars == <<qcnt, sta_queue, accnt>>
bufVars == <<bufs, urbs, ending>>
envVars == <<hold, resume, sta, stopped>>
history == <<silent, misled>>
vars == <<free, netq, qcnt, sta_queue, accnt, bufs, urbs, ending, snd,
          sched, tsk, hold, resume, sta, stopped, events, silent, misled>>

Resting == [pc |-> "idle", sta |-> None, q |-> 0, os_qid |-> 0]

Init ==
  /\ free = NFrames /\ netq = [q \in Queues |-> "on"]
  /\ qcnt = [s \in Stas |-> [q \in Queues |-> 0]]
  /\ sta_queue = [q \in Queues |-> <<>>] /\ accnt = [q \in Queues |-> 0]
  /\ bufs = NBufs /\ urbs = 0 /\ ending = FALSE
  /\ snd = [q \in Queues |-> Resting] /\ sched = FALSE /\ tsk = Resting
  /\ hold = "none" /\ resume = FALSE /\ sta = [s \in Stas |-> "assoc"]
  /\ stopped = FALSE /\ events = 0 /\ silent = FALSE /\ misled = FALSE

(* The tasklet holds pxmitpriv->lock. *)
Locked == tsk.pc \in {"agg", "aggWake"}

(* The list seq after list_del of the node of x, which is in it at most once *)
Without(seq, x) ==
  IF \E i \in DOMAIN seq : seq[i] = x
    THEN LET i == CHOOSE j \in DOMAIN seq : seq[j] = x
         IN  [j \in 1 .. Len(seq) - 1 |-> seq[IF j < i THEN j ELSE j + 1]]
    ELSE seq

Event == events < MaxEvents /\ events' = events + 1

-----------------------------------------------------------------------------
(* Frames: taken from the head of the free list and put back at its tail.  The *)
(* network queue is stopped and woken outside the list's lock.                 *)

(* rtw_os_check_wakup_queue(os_qid) *)
rtw_os_check_wakup_queue(q) == netq' = [netq EXCEPT ![q] = "on"]

-----------------------------------------------------------------------------
(* A sender: rtw_xmit, rtw_xmit_posthandle, pre_xmitframe *)

Goto(q, pc) == snd' = [snd EXCEPT ![q].pc = pc]

(* rtw_alloc_xmitframe; without a free frame the packet is dropped.  The frame at the *)
(* head of the list may be one that another process has freed and whose os_qid it is  *)
(* still to read: taking it gives it the os_qid of this queue.                        *)
rtw_alloc_xmitframe(q) ==
  /\ snd[q].pc = "idle" /\ netq[q] = "on" /\ ~stopped
  /\ free > 0 /\ free' = free - 1
  /\ LET taken == [snd EXCEPT ![q].pc = "count"] IN
     \/ snd' = taken /\ UNCHANGED <<tsk, events, misled>>
     \/ \E p \in Queues \ {q} :
          /\ snd[p].pc = "wake" /\ snd[p].os_qid # q
          /\ snd' = [taken EXCEPT ![p].os_qid = q]
          /\ misled' = TRUE /\ Event /\ UNCHANGED tsk
     \/ /\ tsk.pc \in {"wake", "dropWake", "aggWake"} /\ tsk.os_qid # q
        /\ tsk' = [tsk EXCEPT !.os_qid = q]
        /\ misled' = TRUE /\ Event /\ snd' = taken
  /\ UNCHANGED <<netq, queueVars, bufVars, sched, envVars, silent>>

(* update_attrib finds the station, or fails and the frame is freed. *)
update_attrib(q) ==
  \/ \E s \in Stas : /\ sta[s] = "assoc"
                     /\ snd' = [snd EXCEPT ![q].pc = "pre", ![q].sta = s]
  \/ (\A s \in Stas : sta[s] # "assoc") /\ Goto(q, "free")

(* Mutant: the queue is stopped one frame too late. *)
CheckStopLate(q) ==
  /\ snd[q].pc = "count"
  /\ IF free < StopAt THEN Goto(q, "stop") ELSE update_attrib(q)
  /\ UNCHANGED <<free, netq, queueVars, bufVars, sched, tsk, envVars, events, history>>

(* rtw_os_check_stop_queue: the count is tested, and the queue stopped in another step. *)
CheckStop(q) ==
  /\ snd[q].pc = "count"
  /\ IF free <= StopAt THEN Goto(q, "stop") ELSE update_attrib(q)
  /\ UNCHANGED <<free, netq, queueVars, bufVars, sched, tsk, envVars, events, history>>

StopQueue(q) ==
  /\ snd[q].pc = "stop"
  /\ netq' = [netq EXCEPT ![q] = "stopped"]
  /\ update_attrib(q)
  /\ UNCHANGED <<free, queueVars, bufVars, sched, tsk, envVars, events, history>>

(* Mutant: the result of rtw_alloc_xmitbuf is not tested. *)
MustQueueBlind(q, s) == (sta[s] = "assoc" /\ qcnt[s][q] > 0) \/ hold \in {"scan", "link"}

(* pre_xmitframe, under pxmitpriv->lock: reasons to queue the frame *)
MustQueue(q, s) ==
  \/ sta[s] = "assoc" /\ qcnt[s][q] > 0
  \/ hold \in {"scan", "link"}
  \/ bufs = 0

PreDirect(q) ==
  /\ snd[q].pc = "pre" /\ ~Locked
  /\ ~MustQueue(q, snd[q].sta)
  /\ bufs' = bufs - 1
  /\ Goto(q, "direct")
  /\ UNCHANGED <<free, netq, queueVars, urbs, ending, sched, tsk, envVars, events, history>>

(* rtw_xmit_classifier *)
PreEnqueue(q) ==
  LET s == snd[q].sta IN
  /\ snd[q].pc = "pre" /\ ~Locked
  /\ MustQueue(q, s)
  /\ \/ /\ sta[s] = "assoc"
        /\ qcnt' = [qcnt EXCEPT ![s][q] = @ + 1]
        /\ accnt' = [accnt EXCEPT ![q] = @ + 1]
        /\ sta_queue' = [sta_queue EXCEPT ![q] = IF qcnt[s][q] = 0 THEN Append(@, s) ELSE @]
        /\ snd' = [snd EXCEPT ![q] = Resting]
     \/ /\ sta[s] # "assoc"
        /\ snd' = [snd EXCEPT ![q] = [Resting EXCEPT !.pc = "free"]]
        /\ UNCHANGED queueVars
  /\ UNCHANGED <<free, netq, bufVars, sched, tsk, envVars, events, history>>

(* usb_submit_urb fails; -ENODEV stops the driver. *)
SubmitFails == ~stopped /\ ~Locked /\ Event /\ stopped' \in BOOLEAN

(* Mutant: a failed submission keeps the buffer. *)
NotWrittenLeaks ==
  /\ (stopped /\ UNCHANGED <<events, stopped>>) \/ SubmitFails
  /\ UNCHANGED <<bufs, urbs>>

(* usb_write_port, which takes pxmitpriv->lock to count: the URB is submitted, or the *)
(* buffer is given back.                                                              *)
Written == ~stopped /\ ~Locked /\ urbs' = urbs + 1 /\ UNCHANGED <<bufs, events, stopped>>
NotWritten ==
  /\ (stopped /\ UNCHANGED <<events, stopped>>) \/ SubmitFails
  /\ bufs' = bufs + 1 /\ UNCHANGED urbs

(* xmitframe_direct: a station that left, or a fault, makes coalescing fail. *)
Direct(q) ==
  /\ snd[q].pc = "direct"
  /\ snd' = [snd EXCEPT ![q] = [Resting EXCEPT !.pc = "free"]]
  /\ \/ Written /\ UNCHANGED silent
     \/ NotWritten /\ silent' = TRUE
     \/ /\ sta[snd[q].sta] # "assoc"
        /\ bufs' = bufs + 1 /\ silent' = TRUE /\ UNCHANGED <<urbs, events, stopped>>
  /\ UNCHANGED <<free, netq, queueVars, ending, sched, tsk, hold, resume, sta, misled>>

(* rtw_free_xmitframe *)
SenderFree(q) ==
  /\ snd[q].pc = "free"
  /\ free' = free + 1
  /\ snd' = [snd EXCEPT ![q].pc = "wake", ![q].os_qid = q]
  /\ UNCHANGED <<netq, queueVars, bufVars, sched, tsk, envVars, events, history>>

SenderWake(q) ==
  /\ snd[q].pc = "wake"
  /\ rtw_os_check_wakup_queue(snd[q].os_qid)
  /\ snd' = [snd EXCEPT ![q] = Resting]
  /\ UNCHANGED <<free, queueVars, bufVars, sched, tsk, envVars, events, history>>

Sender(q) ==
  \/ CheckStop(q) \/ StopQueue(q) \/ PreDirect(q) \/ PreEnqueue(q)
  \/ Direct(q) \/ SenderFree(q) \/ SenderWake(q)

-----------------------------------------------------------------------------
(* rtl8723du_xmit_tasklet, which runs rtl8723du_xmitframe_complete in a loop *)

At(pc) == tsk.pc = pc
TaskletTo(pc) == tsk' = [tsk EXCEPT !.pc = pc]

TaskletRun ==
  /\ At("idle") /\ sched
  /\ sched' = FALSE /\ TaskletTo("loop")
  /\ UNCHANGED <<free, netq, queueVars, bufVars, snd, envVars, events, history>>

(* RTW_CANNOT_TX and rtw_xmit_ac_blocked end the loop, and so does a lack of buffers *)
(* (rtw_alloc_xmitbuf).                                                             *)
TaskletAlloc ==
  /\ At("loop")
  /\ IF stopped \/ hold = "scan" \/ bufs = 0
       THEN TaskletTo("idle") /\ UNCHANGED bufs
       ELSE TaskletTo("dequeue") /\ bufs' = bufs - 1
  /\ UNCHANGED <<free, netq, queueVars, urbs, ending, snd, sched, envVars, events, history>>

(* The stations of queue q that have a frame to send, by their place in sta_queue *)
Servable(q) == {i \in DOMAIN sta_queue[q] : qcnt[sta_queue[q][i]][q] > 0}

(* The first frame of station s in queue q leaves the pending queue. *)
TakeHead(s, q) ==
  /\ qcnt' = [qcnt EXCEPT ![s][q] = @ - 1]
  /\ accnt' = [accnt EXCEPT ![q] = @ - 1]

(* rtw_dequeue_xframe: strict priority among the queues, service order within one *)
rtw_dequeue_xframe ==
  /\ At("dequeue")
  /\ \E q \in Queues : \E i \in Servable(q) :
       LET s == sta_queue[q][i] IN
       /\ \A p \in 1 .. q - 1 : Servable(p) = {}
       /\ \A j \in Servable(q) : i <= j
       /\ TakeHead(s, q)
       /\ sta_queue' = IF qcnt[s][q] = 1
                         THEN [sta_queue EXCEPT ![q] = Without(@, s)] ELSE sta_queue
       /\ tsk' = [Resting EXCEPT !.pc = "first", !.sta = s, !.q = q]
  /\ UNCHANGED <<free, netq, bufVars, snd, sched, envVars, events, history>>

(* No frame was found; the buffer goes back in a step of its own. *)
DequeueNothing ==
  /\ At("dequeue") /\ \A q \in Queues : Servable(q) = {}
  /\ TaskletTo("release")
  /\ UNCHANGED <<free, netq, queueVars, bufVars, snd, sched, envVars, events, history>>

Release ==
  /\ At("release")
  /\ bufs' = bufs + 1
  /\ tsk' = Resting
  /\ UNCHANGED <<free, netq, queueVars, urbs, ending, snd, sched, envVars, events, history>>

(* Mutant: a frame that cannot be coalesced is not freed. *)
CoalesceFirstLeaks ==
  /\ At("first")
  /\ \/ TaskletTo("agg") /\ UNCHANGED events
     \/ TaskletTo("dequeue") /\ ((sta[tsk.sta] # "assoc" /\ UNCHANGED events) \/ Event)
  /\ UNCHANGED <<free, netq, queueVars, bufVars, snd, sched, envVars, history>>

(* rtw_xmitframe_coalesce of the first frame: if it fails the next one is tried. *)
CoalesceFirst ==
  /\ At("first")
  /\ \/ TaskletTo("agg") /\ UNCHANGED events
     \/ TaskletTo("dropFree") /\ ((sta[tsk.sta] # "assoc" /\ UNCHANGED events) \/ Event)
  /\ UNCHANGED <<free, netq, queueVars, bufVars, snd, sched, envVars, history>>

(* Under the lock one more frame of the same station and queue is copied and freed; *)
(* the buffer takes any number of them.                                             *)
Aggregate ==
  /\ At("agg") /\ qcnt[tsk.sta][tsk.q] > 0
  /\ TakeHead(tsk.sta, tsk.q)
  /\ free' = free + 1
  /\ tsk' = [tsk EXCEPT !.pc = "aggWake", !.os_qid = tsk.q]
  /\ UNCHANGED <<netq, sta_queue, bufVars, snd, sched, envVars, events, history>>

AggregateWake ==
  /\ At("aggWake")
  /\ rtw_os_check_wakup_queue(tsk.os_qid)
  /\ tsk' = [tsk EXCEPT !.pc = "agg", !.os_qid = 0]
  /\ UNCHANGED <<free, queueVars, bufVars, snd, sched, envVars, events, history>>

(* Mutant: the station stays in sta_queue when aggregation took its last frame. *)
AggregateDoneKeeps ==
  /\ At("agg")
  /\ TaskletTo("write")
  /\ UNCHANGED <<free, netq, queueVars, bufVars, snd, sched, envVars, events, history>>

(* The station leaves sta_queue, or goes to its end for the others to be served. *)
AggregateDone ==
  /\ At("agg")
  /\ sta_queue' = [sta_queue EXCEPT ![tsk.q] =
                     IF qcnt[tsk.sta][tsk.q] = 0 THEN Without(@, tsk.sta)
                     ELSE IF Len(@) > 1 THEN Append(Without(@, tsk.sta), tsk.sta) ELSE @]
  /\ TaskletTo("write")
  /\ UNCHANGED <<free, netq, qcnt, accnt, bufVars, snd, sched, envVars, events,
                 history>>

TaskletWrite ==
  /\ At("write")
  /\ Written \/ NotWritten
  /\ TaskletTo("free")
  /\ UNCHANGED <<free, netq, queueVars, ending, snd, sched, hold, resume, sta, history>>

(* rtw_free_xmitframe of the first frame, sent or dropped *)
TaskletFree ==
  /\ At("free") \/ At("dropFree")
  /\ free' = free + 1
  /\ tsk' = [tsk EXCEPT !.pc = IF At("free") THEN "wake" ELSE "dropWake", !.os_qid = tsk.q]
  /\ UNCHANGED <<netq, queueVars, bufVars, snd, sched, envVars, events, history>>

TaskletWake ==
  /\ At("wake") \/ At("dropWake")
  /\ rtw_os_check_wakup_queue(tsk.os_qid)
  /\ tsk' = [Resting EXCEPT !.pc = IF At("wake") THEN "loop" ELSE "dequeue"]
  /\ UNCHANGED <<free, queueVars, bufVars, snd, sched, envVars, events, history>>

Tasklet ==
  \/ TaskletRun \/ TaskletAlloc \/ rtw_dequeue_xframe \/ DequeueNothing
  \/ Release \/ CoalesceFirst \/ Aggregate \/ AggregateWake \/ AggregateDone
  \/ TaskletWrite \/ TaskletFree \/ TaskletWake

-----------------------------------------------------------------------------
(* usb_write_port_complete: the buffer is free before the tasklet is scheduled.  A host *)
(* controller completes its URBs one after the other.  A URB that was shut down    *)
(* stops the driver, an unknown error counts as a removal (RTW_CANNOT_TX).             *)

UrbComplete ==
  /\ urbs > 0 /\ ~ending
  /\ urbs' = urbs - 1 /\ bufs' = bufs + 1 /\ ending' = TRUE
  /\ UNCHANGED <<stopped, events>> \/ (~stopped /\ stopped' = TRUE /\ Event)
  /\ UNCHANGED <<free, netq, queueVars, snd, sched, tsk, hold, resume, sta, history>>

UrbSchedule ==
  /\ ending
  /\ ending' = FALSE /\ sched' = TRUE /\ silent' = FALSE
  /\ UNCHANGED <<free, netq, queueVars, bufs, urbs, snd, tsk, envVars, events, misled>>

-----------------------------------------------------------------------------
(* Scans and joins hold transmission up; when one is over, and in a step of its own, *)
(* rtw_mi_os_xmit_schedule looks for pending frames under pxmitpriv->lock.           *)

HoldUp(why) ==
  /\ hold = "none" /\ ~resume /\ Event
  /\ hold' = why
  /\ UNCHANGED <<free, netq, queueVars, bufVars, snd, sched, tsk, resume, sta, stopped,
                 history>>

(* Mutant: the end of a scan does not call rtw_mi_os_xmit_schedule. *)
HoldOverQuiet ==
  /\ hold # "none"
  /\ hold' = "none" /\ resume' = (hold = "link")
  /\ UNCHANGED <<free, netq, queueVars, bufVars, snd, sched, tsk, sta, stopped, events,
                 history>>

(* Mutant: transmission is resumed only when nothing is pending. *)
HoldOverDrained ==
  /\ hold # "none" /\ \A q \in Queues : sta_queue[q] = <<>>
  /\ hold' = "none" /\ resume' = TRUE
  /\ UNCHANGED <<free, netq, queueVars, bufVars, snd, sched, tsk, sta, stopped, events,
                 history>>

HoldOver ==
  /\ hold # "none"
  /\ hold' = "none" /\ resume' = TRUE
  /\ UNCHANGED <<free, netq, queueVars, bufVars, snd, sched, tsk, sta, stopped, events, history>>

rtw_os_xmit_schedule ==
  /\ resume /\ ~Locked
  /\ resume' = FALSE
  /\ IF \E q \in Queues : sta_queue[q] # <<>>
       THEN sched' = TRUE /\ silent' = FALSE
       ELSE UNCHANGED <<sched, silent>>
  /\ UNCHANGED <<free, netq, queueVars, bufVars, snd, tsk, hold, sta, stopped, events, misled>>

-----------------------------------------------------------------------------
(* A station leaves (rtw_free_stainfo) and comes back *)

StaLeaves(s) ==
  /\ sta[s] = "assoc" /\ Event
  /\ sta' = [sta EXCEPT ![s] = "leaving"]
  /\ UNCHANGED <<free, netq, queueVars, bufVars, snd, sched, tsk, hold, resume, stopped,
                 history>>

(* Mutant: the queues of the frames that are freed are not woken. *)
StaFlushSilent(s) ==
  /\ sta[s] = "leaving" /\ ~Locked
  /\ free' = free + Total(qcnt[s], Queues)
  /\ accnt' = [q \in Queues |-> accnt[q] - qcnt[s][q]]
  /\ qcnt' = [qcnt EXCEPT ![s] = [q \in Queues |-> 0]]
  /\ sta_queue' = [q \in Queues |-> Without(sta_queue[q], s)]
  /\ sta' = [sta EXCEPT ![s] = "none"]
  /\ UNCHANGED <<netq, bufVars, snd, sched, tsk, hold, resume, stopped, events, history>>

(* Under pxmitpriv->lock the pending frames are freed and their queues woken             *)
(* (rtw_os_wake_queue_at_free_stainfo).                                                 *)
StaFlush(s) ==
  /\ sta[s] = "leaving" /\ ~Locked
  /\ free' = free + Total(qcnt[s], Queues)
  /\ netq' = [q \in Queues |-> IF qcnt[s][q] > 0 THEN "on" ELSE netq[q]]
  /\ accnt' = [q \in Queues |-> accnt[q] - qcnt[s][q]]
  /\ qcnt' = [qcnt EXCEPT ![s] = [q \in Queues |-> 0]]
  /\ sta_queue' = [q \in Queues |-> Without(sta_queue[q], s)]
  /\ sta' = [sta EXCEPT ![s] = "none"]
  /\ UNCHANGED <<bufVars, snd, sched, tsk, hold, resume, stopped, events, history>>

StaJoins(s) ==
  /\ sta[s] = "none" /\ ~stopped
  /\ sta' = [sta EXCEPT ![s] = "assoc"]
  /\ UNCHANGED <<free, netq, queueVars, bufVars, snd, sched, tsk, hold, resume, stopped,
                 events, history>>

(* The driver is stopped or the device is gone. *)
SetDrvStopped ==
  /\ ~stopped /\ Event
  /\ stopped' = TRUE
  /\ UNCHANGED <<free, netq, queueVars, bufVars, snd, sched, tsk, hold, resume, sta, history>>

Next ==
  \/ \E q \in Queues : rtw_alloc_xmitframe(q) \/ Sender(q)
  \/ Tasklet \/ UrbComplete \/ UrbSchedule
  \/ \E why \in {"scan", "link"} : HoldUp(why)
  \/ HoldOver \/ rtw_os_xmit_schedule
  \/ \E s \in Stas : StaLeaves(s) \/ StaFlush(s) \/ StaJoins(s)
  \/ SetDrvStopped

Spec == Init /\ [][Next]_vars

(* Every process goes on, the host controller completes every URB, a scan or a join ends. *)
Fairness ==
  /\ \A q \in Queues : WF_vars(Sender(q))
  /\ WF_vars(Tasklet) /\ WF_vars(UrbComplete) /\ WF_vars(UrbSchedule)
  /\ WF_vars(HoldOver) /\ WF_vars(rtw_os_xmit_schedule)
  /\ \A s \in Stas : WF_vars(StaFlush(s))

FairSpec == Spec /\ Fairness

-----------------------------------------------------------------------------
(* Types of the variables *)
TypeOK ==
  /\ free \in Nat /\ netq \in [Queues -> {"on", "stopped"}]
  /\ qcnt \in [Stas -> [Queues -> Nat]] /\ accnt \in [Queues -> Nat]
  /\ sta_queue \in [Queues -> Seq(Stas)]
  /\ bufs \in Nat /\ urbs \in Nat /\ ending \in BOOLEAN
  /\ \A q \in Queues :
       /\ snd[q].pc \in {"idle", "count", "stop", "pre", "direct", "free", "wake"}
       /\ snd[q].pc \in {"pre", "direct"} => snd[q].sta \in Stas
       /\ snd[q].pc = "wake" => snd[q].os_qid \in Queues
  /\ tsk.pc \in {"idle", "loop", "dequeue", "release", "first", "agg", "aggWake",
                  "write", "free", "wake", "dropFree", "dropWake"}
  /\ tsk.pc \in {"first", "agg", "aggWake", "write", "free", "wake", "dropFree", "dropWake"}
       => tsk.sta \in Stas /\ tsk.q \in Queues
  /\ hold \in {"none", "scan", "link"} /\ sta \in [Stas -> {"assoc", "leaving", "none"}]
  /\ sched \in BOOLEAN /\ resume \in BOOLEAN /\ stopped \in BOOLEAN
  /\ silent \in BOOLEAN /\ misled \in BOOLEAN
  /\ events \in 0 .. MaxEvents

(* Who has a frame in hand, and who a buffer *)
SendersWithFrame == {q \in Queues : snd[q].pc \notin {"idle", "wake"}}
SendersWithBuf == {q \in Queues : snd[q].pc = "direct"}
TaskletWithFrame == tsk.pc \in {"first", "agg", "aggWake", "write", "free", "dropFree"}
TaskletWithBuf ==
  tsk.pc \in {"dequeue", "release", "first", "agg", "aggWake", "write", "dropFree", "dropWake"}
One(b) == IF b THEN 1 ELSE 0

(* No frame is lost or freed twice, whoever of senders, the tasklet and                 *)
(* rtw_free_stainfo frees it and whatever fails on the way.                             *)
FramesConserved ==
  free + Total(accnt, Queues) + Cardinality(SendersWithFrame) + One(TaskletWithFrame) = NFrames

(* No transmit buffer is lost or given back twice: every failing path of pre_xmitframe, *)
(* rtl8723du_xmitframe_complete and usb_write_port frees exactly the one it holds.      *)
BufsConserved ==
  bufs + urbs + Cardinality(SendersWithBuf) + One(TaskletWithBuf) = NBufs

(* A station is on the service list of a queue exactly when it has frames pending       *)
(* there, and accnt is their number: dequeuing, aggregation, enqueuing in between and   *)
(* rtw_free_stainfo keep them together, so that no station's frames are forgotten.      *)
ListsAgree ==
  /\ \A q \in Queues : accnt[q] = Total([s \in Stas |-> qcnt[s][q]], Stas)
  /\ ~Locked =>
       \A q \in Queues, s \in Stas :
         Cardinality({i \in DOMAIN sta_queue[q] : sta_queue[q][i] = s}) = One(qcnt[s][q] > 0)

(* pre_xmitframe queues a frame and schedules nothing.  Unless the driver stopped or a  *)
(* buffer came back silently from a failed submission, somebody is still going to look  *)
(* at the pending queues: the tasklet, the completion of a URB, a sender about to       *)
(* submit one, or the end of the scan.                                                  *)
PendingIsCovered ==
  (\E s \in Stas, q \in Queues : qcnt[s][q] > 0) /\ ~stopped /\ hold = "none" /\ ~silent =>
    \/ sched \/ resume \/ urbs > 0 \/ ending
    \/ tsk.pc \notin {"idle", "release"}
    \/ \E q \in Queues : snd[q].pc = "direct"

(* A stopped network queue is woken again: one of its frames is still outstanding, and  *)
(* freeing that one wakes it.  (Unless a wake-up was misled by an os_qid that changed   *)
(* when the freed frame was taken again.)                                               *)
StoppedWillWake ==
  \A q \in Queues :
    netq[q] = "stopped" /\ ~misled =>
      \/ accnt[q] > 0 \/ snd[q].pc # "idle"
      \/ tsk.q = q /\ tsk.pc \notin {"idle", "loop"}

(* Stopping in time: though the count is tested and the queue stopped outside the lock, *)
(* a sender whose queue is on finds a free frame.  (StopAt is at least the number of    *)
(* queues; the code has 4 of each.)                                                     *)
NeverOutOfFrames ==
  \A q \in Queues : netq[q] = "on" /\ snd[q].pc = "idle" /\ ~misled => free > 0

(* When no more packets arrive everything goes out: in the end all frames are back in    *)
(* the free list and every network queue is on, though the frame queued last scheduled   *)
(* nothing, across scans, joins, departures and failed submissions (unless the driver    *)
(* stopped, a buffer came back silently, or a wake-up was misled).  While packets arrive *)
(* a frame can wait for ever: a direct send of any queue may take each buffer that is    *)
(* freed before the tasklet gets it.                                                     *)
EverythingGoesOut ==
  <>[](\A q \in Queues : snd[q].pc = "idle") =>
    <>[](stopped \/ silent \/ misled \/ (free = NFrames /\ \A q \in Queues : netq[q] = "on"))
=============================================================================
