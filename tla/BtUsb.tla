------------------------------- MODULE BtUsb -------------------------------
(***************************************************************************)
(* The Bluetooth half of the dongle: the USB transport of BT/rtk_bt.c.     *)
(*                                                                         *)
(* The HCI core opens, closes and flushes the adapter and sends command    *)
(* and ACL frames, one at a time.  USB power management suspends the       *)
(* interface (by itself when it is idle, or with the whole system) and     *)
(* resumes it; both run while the HCI core, the two work items (waker and  *)
(* work) and the URB completions go on.  tx_in_flight and                  *)
(* BTUSB_SUSPENDING, both under txlock, are the gate between senders and   *)
(* a suspend: a frame that meets a closed gate is anchored on "deferred"   *)
(* and the waker asks for a resume, which plays the deferred frames.       *)
(*                                                                         *)
(* Isochronous data is left out; btusb_work is there for the autopm        *)
(* reference it holds while a SCO connection exists.                       *)
(***************************************************************************)
EXTENDS Integers, FiniteSets

CONSTANTS
  Frames,      \* frames the HCI core sends: a socket buffer with its URB
  MaxFaults,   \* bound: usb_submit_urb calls that fail though the device is there
  MaxLeak      \* bound: failed transmissions after which no frame is sent

ASSUME FramesAssumption == IsFiniteSet(Frames)
ASSUME BoundAssumption == MaxFaults \in Nat /\ MaxLeak \in Nat

VARIABLES
  flags,         \* hdev->flags, data->flags and intf->needs_remote_wakeup
  urb,           \* where each frame is
  tx_in_flight,  \* data->tx_in_flight
  rx,            \* receive URBs in flight on intr_anchor and bulk_anchor
  pm,            \* the interface's power state and the control point of its callback
  auto,          \* the last suspend was an autosuspend (PM_EVENT_AUTO)
  usage,         \* the interface's autopm reference count
  op,            \* control point of the HCI core's open or close
  waker,         \* data->waker: "pending" when queued, "get" when it waits for the interface
  work,          \* data->work: likewise
  sco_num,       \* data->sco_num > 0
  gone,          \* "no", "yes": disconnected, "closed": and being closed for it
  freed,         \* btusb_disconnect freed data
  faults,        \* submissions that failed
  leak,          \* history: transmissions that failed after they were counted
  overlap        \* history: a close cleared the RUNNING bits between the test of
                 \* one and the submission that follows it in btusb_resume

txVars == <<urb, tx_in_flight, leak>>
pmVars == <<pm, auto>>
lifeVars == <<gone, freed>>
vars == <<flags, urb, tx_in_flight, rx, pm, auto, usage, op, waker, work, sco_num,
          gone, freed, faults, leak, overlap>>

Flags == {"HCI_UP", "HCI_RUNNING", "INTR_RUNNING", "BULK_RUNNING", "SUSPENDING",
          "DID_ISO_RESUME", "needs_remote_wakeup"}
Pipes == {"INTR_RUNNING", "BULK_RUNNING"}   \* each pipe is named by its bit
Idle == {}                                   \* of a work item: neither queued nor running

In(where) == {f \in Frames : urb[f] = where}
Moved(from, to) == [f \in Frames |-> IF urb[f] = from THEN to ELSE urb[f]]

Init ==
  /\ flags = {} /\ urb = [f \in Frames |-> "idle"] /\ tx_in_flight = 0
  /\ rx = [p \in Pipes |-> 0]
  /\ pm = "active" /\ auto = FALSE /\ usage = 0 /\ op = "none"
  /\ waker = Idle /\ work = Idle /\ sco_num = 0
  /\ gone = "no" /\ freed = FALSE /\ leak = 0 /\ overlap = FALSE /\ faults = 0

-----------------------------------------------------------------------------
(* The USB core: submissions, and the autopm reference count *)

CanSubmit == gone = "no" /\ pm # "suspended"

(* usb_submit_urb succeeds (ok) or fails *)
Submission(ok) ==
  /\ ok => CanSubmit
  /\ faults' = IF ok \/ ~CanSubmit THEN faults ELSE faults + 1
  /\ faults' <= MaxFaults

(* usb_autopm_get_interface took its reference; it returns once the interface is *)
(* active.  During a system sleep the runtime status stays active.               *)
GetReturns == pm = "active" \/ ~auto

(* The tasks that open and close the adapter are frozen during a system sleep. *)
Thawed == pm = "active" \/ auto

(* usb_kill_anchored_urbs on tx_anchor: every URB completes before it returns *)
KillTx ==
  /\ urb' = Moved("submitted", "idle")
  /\ tx_in_flight' = tx_in_flight - Cardinality(In("submitted"))
  /\ UNCHANGED leak

-----------------------------------------------------------------------------
(* btusb_send_frame and the completion of what it sent *)

Sending == In("counted") \union In("parked")

(* Mutant: the gate is tested without looking at BTUSB_SUSPENDING. *)
inc_tx_ungated(f) ==
  /\ op = "none" /\ {"HCI_UP", "HCI_RUNNING"} \subseteq flags
  /\ Sending = {} /\ urb[f] = "idle" /\ leak < MaxLeak
  /\ urb' = [urb EXCEPT ![f] = "counted"] /\ tx_in_flight' = tx_in_flight + 1
  /\ UNCHANGED <<flags, rx, pmVars, usage, op, waker, work, sco_num, lifeVars, faults,
                 leak, overlap>>

(* HCI_RUNNING is tested, the URB filled in; under txlock the frame is either *)
(* counted, or found to be too late.                                          *)
inc_tx(f) ==
  /\ op = "none" /\ {"HCI_UP", "HCI_RUNNING"} \subseteq flags
  /\ Sending = {} /\ urb[f] = "idle" /\ leak < MaxLeak
  /\ \/ /\ "SUSPENDING" \notin flags
        /\ urb' = [urb EXCEPT ![f] = "counted"] /\ tx_in_flight' = tx_in_flight + 1
     \/ /\ "SUSPENDING" \in flags
        /\ urb' = [urb EXCEPT ![f] = "parked"] /\ UNCHANGED tx_in_flight
  /\ UNCHANGED <<flags, rx, pmVars, usage, op, waker, work, sco_num, lifeVars, faults,
                 leak, overlap>>

(* The frame joins the deferred ones, and the waker is scheduled. *)
Defer(f) ==
  /\ urb[f] = "parked"
  /\ urb' = [urb EXCEPT ![f] = "deferred"]
  /\ waker' = waker \union {"pending"}
  /\ UNCHANGED <<flags, tx_in_flight, rx, pmVars, usage, op, work, sco_num, lifeVars,
                 faults, leak, overlap>>

(* The frame goes to the host controller; a failure leaves tx_in_flight as it is. *)
Transmit(f) ==
  /\ urb[f] = "counted"
  /\ \E ok \in BOOLEAN :
       /\ Submission(ok)
       /\ urb' = [urb EXCEPT ![f] = IF ok THEN "submitted" ELSE "idle"]
       /\ leak' = IF ok THEN leak ELSE leak + 1
  /\ UNCHANGED <<flags, tx_in_flight, rx, pmVars, usage, op, waker, work, sco_num,
                 lifeVars, overlap>>

(* Mutant: a completion after HCI_RUNNING was cleared returns before the count. *)
btusb_tx_complete_early(f) ==
  /\ urb[f] = "submitted"
  /\ urb' = [urb EXCEPT ![f] = "idle"]
  /\ tx_in_flight' = IF "HCI_RUNNING" \in flags THEN tx_in_flight - 1 ELSE tx_in_flight
  /\ UNCHANGED <<flags, rx, pmVars, usage, op, waker, work, sco_num, lifeVars, faults,
                 leak, overlap>>

btusb_tx_complete(f) ==
  /\ urb[f] = "submitted"
  /\ urb' = [urb EXCEPT ![f] = "idle"] /\ tx_in_flight' = tx_in_flight - 1
  /\ UNCHANGED <<flags, rx, pmVars, usage, op, waker, work, sco_num, lifeVars, faults,
                 leak, overlap>>

-----------------------------------------------------------------------------
(* Mutant: a URB is given back once more than it was submitted. *)
RxEndsTwice(p) ==
  /\ rx' = [rx EXCEPT ![p] = @ - 1]
  /\ \/ {"HCI_RUNNING", p} \subseteq flags /\ Submission(FALSE)
     \/ ~({"HCI_RUNNING", p} \subseteq flags) /\ UNCHANGED faults
  /\ UNCHANGED <<flags, txVars, pmVars, usage, op, waker, work, sco_num, lifeVars, overlap>>

(* btusb_intr_complete and btusb_bulk_complete.  A URB that is resubmitted stays *)
(* where it is; a killed one is taken off by the kill.                           *)
RxEnds(p) ==
  /\ rx[p] > 0
  /\ rx' = [rx EXCEPT ![p] = @ - 1]
  /\ \/ {"HCI_RUNNING", p} \subseteq flags /\ Submission(FALSE)
     \/ ~({"HCI_RUNNING", p} \subseteq flags) /\ UNCHANGED faults
  /\ UNCHANGED <<flags, txVars, pmVars, usage, op, waker, work, sco_num, lifeVars, overlap>>

-----------------------------------------------------------------------------
(* btusb_open.  The HCI core refuses to open a device that has HCI_UP set. *)

OpenStart ==
  /\ op = "none" /\ "HCI_UP" \notin flags /\ gone = "no" /\ Thawed
  /\ usage' = usage + 1 /\ op' = "open"
  /\ UNCHANGED <<flags, txVars, rx, pmVars, waker, work, sco_num, lifeVars, faults, overlap>>

(* Label failed: HCI_UP and needs_remote_wakeup, once set, stay set. *)
OpenFails(set) ==
  /\ flags' = (flags \union set) \ {"INTR_RUNNING", "HCI_RUNNING"}
  /\ usage' = usage - 1 /\ op' = "none"

(* The interface is awake, download_patch succeeded (ok) or failed; once the device *)
(* is gone usb_autopm_get_interface may fail and give its reference back itself.    *)
OpenAwake ==
  /\ op = "open" /\ GetReturns
  /\ \E ok \in BOOLEAN :
       /\ Submission(ok)
       /\ \/ /\ ok /\ op' = "openIntr"
             /\ flags' = flags \union {"needs_remote_wakeup", "HCI_UP", "HCI_RUNNING",
                                       "INTR_RUNNING"}
             /\ UNCHANGED usage
          \/ ~ok /\ OpenFails({"needs_remote_wakeup"})
          \/ gone # "no" /\ usage' = usage - 1 /\ op' = "none" /\ UNCHANGED flags
  /\ UNCHANGED <<txVars, rx, pmVars, waker, work, sco_num, lifeVars, overlap>>

OpenIntr ==
  /\ op = "openIntr"
  /\ \E ok \in BOOLEAN :
       /\ Submission(ok)
       /\ \/ /\ ok /\ op' = "openBulk" /\ rx' = [rx EXCEPT !["INTR_RUNNING"] = @ + 1]
             /\ UNCHANGED <<flags, usage>>
          \/ ~ok /\ OpenFails({}) /\ UNCHANGED rx
  /\ UNCHANGED <<txVars, pmVars, waker, work, sco_num, lifeVars, overlap>>

(* The first bulk URB; without it the interrupt URB is killed again. *)
OpenBulk ==
  /\ op = "openBulk"
  /\ \E ok \in BOOLEAN :
       /\ Submission(ok)
       /\ \/ /\ ok /\ op' = "openBulk2" /\ rx' = [rx EXCEPT !["BULK_RUNNING"] = @ + 1]
             /\ UNCHANGED <<flags, usage>>
          \/ ~ok /\ OpenFails({}) /\ rx' = [rx EXCEPT !["INTR_RUNNING"] = 0]
  /\ UNCHANGED <<txVars, pmVars, waker, work, sco_num, lifeVars, overlap>>

(* BTUSB_BULK_RUNNING and the second bulk URB, whose failure is ignored *)
OpenBulk2 ==
  /\ op = "openBulk2"
  /\ \E ok \in BOOLEAN :
       /\ Submission(ok)
       /\ rx' = [rx EXCEPT !["BULK_RUNNING"] = IF ok THEN @ + 1 ELSE @]
  /\ flags' = flags \union {"BULK_RUNNING"}
  /\ usage' = usage - 1 /\ op' = "none"
  /\ UNCHANGED <<txVars, pmVars, waker, work, sco_num, lifeVars, overlap>>

-----------------------------------------------------------------------------
(* Closing.  The HCI core clears HCI_UP, lets the sender finish, ends the SCO       *)
(* connections (btusb_notify), flushes, clears HCI_RUNNING and calls btusb_close.   *)

CoreClose ==
  /\ op = "none" /\ "HCI_UP" \in flags /\ Sending = {} /\ Thawed
  /\ flags' = flags \ {"HCI_UP"}
  /\ sco_num' = 0
  /\ work' = IF sco_num # 0 THEN work \union {"pending"} ELSE work
  /\ gone' = IF gone = "no" THEN "no" ELSE "closed"
  /\ op' = "flush"
  /\ UNCHANGED <<txVars, rx, pmVars, usage, waker, freed, faults, overlap>>

btusb_flush ==
  /\ op = "flush"
  /\ KillTx
  /\ flags' = flags \ {"HCI_RUNNING"}
  /\ op' = "cancelWork"
  /\ UNCHANGED <<rx, pmVars, usage, waker, work, sco_num, lifeVars, faults, overlap>>

(* cancel_work_sync(&data->work), which waits for a running btusb_work *)
CloseCancelWork ==
  /\ op = "cancelWork" /\ "get" \notin work
  /\ work' = Idle /\ op' = "cancelWaker"
  /\ UNCHANGED <<flags, txVars, rx, pmVars, usage, waker, sco_num, lifeVars, faults, overlap>>

(* Mutant: the waker is not cancelled. *)
CloseCancelNothing ==
  /\ op = "cancelWaker" /\ "get" \notin waker
  /\ op' = "clear"
  /\ UNCHANGED <<flags, txVars, rx, pmVars, usage, waker, work, sco_num, lifeVars, faults,
                 overlap>>

CloseCancelWaker ==
  /\ op = "cancelWaker" /\ "get" \notin waker
  /\ waker' = Idle /\ op' = "clear"
  /\ UNCHANGED <<flags, txVars, rx, pmVars, usage, work, sco_num, lifeVars, faults, overlap>>

CloseClear ==
  /\ op = "clear"
  /\ flags' = flags \ Pipes
  /\ overlap' = (overlap \/ pm \in {"submitIntr", "submitBulk"})
  /\ op' = "stop"
  /\ UNCHANGED <<txVars, rx, pmVars, usage, waker, work, sco_num, lifeVars, faults>>

(* btusb_stop_traffic, and the reference that clears needs_remote_wakeup *)
CloseStop ==
  /\ op = "stop"
  /\ rx' = [p \in Pipes |-> 0]
  /\ usage' = usage + 1 /\ op' = "awake"
  /\ UNCHANGED <<flags, txVars, pmVars, waker, work, sco_num, lifeVars, faults, overlap>>

(* needs_remote_wakeup is cleared, the deferred frames are scuttled. *)
CloseEnd ==
  /\ op = "awake" /\ GetReturns
  /\ flags' = flags \ {"needs_remote_wakeup"}
  /\ urb' = Moved("deferred", "idle")
  /\ usage' = usage - 1 /\ op' = "none"
  /\ UNCHANGED <<tx_in_flight, rx, pmVars, waker, work, sco_num, lifeVars, faults, leak,
                 overlap>>

-----------------------------------------------------------------------------
(* The work items, and the HCI core's notification that schedules one of them *)

(* A SCO connection came or went.  Events are handled while the interface is awake, *)
(* and mark it busy; what a system suspend leaves queued is handled later.          *)
btusb_notify ==
  /\ op = "none" /\ {"HCI_UP", "HCI_RUNNING"} \subseteq flags /\ GetReturns
  /\ sco_num' = 1 - sco_num
  /\ work' = work \union {"pending"}
  /\ UNCHANGED <<flags, txVars, rx, pmVars, usage, op, waker, lifeVars, faults, overlap>>

(* Mutant: the reference is given back whether or not it is held. *)
btusb_work_puts ==
  /\ work = {"pending"} /\ ~freed
  /\ \/ /\ sco_num > 0 /\ "DID_ISO_RESUME" \notin flags
        /\ usage' = usage + 1 /\ work' = {"get"}
        /\ UNCHANGED flags
     \/ /\ sco_num > 0 /\ "DID_ISO_RESUME" \in flags
        /\ work' = Idle /\ UNCHANGED <<flags, usage>>
     \/ /\ sco_num = 0
        /\ usage' = usage - 1
        /\ flags' = flags \ {"DID_ISO_RESUME"} /\ work' = Idle
  /\ UNCHANGED <<txVars, rx, pmVars, op, waker, sco_num, lifeVars, faults, overlap>>

btusb_work ==
  /\ work = {"pending"} /\ ~freed
  /\ \/ /\ sco_num > 0 /\ "DID_ISO_RESUME" \notin flags
        /\ usage' = usage + 1 /\ work' = {"get"}
        /\ UNCHANGED flags
     \/ /\ sco_num > 0 /\ "DID_ISO_RESUME" \in flags
        /\ work' = Idle /\ UNCHANGED <<flags, usage>>
     \/ /\ sco_num = 0
        /\ usage' = IF "DID_ISO_RESUME" \in flags THEN usage - 1 ELSE usage
        /\ flags' = flags \ {"DID_ISO_RESUME"} /\ work' = Idle
  /\ UNCHANGED <<txVars, rx, pmVars, op, waker, sco_num, lifeVars, faults, overlap>>

(* usb_autopm_get_interface returned; it may fail once the device is gone. *)
WorkAwake ==
  /\ "get" \in work /\ GetReturns
  /\ work' = work \ {"get"}
  /\ \/ flags' = flags \union {"DID_ISO_RESUME"} /\ UNCHANGED usage
     \/ gone # "no" /\ usage' = usage - 1 /\ UNCHANGED flags
  /\ UNCHANGED <<txVars, rx, pmVars, op, waker, sco_num, lifeVars, faults, overlap>>

(* Mutant: the waker does not ask for a resume. *)
btusb_waker_no_get ==
  /\ waker = {"pending"} /\ ~freed
  /\ waker' = Idle
  /\ UNCHANGED <<flags, txVars, rx, pmVars, usage, op, work, sco_num, lifeVars, faults, overlap>>

btusb_waker ==
  /\ waker = {"pending"} /\ ~freed
  /\ waker' = {"get"} /\ usage' = usage + 1
  /\ UNCHANGED <<flags, txVars, rx, pmVars, op, work, sco_num, lifeVars, faults, overlap>>

WakerAwake ==
  /\ "get" \in waker /\ GetReturns
  /\ waker' = waker \ {"get"} /\ usage' = usage - 1
  /\ UNCHANGED <<flags, txVars, rx, pmVars, op, work, sco_num, lifeVars, faults, overlap>>

-----------------------------------------------------------------------------
(* btusb_suspend.  The gate: an autosuspend is refused (-EBUSY) while frames are in *)
(* flight.  An autosuspend needs an unused interface on which nothing has happened  *)
(* for the autosuspend delay, hence no btusb_work just scheduled; a system suspend  *)
(* comes after the tasks that open and close the adapter are frozen.                *)
MaySuspend(a) ==
  IF a THEN usage = 0 /\ work = Idle ELSE op = "none"

SuspendGate(a) ==
  /\ pm = "active" /\ gone = "no" /\ MaySuspend(a)
  /\ ~(a /\ tx_in_flight # 0)
  /\ flags' = flags \union {"SUSPENDING"}
  /\ pm' = "cancel" /\ auto' = a
  /\ UNCHANGED <<txVars, rx, usage, op, waker, work, sco_num, lifeVars, faults, overlap>>

(* Mutant: the suspend waits for the waker too, which waits for the suspend. *)
SuspendCancelBoth ==
  /\ pm = "cancel" /\ "get" \notin work /\ "get" \notin waker
  /\ work' = Idle /\ pm' = "stop"
  /\ UNCHANGED <<flags, txVars, rx, auto, usage, op, waker, sco_num, lifeVars, faults, overlap>>

(* cancel_work_sync(&data->work) *)
SuspendCancel ==
  /\ pm = "cancel" /\ "get" \notin work
  /\ work' = Idle /\ pm' = "stop"
  /\ UNCHANGED <<flags, txVars, rx, auto, usage, op, waker, sco_num, lifeVars, faults, overlap>>

(* Mutant: the bulk URBs are not killed. *)
SuspendKeepsBulk ==
  /\ pm = "stop"
  /\ rx' = [rx EXCEPT !["INTR_RUNNING"] = 0] /\ pm' = "kill"
  /\ UNCHANGED <<flags, txVars, auto, usage, op, waker, work, sco_num, lifeVars, faults, overlap>>

(* btusb_stop_traffic *)
SuspendStop ==
  /\ pm = "stop"
  /\ rx' = [p \in Pipes |-> 0] /\ pm' = "kill"
  /\ UNCHANGED <<flags, txVars, auto, usage, op, waker, work, sco_num, lifeVars, faults, overlap>>

(* tx_anchor is killed, the callback returns. *)
SuspendKill ==
  /\ pm = "kill"
  /\ KillTx /\ pm' = "quiet"
  /\ UNCHANGED <<flags, rx, auto, usage, op, waker, work, sco_num, lifeVars, faults, overlap>>

(* The USB core flushes the endpoints and suspends the port. *)
PortSuspend ==
  /\ pm = "quiet"
  /\ KillTx /\ rx' = [p \in Pipes |-> 0] /\ pm' = "suspended"
  /\ UNCHANGED <<flags, auto, usage, op, waker, work, sco_num, lifeVars, faults, overlap>>

-----------------------------------------------------------------------------
(* btusb_resume: for a reference, at the end of a system sleep, or when the device *)
(* signals a remote wakeup                                                         *)

PortResume ==
  /\ pm = "suspended" /\ pm' = "testIntr"
  /\ UNCHANGED <<flags, txVars, rx, auto, usage, op, waker, work, sco_num, lifeVars, faults,
                 overlap>>

ResumeOnDemand == (auto => usage > 0) /\ PortResume

RemoteWakeup == auto /\ "needs_remote_wakeup" \in flags /\ PortResume

ResumeTest(p, test, submit, next) ==
  /\ pm = test
  /\ pm' = IF p \in flags THEN submit ELSE next
  /\ UNCHANGED <<flags, txVars, rx, auto, usage, op, waker, work, sco_num, lifeVars, faults,
                 overlap>>

(* The first of n submissions decides; a failure clears the bit and ends the resume. *)
ResumeSubmit(p, n, submit, next) ==
  /\ pm = submit
  /\ \E ok \in BOOLEAN, k \in 1 .. n :
       /\ Submission(ok /\ k = n)
       /\ \/ ok /\ pm' = next /\ rx' = [rx EXCEPT ![p] = @ + k] /\ UNCHANGED flags
          \/ ~ok /\ k = 1 /\ pm' = "failed" /\ flags' = flags \ {p} /\ UNCHANGED rx
  /\ UNCHANGED <<txVars, auto, usage, op, waker, work, sco_num, lifeVars, overlap>>

(* Mutant: the interrupt URB is not submitted again. *)
ResumeNoIntr ==
  \/ ResumeTest("INTR_RUNNING", "testIntr", "submitIntr", "testBulk")
  \/ ResumeTest("INTR_RUNNING", "submitIntr", "testBulk", "testBulk")

ResumeIntr ==
  \/ ResumeTest("INTR_RUNNING", "testIntr", "submitIntr", "testBulk")
  \/ ResumeSubmit("INTR_RUNNING", 1, "submitIntr", "testBulk")

ResumeBulk ==
  \/ ResumeTest("BULK_RUNNING", "testBulk", "submitBulk", "play")
  \/ ResumeSubmit("BULK_RUNNING", 2, "submitBulk", "play")

(* Under txlock: play_deferred, which counts every frame, those whose submission *)
(* fails too, and then the gate opens.                                           *)
ResumePlay ==
  /\ pm = "play"
  /\ \E bad \in SUBSET In("deferred") :
       /\ faults' = faults + Cardinality(bad) /\ faults' <= MaxFaults
       /\ urb' = [f \in Frames |-> IF f \in bad THEN "idle" ELSE Moved("deferred", "submitted")[f]]
       /\ leak' = leak + Cardinality(bad)
  /\ tx_in_flight' = tx_in_flight + Cardinality(In("deferred"))
  /\ flags' = flags \ {"SUSPENDING"}
  /\ work' = work \union {"pending"}
  /\ pm' = "active"
  /\ UNCHANGED <<rx, auto, usage, op, waker, sco_num, lifeVars, overlap>>

(* Label failed: the deferred frames are dropped, the gate opens. *)
ResumeFailed ==
  /\ pm = "failed"
  /\ urb' = Moved("deferred", "idle")
  /\ flags' = flags \ {"SUSPENDING"}
  /\ pm' = "active"
  /\ UNCHANGED <<tx_in_flight, rx, auto, usage, op, waker, work, sco_num, lifeVars, faults,
                 leak, overlap>>

-----------------------------------------------------------------------------
(* btusb_disconnect.  The USB core has resumed the interface, holds it awake and    *)
(* has ended its transfers; hci_unregister_dev closes the adapter if HCI_UP is set. *)

Unplug ==
  /\ gone = "no" /\ pm = "active"
  /\ gone' = "yes"
  /\ KillTx /\ rx' = [p \in Pipes |-> 0]
  /\ UNCHANGED <<flags, pmVars, usage, op, waker, work, sco_num, freed, faults, overlap>>

Free ==
  /\ gone # "no" /\ ~freed /\ op = "none" /\ "HCI_UP" \notin flags
  /\ freed' = TRUE
  /\ UNCHANGED <<flags, txVars, rx, pmVars, usage, op, waker, work, sco_num, gone, faults,
                 overlap>>

(* The dongle is plugged in again: new data, zeroed. *)
btusb_probe ==
  /\ freed /\ freed' = FALSE /\ gone' = "no"
  /\ flags' = {} /\ urb' = [f \in Frames |-> "idle"] /\ tx_in_flight' = 0
  /\ rx' = [p \in Pipes |-> 0]
  /\ pm' = "active" /\ auto' = FALSE /\ usage' = 0 /\ op' = "none"
  /\ waker' = Idle /\ work' = Idle /\ sco_num' = 0 /\ leak' = 0 /\ overlap' = FALSE
  /\ UNCHANGED faults

-----------------------------------------------------------------------------
Open == OpenStart \/ OpenAwake \/ OpenIntr \/ OpenBulk \/ OpenBulk2

btusb_close == CloseCancelWork \/ CloseCancelWaker \/ CloseClear \/ CloseStop \/ CloseEnd

Next ==
  \/ \E f \in Frames : inc_tx(f) \/ Defer(f) \/ Transmit(f) \/ btusb_tx_complete(f)
  \/ \E p \in Pipes : RxEnds(p)
  \/ Open \/ CoreClose \/ btusb_flush \/ btusb_close
  \/ btusb_notify \/ btusb_work \/ WorkAwake \/ btusb_waker \/ WakerAwake
  \/ \E a \in BOOLEAN : SuspendGate(a)
  \/ SuspendCancel \/ SuspendStop \/ SuspendKill \/ PortSuspend
  \/ ResumeOnDemand \/ RemoteWakeup \/ ResumeIntr \/ ResumeBulk \/ ResumePlay \/ ResumeFailed
  \/ Unplug \/ Free \/ btusb_probe

Spec == Init /\ [][Next]_vars

(* What was started goes on: the sender, an open or close, the work items, the        *)
(* callbacks of power management.  Nothing new has to be asked of the driver, no URB  *)
(* has to complete, and the device need not wake the host.  cancel_work_sync claims   *)
(* the item, so a btusb_work queued again and again does not outrun it.               *)
Fairness ==
  /\ \A f \in Frames : WF_vars(Defer(f)) /\ WF_vars(Transmit(f))
  /\ WF_vars(OpenAwake \/ OpenIntr \/ OpenBulk \/ OpenBulk2 \/ btusb_flush \/ btusb_close)
  /\ WF_vars(btusb_work) /\ WF_vars(WorkAwake) /\ WF_vars(btusb_waker) /\ WF_vars(WakerAwake)
  /\ SF_vars(SuspendCancel)
  /\ WF_vars(SuspendStop \/ SuspendKill \/ PortSuspend)
  /\ WF_vars(ResumeOnDemand \/ ResumeIntr \/ ResumeBulk \/ ResumePlay \/ ResumeFailed)

FairSpec == Spec /\ Fairness

-----------------------------------------------------------------------------
(* Types of the variables *)
TypeOK ==
  /\ flags \subseteq Flags
  /\ urb \in [Frames -> {"idle", "counted", "parked", "deferred", "submitted"}]
  /\ tx_in_flight \in Int /\ leak \in Nat /\ faults \in Nat /\ usage \in Int
  /\ rx \in [Pipes -> Nat]
  /\ pm \in {"active", "cancel", "stop", "kill", "quiet", "suspended", "testIntr",
             "submitIntr", "testBulk", "submitBulk", "play", "failed"}
  /\ op \in {"none", "open", "openIntr", "openBulk", "openBulk2", "flush", "cancelWork",
             "cancelWaker", "clear", "stop", "awake"}
  /\ waker \subseteq {"pending", "get"}
  /\ work \subseteq {"pending", "get"}
  /\ sco_num \in {0, 1} /\ gone \in {"no", "yes", "closed"}
  /\ auto \in BOOLEAN /\ freed \in BOOLEAN /\ overlap \in BOOLEAN

InFlight == In("counted") \union In("submitted")

(* tx_in_flight is what is in flight plus what failed: a completion, a kill and a     *)
(* replay of deferred frames keep the books, so it never goes negative; each failed   *)
(* submission leaves it one too high for good (btusb_send_frame, play_deferred).      *)
TxAccounting == tx_in_flight = Cardinality(InFlight) + leak

(* From the gate of an autosuspend to the replay at the end of the resume, no command *)
(* or ACL frame is with the host controller or on its way to it: whoever passed       *)
(* inc_tx is seen by btusb_suspend, whoever did not is deferred.                      *)
AutosuspendQuiet == auto /\ pm # "active" => InFlight = {}

(* Receive URBs neither multiply nor die out, over every sequence of open, failed     *)
(* open, suspend, resume, failed resume and close: there are never more than one      *)
(* interrupt and two bulk URBs, and as long as no submission failed, an adapter that  *)
(* is up and awake is listening on both pipes.  (The exception is a close in the      *)
(* middle of a resume: see overlap.)                                                  *)
RxSteady ==
  ~overlap =>
    /\ rx["INTR_RUNNING"] <= 1 /\ rx["BULK_RUNNING"] <= 2
    /\ {"HCI_UP", "HCI_RUNNING"} \subseteq flags /\ op = "none" /\ pm = "active"
       /\ gone = "no" /\ faults = 0
       => \A p \in Pipes : rx[p] > 0

(* From btusb_stop_traffic in a suspend to the end of the sleep no receive URB is     *)
(* submitted: not by a completion, not by an open that waits for the interface.       *)
SleepsWithoutRx == pm \in {"kill", "quiet", "suspended"} => \A p \in Pipes : rx[p] = 0

(* The autopm references: one for an open or close that asked for the interface, one  *)
(* for each work item that did, one that btusb_work keeps while DID_ISO_RESUME is set.*)
One(b) == IF b THEN 1 ELSE 0
UsageBalanced ==
  usage = One(op \in {"open", "openIntr", "openBulk", "openBulk2", "awake"})
          + One("get" \in waker) + One("get" \in work) + One("DID_ISO_RESUME" \in flags)

(* btusb_disconnect frees data after the HCI core closed the adapter: no work item    *)
(* is queued or runs then, and no URB is left that would complete into it.  (When the *)
(* adapter was down already nothing cancels the work item a resume has queued.)       *)
FreedIsQuiet ==
  freed /\ gone = "closed" =>
    /\ work = Idle /\ waker = Idle
    /\ In("idle") = Frames /\ \A p \in Pipes : rx[p] = 0

(* A deferred frame whose waker is scheduled leaves the deferred list: it is played,  *)
(* or dropped by a failed resume or a close.                                          *)
WakerDelivers ==
  \A f \in Frames :
    (urb[f] = "deferred" /\ "SUSPENDING" \in flags /\ waker # Idle)
      ~> urb[f] # "deferred"

(* An open and a close return, whatever suspend, resume and the work items they wait  *)
(* for are doing.                                                                     *)
OpenCloseReturns == (op # "none") ~> (op = "none")

=============================================================================
