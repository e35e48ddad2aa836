---------------------------- MODULE BtUsbProofs ----------------------------
(***************************************************************************)
(* Theorems about the Bluetooth USB transport, for every finite set of      *)
(* frames and any number of failing submissions.                            *)
(***************************************************************************)
EXTENDS BtUsb, FiniteSetTheorems, TLAPS

\* Every set of frames is finite, so that it can be counted.
LEMMA Countable ==
    ASSUME NEW S \in SUBSET Frames
    PROVE  IsFiniteSet(S) /\ Cardinality(S) \in Nat
BY FramesAssumption, FS_Subset, FS_CardinalityType

\* The frames that are at one place
LEMMA Places ==
    ASSUME NEW w
    PROVE  In(w) \in SUBSET Frames /\ Cardinality(In(w)) \in Nat
<1>1. In(w) \in SUBSET Frames
  BY DEF In
<1> QED BY <1>1, Countable

LEMMA TypeTx ==
    ASSUME TypeOK, NEW f \in Frames,
           inc_tx(f) \/ Defer(f) \/ Transmit(f) \/ btusb_tx_complete(f)
    PROVE  TypeOK'
<1> USE DEF TypeOK, pmVars, lifeVars
<1>1. CASE inc_tx(f)
  BY <1>1 DEF inc_tx
<1>2. CASE Defer(f)
  BY <1>2 DEF Defer
<1>3. CASE Transmit(f)
  BY <1>3 DEF Transmit, Submission
<1>4. CASE btusb_tx_complete(f)
  BY <1>4 DEF btusb_tx_complete
<1> QED BY <1>1, <1>2, <1>3, <1>4

LEMMA PipeNames ==
    /\ "INTR_RUNNING" \in Pipes /\ "BULK_RUNNING" \in Pipes
    /\ Pipes \subseteq Flags /\ "DID_ISO_RESUME" \in Flags
BY DEF Pipes, Flags

LEMMA TypeOpen ==
    ASSUME TypeOK, Open
    PROVE  TypeOK'
<1> USE DEF TypeOK, pmVars, lifeVars, txVars
<1>0. ASSUME NEW ok \in BOOLEAN, Submission(ok)
      PROVE  faults' \in Nat
  BY <1>0 DEF Submission
<1>f. ASSUME NEW set \in SUBSET Flags, OpenFails(set)
      PROVE  flags' \subseteq Flags /\ usage' \in Int /\ op' = "none"
  BY <1>f DEF OpenFails
<1>1. CASE OpenStart
  BY <1>1 DEF OpenStart
<1>2. CASE OpenAwake
  <2>1. {"needs_remote_wakeup"} \subseteq Flags
    BY DEF Flags
  <2>2. {"needs_remote_wakeup", "HCI_UP", "HCI_RUNNING", "INTR_RUNNING"} \subseteq Flags
    BY DEF Flags
  <2> QED BY <1>0, <1>f, <1>2, <2>1, <2>2 DEF OpenAwake
<1>3. CASE OpenIntr
  BY <1>0, <1>f, <1>3, PipeNames DEF OpenIntr
<1>4. CASE OpenBulk
  BY <1>0, <1>f, <1>4, PipeNames DEF OpenBulk
<1>5. CASE OpenBulk2
  BY <1>0, <1>5, PipeNames DEF OpenBulk2
<1> QED BY <1>1, <1>2, <1>3, <1>4, <1>5 DEF Open

\* A kill completes what is submitted.
LEMMA TypeKill ==
    ASSUME TypeOK, KillTx
    PROVE  /\ urb' \in [Frames -> {"idle", "counted", "parked", "deferred", "submitted"}]
           /\ tx_in_flight' \in Int /\ leak' \in Nat
<1>1. Cardinality(In("submitted")) \in Nat
  BY Places
<1> QED BY <1>1 DEF TypeOK, KillTx, Moved

LEMMA TypeClose ==
    ASSUME TypeOK, CoreClose \/ btusb_flush \/ btusb_close
    PROVE  TypeOK'
<1> USE DEF TypeOK, pmVars, lifeVars, txVars, Idle
<1>1. CASE CoreClose
  BY <1>1 DEF CoreClose
<1>2. CASE btusb_flush
  BY <1>2, TypeKill DEF btusb_flush
<1>3. CASE CloseCancelWork
  BY <1>3 DEF CloseCancelWork
<1>4. CASE CloseCancelWaker
  BY <1>4 DEF CloseCancelWaker
<1>5. CASE CloseClear
  BY <1>5 DEF CloseClear
<1>6. CASE CloseStop
  BY <1>6 DEF CloseStop
<1>7. CASE CloseEnd
  BY <1>7 DEF CloseEnd, Moved
<1> QED BY <1>1, <1>2, <1>3, <1>4, <1>5, <1>6, <1>7 DEF btusb_close

LEMMA TypeWork ==
    ASSUME TypeOK, btusb_notify \/ btusb_work \/ WorkAwake \/ btusb_waker \/ WakerAwake
    PROVE  TypeOK'
<1> USE DEF TypeOK, pmVars, lifeVars, txVars, Idle
<1>1. CASE btusb_notify
  BY <1>1 DEF btusb_notify
<1>2. CASE btusb_work
  <2>1. work' \subseteq {"pending", "get"} /\ usage' \in Int /\ flags' \subseteq Flags
    BY <1>2 DEF btusb_work
  <2> QED BY <1>2, <2>1 DEF btusb_work
<1>3. CASE WorkAwake
  <2>1. work' \subseteq {"pending", "get"} /\ usage' \in Int /\ flags' \subseteq Flags
    BY <1>3, PipeNames DEF WorkAwake
  <2> QED BY <1>3, <2>1 DEF WorkAwake
<1>4. CASE btusb_waker
  <2>1. waker' \subseteq {"pending", "get"} /\ usage' \in Int
    BY <1>4 DEF btusb_waker
  <2> QED BY <1>4, <2>1 DEF btusb_waker
<1>5. CASE WakerAwake
  BY <1>5 DEF WakerAwake
<1> QED BY <1>1, <1>2, <1>3, <1>4, <1>5

Suspend == (\E a \in BOOLEAN : SuspendGate(a)) \/ SuspendCancel \/ SuspendStop \/ SuspendKill
           \/ PortSuspend

LEMMA TypeSuspend ==
    ASSUME TypeOK, Suspend
    PROVE  TypeOK'
<1> USE DEF TypeOK, pmVars, lifeVars, txVars, Idle
<1>1. ASSUME NEW a \in BOOLEAN, SuspendGate(a) PROVE TypeOK'
  BY <1>1 DEF SuspendGate, Flags
<1>2. CASE SuspendCancel
  BY <1>2 DEF SuspendCancel
<1>3. CASE SuspendStop
  BY <1>3 DEF SuspendStop
<1>4. CASE SuspendKill
  BY <1>4, TypeKill DEF SuspendKill
<1>5. CASE PortSuspend
  BY <1>5, TypeKill DEF PortSuspend
<1> QED BY <1>1, <1>2, <1>3, <1>4, <1>5 DEF Suspend

Resume == ResumeOnDemand \/ RemoteWakeup \/ ResumeIntr \/ ResumeBulk \/ ResumePlay \/ ResumeFailed

\* The submissions of a resume
LEMMA TypeResumeSubmit ==
    ASSUME TypeOK, NEW p \in Pipes, NEW n \in {1, 2}, NEW submit, NEW next,
           next \in {"testBulk", "play"}, ResumeSubmit(p, n, submit, next)
    PROVE  TypeOK'
<1> USE DEF TypeOK, pmVars, lifeVars, txVars
<1>1. PICK ok \in BOOLEAN, k \in 1 .. n :
        /\ Submission(ok /\ k = n)
        /\ \/ ok /\ pm' = next /\ rx' = [rx EXCEPT ![p] = @ + k] /\ UNCHANGED flags
           \/ ~ok /\ k = 1 /\ pm' = "failed" /\ flags' = flags \ {p} /\ UNCHANGED rx
  BY DEF ResumeSubmit
<1>2. faults' \in Nat
  BY <1>1 DEF Submission
<1>3. rx' \in [Pipes -> Nat] /\ flags' \subseteq Flags
  BY <1>1
<1> QED BY <1>1, <1>2, <1>3 DEF ResumeSubmit

LEMMA TypeResume ==
    ASSUME TypeOK, Resume
    PROVE  TypeOK'
<1> USE DEF TypeOK, pmVars, lifeVars, txVars
<1>1. CASE ResumeOnDemand \/ RemoteWakeup
  BY <1>1 DEF ResumeOnDemand, RemoteWakeup, PortResume
<1>2. CASE ResumeIntr
  BY <1>2, TypeResumeSubmit, PipeNames DEF ResumeIntr, ResumeTest
<1>3. CASE ResumeBulk
  BY <1>3, TypeResumeSubmit, PipeNames DEF ResumeBulk, ResumeTest
<1>4. CASE ResumePlay
  <2>1. PICK bad \in SUBSET In("deferred") :
          /\ faults' = faults + Cardinality(bad)
          /\ urb' = [f \in Frames |-> IF f \in bad THEN "idle"
                                      ELSE Moved("deferred", "submitted")[f]]
          /\ leak' = leak + Cardinality(bad)
    BY <1>4 DEF ResumePlay
  <2>2. Cardinality(bad) \in Nat /\ Cardinality(In("deferred")) \in Nat
    BY Places, Countable
  <2>3. faults' \in Nat /\ leak' \in Nat /\ tx_in_flight' \in Int
    BY <1>4, <2>1, <2>2 DEF ResumePlay
  <2>4. urb' \in [Frames -> {"idle", "counted", "parked", "deferred", "submitted"}]
    BY <2>1 DEF Moved
  <2> QED BY <1>4, <2>3, <2>4 DEF ResumePlay
<1>5. CASE ResumeFailed
  BY <1>5 DEF ResumeFailed, Moved
<1> QED BY <1>1, <1>2, <1>3, <1>4, <1>5 DEF Resume

LEMMA TypeRest ==
    ASSUME TypeOK, (\E p \in Pipes : RxEnds(p)) \/ Unplug \/ Free \/ btusb_probe
    PROVE  TypeOK'
<1> USE DEF TypeOK, pmVars, lifeVars, txVars, Idle
<1>1. ASSUME NEW p \in Pipes, RxEnds(p) PROVE TypeOK'
  BY <1>1 DEF RxEnds, Submission
<1>2. CASE Unplug
  BY <1>2, TypeKill DEF Unplug
<1>3. CASE Free
  BY <1>3 DEF Free
<1>4. CASE btusb_probe
  <2>1. urb' \in [Frames -> {"idle", "counted", "parked", "deferred", "submitted"}]
        /\ rx' \in [Pipes -> Nat] /\ flags' \subseteq Flags
        /\ waker' \subseteq {"pending", "get"} /\ work' \subseteq {"pending", "get"}
    BY <1>4 DEF btusb_probe
  <2>2. auto' \in BOOLEAN /\ freed' \in BOOLEAN /\ overlap' \in BOOLEAN
    BY <1>4 DEF btusb_probe
  <2>3. /\ tx_in_flight' \in Int /\ leak' \in Nat /\ faults' \in Nat /\ usage' \in Int
        /\ sco_num' \in {0, 1}
    BY <1>4 DEF btusb_probe
  <2>4. pm' = "active" /\ op' = "none" /\ gone' = "no"
    BY <1>4 DEF btusb_probe
  <2> QED BY <2>1, <2>2, <2>3, <2>4
<1> QED BY <1>1, <1>2, <1>3, <1>4

\* The disjuncts of Next, grouped as the lemmas about them are.
LEMMA Groups ==
    ASSUME Next
    PROVE  \/ \E f \in Frames : inc_tx(f) \/ Defer(f) \/ Transmit(f) \/ btusb_tx_complete(f)
           \/ Open
           \/ CoreClose \/ btusb_flush \/ btusb_close
           \/ btusb_notify \/ btusb_work \/ WorkAwake \/ btusb_waker \/ WakerAwake
           \/ Suspend
           \/ Resume
           \/ (\E p \in Pipes : RxEnds(p)) \/ Unplug \/ Free \/ btusb_probe
BY DEF Next, Suspend, Resume

LEMMA TypeStep == TypeOK /\ [Next]_vars => TypeOK'
<1> SUFFICES ASSUME TypeOK, [Next]_vars PROVE TypeOK'
  OBVIOUS
<1>1. CASE UNCHANGED vars
  BY <1>1 DEF TypeOK, vars
<1>2. CASE Next
  BY <1>2, Groups, TypeTx, TypeOpen, TypeClose, TypeWork, TypeSuspend, TypeResume, TypeRest
<1> QED BY <1>1, <1>2

LEMMA TypeInit == Init => TypeOK
<1> SUFFICES ASSUME Init PROVE TypeOK
  OBVIOUS
<1>1. urb \in [Frames -> {"idle", "counted", "parked", "deferred", "submitted"}]
      /\ rx \in [Pipes -> Nat] /\ flags \subseteq Flags
      /\ waker \subseteq {"pending", "get"} /\ work \subseteq {"pending", "get"}
  BY DEF Init, Idle
<1>2. auto \in BOOLEAN /\ freed \in BOOLEAN /\ overlap \in BOOLEAN
  BY DEF Init
<1>3. tx_in_flight \in Int /\ leak \in Nat /\ faults \in Nat /\ usage \in Int /\ sco_num \in {0, 1}
  BY DEF Init
<1>4. pm = "active" /\ op = "none" /\ gone = "no"
  BY DEF Init
<1> QED BY <1>1, <1>2, <1>3, <1>4 DEF TypeOK

\* The variables of the Bluetooth transport keep their types.
THEOREM TypeCorrect == Spec => []TypeOK
BY TypeInit, TypeStep, PTL DEF Spec

-----------------------------------------------------------------------------
(* The books of tx_in_flight *)

\* Whoever leaves the frames alone leaves the books alone.
LEMMA Unmoved ==
    ASSUME UNCHANGED txVars
    PROVE  InFlight' = InFlight /\ (TxAccounting => TxAccounting')
<1>1. InFlight' = InFlight
  BY DEF txVars, InFlight, In
<1> QED BY <1>1 DEF TxAccounting, txVars

\* What is in flight, in two parts that have nothing in common
LEMMA TwoParts ==
    ASSUME TypeOK
    PROVE  /\ InFlight \in SUBSET Frames
           /\ Cardinality(InFlight) = Cardinality(In("counted")) + Cardinality(In("submitted"))
<1>1. In("counted") \intersect In("submitted") = {}
  BY DEF In
<1>2. IsFiniteSet(In("counted")) /\ IsFiniteSet(In("submitted"))
  BY Places, Countable
<1>3. InFlight = In("counted") \union In("submitted")
  BY DEF InFlight
<1>4. Cardinality(In("counted") \union In("submitted"))
        = Cardinality(In("counted")) + Cardinality(In("submitted"))
          - Cardinality(In("counted") \intersect In("submitted"))
  BY <1>2, FS_Union
<1>5. Cardinality(In("counted") \intersect In("submitted")) = 0
  BY <1>1, FS_EmptySet
<1> QED BY <1>3, <1>4, <1>5, Places

\* A kill takes off the books what it completes.
LEMMA KillBooks ==
    ASSUME TypeOK, TxAccounting, KillTx
    PROVE  TxAccounting' /\ InFlight' \subseteq InFlight
<1>1. InFlight' = In("counted")
  BY DEF KillTx, Moved, InFlight, In
<1>2. Cardinality(InFlight) = Cardinality(In("counted")) + Cardinality(In("submitted"))
  BY TwoParts
<1>3. Cardinality(In("counted")) \in Nat /\ Cardinality(In("submitted")) \in Nat
  BY Places
<1>4. leak' = leak /\ tx_in_flight' = tx_in_flight - Cardinality(In("submitted"))
  BY DEF KillTx
<1>5. TxAccounting'
  BY <1>1, <1>2, <1>3, <1>4 DEF TxAccounting, TypeOK
<1> QED BY <1>1, <1>5 DEF InFlight

\* Dropping the deferred frames does not touch what is in flight.
LEMMA ScuttleBooks ==
    ASSUME TypeOK, TxAccounting, urb' = Moved("deferred", "idle"), UNCHANGED <<tx_in_flight, leak>>
    PROVE  TxAccounting' /\ InFlight' = InFlight
<1>1. InFlight' = InFlight
  BY DEF Moved, InFlight, In, TypeOK
<1> QED BY <1>1 DEF TxAccounting

\* Sending and completing one frame
LEMMA SendBooks ==
    ASSUME TypeOK, TxAccounting, NEW f \in Frames,
           inc_tx(f) \/ Defer(f) \/ Transmit(f) \/ btusb_tx_complete(f)
    PROVE  TxAccounting'
<1> DEFINE c == Cardinality(InFlight)
<1>1. InFlight \in SUBSET Frames /\ IsFiniteSet(InFlight) /\ c \in Nat
  BY TwoParts, Countable
<1>2. ASSUME f \notin InFlight
      PROVE  Cardinality(InFlight \union {f}) = c + 1
  BY <1>1, <1>2, FS_AddElement
<1>3. ASSUME f \in InFlight
      PROVE  Cardinality(InFlight \ {f}) = c - 1
  BY <1>1, <1>3, FS_RemoveElement
<1>4. CASE inc_tx(f)
  <2>1. f \notin InFlight
    BY <1>4 DEF inc_tx, InFlight, In
  <2>2. CASE "SUSPENDING" \notin flags
    <3>1. InFlight' = InFlight \union {f}
      BY <1>4, <2>2 DEF inc_tx, InFlight, In, TypeOK
    <3>2. tx_in_flight' = tx_in_flight + 1 /\ leak' = leak
      BY <1>4, <2>2 DEF inc_tx
    <3> QED BY <1>1, <1>2, <2>1, <3>1, <3>2 DEF TxAccounting, TypeOK
  <2>3. CASE "SUSPENDING" \in flags
    <3>1. InFlight' = InFlight
      BY <1>4, <2>3 DEF inc_tx, InFlight, In, TypeOK
    <3>2. tx_in_flight' = tx_in_flight /\ leak' = leak
      BY <1>4, <2>3 DEF inc_tx
    <3> QED BY <3>1, <3>2 DEF TxAccounting
  <2> QED BY <2>2, <2>3
<1>5. CASE Defer(f)
  <2>1. InFlight' = InFlight
    BY <1>5 DEF Defer, InFlight, In, TypeOK
  <2> QED BY <1>5, <2>1 DEF Defer, TxAccounting
<1>6. CASE Transmit(f)
  <2>1. PICK ok \in BOOLEAN : /\ urb' = [urb EXCEPT ![f] = IF ok THEN "submitted" ELSE "idle"]
                             /\ leak' = IF ok THEN leak ELSE leak + 1
    BY <1>6 DEF Transmit
  <2>2. f \in InFlight /\ tx_in_flight' = tx_in_flight
    BY <1>6 DEF Transmit, InFlight, In
  <2>3. CASE ok
    <3>1. InFlight' = InFlight
      BY <1>6, <2>1, <2>3 DEF Transmit, InFlight, In, TypeOK
    <3> QED BY <2>1, <2>2, <2>3, <3>1 DEF TxAccounting
  <2>4. CASE ~ok
    <3>1. InFlight' = InFlight \ {f}
      BY <1>6, <2>1, <2>4 DEF Transmit, InFlight, In, TypeOK
    <3>2. Cardinality(InFlight') = c - 1 /\ leak' = leak + 1
      BY <1>3, <2>1, <2>2, <2>4, <3>1
    <3> QED BY <1>1, <2>2, <3>2 DEF TxAccounting, TypeOK
  <2> QED BY <2>3, <2>4
<1>7. CASE btusb_tx_complete(f)
  <2>1. f \in InFlight
    BY <1>7 DEF btusb_tx_complete, InFlight, In
  <2>2. InFlight' = InFlight \ {f}
    BY <1>7 DEF btusb_tx_complete, InFlight, In, TypeOK
  <2>3. tx_in_flight' = tx_in_flight - 1 /\ leak' = leak
    BY <1>7 DEF btusb_tx_complete
  <2> QED BY <1>1, <1>3, <2>1, <2>2, <2>3 DEF TxAccounting, TypeOK
<1> QED BY <1>4, <1>5, <1>6, <1>7

\* play_deferred counts every deferred frame, the ones that fail included.
LEMMA PlayBooks ==
    ASSUME TypeOK, TxAccounting, ResumePlay
    PROVE  TxAccounting'
<1> DEFINE D == In("deferred")
<1>1. PICK bad \in SUBSET D :
        /\ urb' = [f \in Frames |-> IF f \in bad THEN "idle"
                                    ELSE Moved("deferred", "submitted")[f]]
        /\ leak' = leak + Cardinality(bad)
  BY DEF ResumePlay
<1>2. tx_in_flight' = tx_in_flight + Cardinality(D)
  BY DEF ResumePlay
<1>3. InFlight' = InFlight \union (D \ bad)
  BY <1>1 DEF Moved, InFlight, In, TypeOK
<1>4. InFlight \intersect (D \ bad) = {} /\ D \intersect bad = bad
  BY DEF InFlight, In
<1>5. D \in SUBSET Frames /\ bad \in SUBSET Frames /\ D \ bad \in SUBSET Frames
      /\ InFlight \in SUBSET Frames
  BY Places, TwoParts
<1>6. /\ IsFiniteSet(D) /\ IsFiniteSet(bad) /\ IsFiniteSet(D \ bad) /\ IsFiniteSet(InFlight)
      /\ Cardinality(D) \in Nat /\ Cardinality(bad) \in Nat /\ Cardinality(D \ bad) \in Nat
      /\ Cardinality(InFlight) \in Nat
  BY <1>5, Countable
<1>7. Cardinality(D \ bad) = Cardinality(D) - Cardinality(bad)
  BY <1>4, <1>6, FS_Difference
<1>8. Cardinality(InFlight \union (D \ bad))
        = Cardinality(InFlight) + Cardinality(D \ bad) - Cardinality(InFlight \intersect (D \ bad))
  BY <1>6, FS_Union
<1>9. Cardinality(InFlight \intersect (D \ bad)) = 0
  BY <1>4, FS_EmptySet
<1> QED BY <1>1, <1>2, <1>3, <1>6, <1>7, <1>8, <1>9 DEF TxAccounting, TypeOK

\* The steps that leave the frames alone
LEMMA FramesAlone ==
    ASSUME \/ Open \/ CoreClose \/ (btusb_close /\ ~CloseEnd)
           \/ btusb_notify \/ btusb_work \/ WorkAwake \/ btusb_waker \/ WakerAwake
           \/ (\E a \in BOOLEAN : SuspendGate(a)) \/ SuspendCancel \/ SuspendStop
           \/ ResumeOnDemand \/ RemoteWakeup \/ ResumeIntr \/ ResumeBulk
           \/ (\E p \in Pipes : RxEnds(p)) \/ Free
    PROVE  UNCHANGED txVars
<1>1. CASE Open \/ CoreClose \/ (btusb_close /\ ~CloseEnd)
  BY <1>1 DEF Open, OpenStart, OpenAwake, OpenIntr, OpenBulk, OpenBulk2, CoreClose, btusb_close,
     CloseCancelWork, CloseCancelWaker, CloseClear, CloseStop
<1>2. CASE btusb_notify \/ btusb_work \/ WorkAwake \/ btusb_waker \/ WakerAwake
  BY <1>2 DEF btusb_notify, btusb_work, WorkAwake, btusb_waker, WakerAwake
<1>3. CASE (\E a \in BOOLEAN : SuspendGate(a)) \/ SuspendCancel \/ SuspendStop
  BY <1>3 DEF SuspendGate, SuspendCancel, SuspendStop
<1>4. CASE ResumeOnDemand \/ RemoteWakeup \/ ResumeIntr \/ ResumeBulk
  BY <1>4 DEF ResumeOnDemand, RemoteWakeup, PortResume, ResumeIntr, ResumeBulk, ResumeTest,
     ResumeSubmit
<1>5. CASE (\E p \in Pipes : RxEnds(p)) \/ Free
  BY <1>5 DEF RxEnds, Free
<1> QED BY <1>1, <1>2, <1>3, <1>4, <1>5

LEMMA BooksStep ==
    ASSUME TypeOK, TxAccounting, [Next]_vars
    PROVE  TxAccounting'
<1>1. CASE UNCHANGED vars
  <2>1. UNCHANGED txVars
    BY <1>1 DEF vars, txVars
  <2> QED BY <2>1, Unmoved
<1>2. CASE \E f \in Frames : inc_tx(f) \/ Defer(f) \/ Transmit(f) \/ btusb_tx_complete(f)
  BY <1>2, SendBooks
<1>3. CASE btusb_flush \/ SuspendKill \/ PortSuspend \/ Unplug
  <2>1. KillTx
    BY <1>3 DEF btusb_flush, SuspendKill, PortSuspend, Unplug
  <2> QED BY <2>1, KillBooks
<1>4. CASE CloseEnd \/ ResumeFailed
  <2>1. urb' = Moved("deferred", "idle") /\ UNCHANGED <<tx_in_flight, leak>>
    BY <1>4 DEF CloseEnd, ResumeFailed
  <2> QED BY <2>1, ScuttleBooks
<1>5. CASE ResumePlay
  BY <1>5, PlayBooks
<1>6. CASE btusb_probe
  <2>1. InFlight' = {}
    BY <1>6 DEF btusb_probe, InFlight, In
  <2> QED BY <1>6, <2>1, FS_EmptySet DEF btusb_probe, TxAccounting
<1>7. ASSUME UNCHANGED txVars PROVE TxAccounting'
  BY <1>7, Unmoved
<1> QED BY <1>1, <1>2, <1>3, <1>4, <1>5, <1>6, <1>7, Groups, FramesAlone
        DEF Suspend, Resume, btusb_close

LEMMA BooksInit == Init => TxAccounting
<1> SUFFICES ASSUME Init PROVE TxAccounting
  OBVIOUS
<1>1. InFlight = {} /\ tx_in_flight = 0 /\ leak = 0
  BY DEF Init, InFlight, In
<1> QED BY <1>1, FS_EmptySet DEF TxAccounting

\* tx_in_flight counts what is in flight and every submission that failed, whatever
\* the order of sends, completions, kills, replays and failures.
THEOREM TxAccountingHolds == Spec => []TxAccounting
<1>1. TypeOK /\ TxAccounting /\ [Next]_vars => (TypeOK /\ TxAccounting)'
  BY TypeStep, BooksStep
<1> QED BY <1>1, TypeInit, BooksInit, PTL DEF Spec

-----------------------------------------------------------------------------
(* The gate *)

\* The gate is closed from the first step of a suspend to the last of the resume.
GateClosed == pm # "active" => "SUSPENDING" \in flags

\* What makes AutosuspendQuiet inductive: the gate and the books.
QuietInv == TypeOK /\ TxAccounting /\ GateClosed /\ AutosuspendQuiet

\* Outside suspend and resume the power state stays and the gate stays closed.
LEMMA GateKept ==
    ASSUME TypeOK, Next, ~Suspend, ~Resume, ~btusb_probe
    PROVE  UNCHANGED pmVars /\ ("SUSPENDING" \in flags => "SUSPENDING" \in flags')
<1>1. CASE \E f \in Frames : inc_tx(f) \/ Defer(f) \/ Transmit(f) \/ btusb_tx_complete(f)
  BY <1>1 DEF inc_tx, Defer, Transmit, btusb_tx_complete
<1>2. CASE Open
  BY <1>2 DEF Open, OpenStart, OpenAwake, OpenIntr, OpenBulk, OpenBulk2, OpenFails
<1>3. CASE CoreClose \/ btusb_flush \/ btusb_close
  BY <1>3 DEF CoreClose, btusb_flush, btusb_close, CloseCancelWork, CloseCancelWaker, CloseClear,
     CloseStop, CloseEnd, Pipes
<1>4. CASE btusb_notify \/ btusb_work \/ WorkAwake \/ btusb_waker \/ WakerAwake
  BY <1>4 DEF btusb_notify, btusb_work, WorkAwake, btusb_waker, WakerAwake
<1>5. CASE (\E p \in Pipes : RxEnds(p)) \/ Unplug \/ Free
  BY <1>5 DEF RxEnds, Unplug, Free
<1> QED BY <1>1, <1>2, <1>3, <1>4, <1>5, Groups

LEMMA GateStep ==
    ASSUME TypeOK, GateClosed, Next
    PROVE  GateClosed'
<1>1. CASE Suspend
  BY <1>1 DEF Suspend, SuspendGate, SuspendCancel, SuspendStop, SuspendKill, PortSuspend, GateClosed
<1>2. CASE ResumeOnDemand \/ RemoteWakeup \/ ResumePlay \/ ResumeFailed
  BY <1>2 DEF ResumeOnDemand, RemoteWakeup, PortResume, ResumePlay, ResumeFailed, GateClosed
<1>3. CASE ResumeIntr \/ ResumeBulk
  BY <1>3 DEF ResumeIntr, ResumeBulk, ResumeTest, ResumeSubmit, GateClosed
<1>4. CASE btusb_probe
  BY <1>4 DEF btusb_probe, GateClosed
<1>5. CASE ~Suspend /\ ~Resume /\ ~btusb_probe
  BY <1>5, GateKept DEF GateClosed, pmVars
<1> QED BY <1>1, <1>2, <1>3, <1>4, <1>5 DEF Resume

LEMMA QuietStep ==
    ASSUME QuietInv, Next
    PROVE  AutosuspendQuiet'
<1> USE DEF QuietInv
<1>1. CASE \E f \in Frames : inc_tx(f) \/ Defer(f) \/ Transmit(f) \/ btusb_tx_complete(f)
  <2> PICK f \in Frames : inc_tx(f) \/ Defer(f) \/ Transmit(f) \/ btusb_tx_complete(f)
    BY <1>1
  <2>1. UNCHANGED pmVars
    BY DEF inc_tx, Defer, Transmit, btusb_tx_complete
  <2>2. CASE pm = "active"
    BY <2>1, <2>2 DEF pmVars, AutosuspendQuiet
  <2>3. CASE pm # "active"
    <3>1. "SUSPENDING" \in flags
      BY <2>3 DEF GateClosed
    <3>2. InFlight' \subseteq InFlight
      BY <3>1 DEF inc_tx, Defer, Transmit, btusb_tx_complete, InFlight, In, TypeOK
    <3> QED BY <2>1, <3>2 DEF pmVars, AutosuspendQuiet
  <2> QED BY <2>2, <2>3
<1>2. CASE btusb_flush \/ SuspendKill \/ PortSuspend \/ Unplug
  <2>1. KillTx /\ auto' = auto /\ (pm = "active" => pm' = "active")
    BY <1>2 DEF btusb_flush, SuspendKill, PortSuspend, Unplug, pmVars
  <2>2. InFlight' \subseteq InFlight
    BY <2>1, KillBooks
  <2> QED BY <2>1, <2>2 DEF AutosuspendQuiet
<1>3. CASE CloseEnd
  <2>1. InFlight' = InFlight
    BY <1>3, ScuttleBooks DEF CloseEnd
  <2> QED BY <1>3, <2>1 DEF CloseEnd, pmVars, AutosuspendQuiet
<1>4. CASE ResumePlay \/ ResumeFailed \/ btusb_probe
  <2>1. pm' = "active"
    BY <1>4 DEF ResumePlay, ResumeFailed, btusb_probe
  <2> QED BY <2>1 DEF AutosuspendQuiet
<1>5. ASSUME NEW a \in BOOLEAN, SuspendGate(a)
      PROVE  AutosuspendQuiet'
  <2>1. InFlight' = InFlight /\ auto' = a
    BY <1>5, Unmoved DEF SuspendGate
  <2>2. ASSUME a PROVE InFlight = {}
    <3>1. tx_in_flight = 0
      BY <1>5, <2>2 DEF SuspendGate
    <3>2. IsFiniteSet(InFlight) /\ Cardinality(InFlight) \in Nat
      BY TwoParts, Countable
    <3>3. Cardinality(InFlight) = 0
      BY <3>1, <3>2 DEF TxAccounting, TypeOK
    <3> QED BY <3>2, <3>3, FS_EmptySet
  <2> QED BY <2>1, <2>2 DEF AutosuspendQuiet
<1>6. CASE SuspendCancel \/ SuspendStop \/ ResumeOnDemand \/ RemoteWakeup \/ ResumeIntr \/ ResumeBulk
  <2>1. InFlight' = InFlight
    BY <1>6, FramesAlone, Unmoved
  <2>2. auto' = auto /\ pm # "active"
    BY <1>6 DEF SuspendCancel, SuspendStop, ResumeOnDemand, RemoteWakeup, PortResume, ResumeIntr,
       ResumeBulk, ResumeTest, ResumeSubmit
  <2> QED BY <2>1, <2>2 DEF AutosuspendQuiet
<1>7. CASE \/ Open \/ CoreClose \/ (btusb_close /\ ~CloseEnd)
           \/ btusb_notify \/ btusb_work \/ WorkAwake \/ btusb_waker \/ WakerAwake
           \/ (\E p \in Pipes : RxEnds(p)) \/ Free
  <2>1. InFlight' = InFlight
    BY <1>7, FramesAlone, Unmoved
  <2>2. UNCHANGED pmVars
    BY <1>7 DEF Open, OpenStart, OpenAwake, OpenIntr, OpenBulk, OpenBulk2, CoreClose, btusb_close,
       CloseCancelWork, CloseCancelWaker, CloseClear, CloseStop, btusb_notify, btusb_work,
       WorkAwake, btusb_waker, WakerAwake, RxEnds, Free
  <2> QED BY <2>1, <2>2 DEF AutosuspendQuiet, pmVars
<1> QED BY <1>1, <1>2, <1>3, <1>4, <1>5, <1>6, <1>7, Groups DEF Suspend, Resume, btusb_close

\* From the gate of an autosuspend to the end of the resume, no command or ACL frame
\* is in flight or about to be submitted.
THEOREM AutosuspendIsQuiet == Spec => []AutosuspendQuiet
<1>1. Init => QuietInv
  BY TypeInit, BooksInit DEF Init, QuietInv, GateClosed, AutosuspendQuiet
<1>2. QuietInv /\ [Next]_vars => QuietInv'
  <2> SUFFICES ASSUME QuietInv, [Next]_vars PROVE QuietInv'
    OBVIOUS
  <2>1. CASE Next
    BY <2>1, TypeStep, BooksStep, GateStep, QuietStep DEF QuietInv
  <2>2. CASE UNCHANGED vars
    <3>1. InFlight' = InFlight /\ TxAccounting' /\ TypeOK'
      BY <2>2, Unmoved, TypeStep DEF vars, txVars, QuietInv
    <3> QED BY <2>2, <3>1 DEF vars, QuietInv, GateClosed, AutosuspendQuiet
  <2> QED BY <2>1, <2>2
<1>3. QuietInv => AutosuspendQuiet
  BY DEF QuietInv
<1> QED BY <1>1, <1>2, <1>3, PTL DEF Spec

-----------------------------------------------------------------------------
(* The autopm references *)

\* btusb_work asks for a reference only when it holds none.
IsoInv == "get" \in work => "DID_ISO_RESUME" \notin flags

RefInv == TypeOK /\ UsageBalanced /\ IsoInv

OpenHolds == {"open", "openIntr", "openBulk", "openBulk2", "awake"}

\* The steps that touch neither a reference nor anyone who may hold one
LEMMA RefsAlone ==
    ASSUME RefInv, UNCHANGED <<usage, waker, work>>,
           (op \in OpenHolds) = (op' \in OpenHolds),
           ("DID_ISO_RESUME" \in flags) = ("DID_ISO_RESUME" \in flags')
    PROVE  UsageBalanced' /\ IsoInv'
BY DEF RefInv, UsageBalanced, IsoInv, One, OpenHolds

LEMMA RefOpen ==
    ASSUME RefInv, Open
    PROVE  UsageBalanced' /\ IsoInv'
<1> USE DEF RefInv, UsageBalanced, IsoInv, One, TypeOK
<1>1. CASE OpenStart
  BY <1>1 DEF OpenStart
<1>2. CASE OpenAwake
  BY <1>2 DEF OpenAwake, OpenFails
<1>3. CASE OpenIntr
  BY <1>3 DEF OpenIntr, OpenFails
<1>4. CASE OpenBulk
  BY <1>4 DEF OpenBulk, OpenFails
<1>5. CASE OpenBulk2
  BY <1>5 DEF OpenBulk2
<1> QED BY <1>1, <1>2, <1>3, <1>4, <1>5 DEF Open

LEMMA RefClose ==
    ASSUME RefInv, CoreClose \/ btusb_flush \/ btusb_close
    PROVE  UsageBalanced' /\ IsoInv'
<1> USE DEF RefInv, UsageBalanced, IsoInv, One, TypeOK, Idle
<1>1. CASE CoreClose
  BY <1>1 DEF CoreClose
<1>2. CASE btusb_flush
  BY <1>2 DEF btusb_flush
<1>3. CASE CloseCancelWork
  BY <1>3 DEF CloseCancelWork
<1>4. CASE CloseCancelWaker
  BY <1>4 DEF CloseCancelWaker
<1>5. CASE CloseClear
  BY <1>5 DEF CloseClear, Pipes
<1>6. CASE CloseStop
  BY <1>6 DEF CloseStop
<1>7. CASE CloseEnd
  BY <1>7 DEF CloseEnd
<1> QED BY <1>1, <1>2, <1>3, <1>4, <1>5, <1>6, <1>7 DEF btusb_close

LEMMA RefWork ==
    ASSUME RefInv, btusb_notify \/ btusb_work \/ WorkAwake \/ btusb_waker \/ WakerAwake
    PROVE  UsageBalanced' /\ IsoInv'
<1> USE DEF RefInv, UsageBalanced, IsoInv, One, TypeOK, Idle
<1>1. CASE btusb_notify
  BY <1>1 DEF btusb_notify
<1>2. CASE btusb_work
  BY <1>2 DEF btusb_work
<1>3. CASE WorkAwake
  BY <1>3 DEF WorkAwake
<1>4. CASE btusb_waker
  BY <1>4 DEF btusb_waker
<1>5. CASE WakerAwake
  BY <1>5 DEF WakerAwake
<1> QED BY <1>1, <1>2, <1>3, <1>4, <1>5

LEMMA RefStep ==
    ASSUME RefInv, [Next]_vars
    PROVE  RefInv'
<1>1. TypeOK'
  BY TypeStep DEF RefInv
<1>2. CASE UNCHANGED vars
  BY <1>1, <1>2, RefsAlone DEF vars, RefInv
<1>3. CASE \E f \in Frames : inc_tx(f) \/ Defer(f) \/ Transmit(f) \/ btusb_tx_complete(f)
  BY <1>1, <1>3 DEF inc_tx, Defer, Transmit, btusb_tx_complete, RefInv, UsageBalanced, IsoInv, One
<1>4. CASE Suspend
  BY <1>1, <1>4 DEF Suspend, SuspendGate, SuspendCancel, SuspendStop, SuspendKill, PortSuspend,
     RefInv, UsageBalanced, IsoInv, One, Idle
<1>5. CASE Resume
  <2>1. CASE ResumeOnDemand \/ RemoteWakeup
    BY <1>1, <2>1, RefsAlone DEF ResumeOnDemand, RemoteWakeup, PortResume, RefInv
  <2>2. CASE ResumeIntr \/ ResumeBulk
    BY <1>1, <2>2, RefsAlone DEF ResumeIntr, ResumeBulk, ResumeTest, ResumeSubmit, RefInv
  <2>3. CASE ResumePlay \/ ResumeFailed
    BY <1>1, <2>3 DEF ResumePlay, ResumeFailed, RefInv, UsageBalanced, IsoInv, One
  <2> QED BY <1>5, <2>1, <2>2, <2>3 DEF Resume
<1>6. CASE (\E p \in Pipes : RxEnds(p)) \/ Unplug \/ Free
  BY <1>1, <1>6, RefsAlone DEF RxEnds, Unplug, Free, RefInv
<1>7. CASE btusb_probe
  BY <1>1, <1>7 DEF btusb_probe, RefInv, UsageBalanced, IsoInv, One, Idle
<1> QED BY <1>1, <1>2, <1>3, <1>4, <1>5, <1>6, <1>7, Groups, RefOpen, RefClose, RefWork DEF RefInv

LEMMA RefInit == Init => RefInv
BY TypeInit DEF Init, RefInv, UsageBalanced, IsoInv, One, Idle

\* The autopm reference count of the interface is the number of those who hold it:
\* no path of open, close, the waker or btusb_work gives back too much or too little.
THEOREM ReferencesBalanced == Spec => []UsageBalanced
<1>1. RefInv => UsageBalanced
  BY DEF RefInv
<1>2. RefInv /\ [Next]_vars => RefInv'
  BY RefStep
<1> QED BY <1>1, <1>2, RefInit, PTL DEF Spec

-----------------------------------------------------------------------------
(* Receive URBs and sleep *)

\* Nobody opens or closes the adapter during a system sleep, and an open that has
\* the interface keeps it awake.
AwakeInv ==
  /\ op # "none" /\ ~auto => pm = "active"
  /\ op \in {"openIntr", "openBulk", "openBulk2"} => pm = "active"

SleepInv == RefInv /\ AwakeInv /\ SleepsWithoutRx

\* An autosuspend finds no open that has the interface: it would hold a reference.
LEMMA UnusedIsClosed ==
    ASSUME RefInv, usage = 0
    PROVE  op \notin OpenHolds
BY DEF RefInv, UsageBalanced, One, OpenHolds, TypeOK

LEMMA SleepOpen ==
    ASSUME SleepInv, Open
    PROVE  AwakeInv' /\ SleepsWithoutRx'
<1> USE DEF SleepInv, AwakeInv, SleepsWithoutRx, GetReturns, Thawed, pmVars, OpenFails
<1>1. CASE OpenStart
  BY <1>1 DEF OpenStart
<1>2. CASE OpenAwake
  BY <1>2 DEF OpenAwake
<1>3. CASE OpenIntr
  BY <1>3 DEF OpenIntr
<1>4. CASE OpenBulk
  BY <1>4 DEF OpenBulk
<1>5. CASE OpenBulk2
  BY <1>5 DEF OpenBulk2
<1> QED BY <1>1, <1>2, <1>3, <1>4, <1>5 DEF Open

LEMMA SleepSuspend ==
    ASSUME SleepInv, Suspend
    PROVE  AwakeInv' /\ SleepsWithoutRx'
<1> USE DEF SleepInv, AwakeInv, SleepsWithoutRx
<1>1. ASSUME NEW a \in BOOLEAN, SuspendGate(a) PROVE AwakeInv' /\ SleepsWithoutRx'
  BY <1>1, UnusedIsClosed DEF SuspendGate, MaySuspend, OpenHolds
<1>2. CASE SuspendCancel
  BY <1>2 DEF SuspendCancel
<1>3. CASE SuspendStop
  BY <1>3 DEF SuspendStop
<1>4. CASE SuspendKill
  BY <1>4 DEF SuspendKill
<1>5. CASE PortSuspend
  BY <1>5 DEF PortSuspend
<1> QED BY <1>1, <1>2, <1>3, <1>4, <1>5 DEF Suspend

LEMMA SleepStep ==
    ASSUME SleepInv, [Next]_vars
    PROVE  SleepInv'
<1> USE DEF SleepInv, AwakeInv, SleepsWithoutRx
<1>0. RefInv'
  BY RefStep
<1>1. CASE UNCHANGED vars
  BY <1>0, <1>1 DEF vars
<1>2. CASE \E f \in Frames : inc_tx(f) \/ Defer(f) \/ Transmit(f) \/ btusb_tx_complete(f)
  BY <1>0, <1>2 DEF inc_tx, Defer, Transmit, btusb_tx_complete, pmVars
<1>3. CASE CoreClose \/ btusb_flush \/ btusb_close
  BY <1>0, <1>3 DEF CoreClose, Thawed, btusb_flush, btusb_close, CloseCancelWork, CloseCancelWaker,
     CloseClear, CloseStop, CloseEnd, pmVars
<1>4. CASE btusb_notify \/ btusb_work \/ WorkAwake \/ btusb_waker \/ WakerAwake
  BY <1>0, <1>4 DEF btusb_notify, btusb_work, WorkAwake, btusb_waker, WakerAwake, pmVars
<1>5. CASE Resume
  <2>1. auto' = auto /\ op' = op /\ pm # "active" /\ pm' \notin {"kill", "quiet", "suspended"}
    BY <1>5 DEF Resume, ResumeOnDemand, RemoteWakeup, PortResume, ResumeIntr, ResumeBulk,
       ResumeTest, ResumeSubmit, ResumePlay, ResumeFailed
  <2> QED BY <1>0, <2>1
<1>6. ASSUME NEW p \in Pipes, RxEnds(p) PROVE SleepInv'
  <2>1. rx[p] > 0 /\ UNCHANGED <<pmVars, op>>
    BY <1>6 DEF RxEnds
  <2>2. pm \notin {"kill", "quiet", "suspended"}
    BY <2>1 DEF RefInv, TypeOK
  <2> QED BY <1>0, <2>1, <2>2 DEF pmVars
<1>7. CASE Unplug \/ Free \/ btusb_probe
  BY <1>0, <1>7 DEF Unplug, Free, btusb_probe, pmVars
<1> QED BY <1>0, <1>1, <1>2, <1>3, <1>4, <1>5, <1>6, <1>7, Groups, SleepOpen, SleepSuspend

\* A sleeping interface has no receive URB: what btusb_stop_traffic killed is not
\* submitted before the resume, by nobody.
THEOREM SleepsQuietly == Spec => []SleepsWithoutRx
<1>1. Init => SleepInv
  BY RefInit DEF Init, SleepInv, AwakeInv, SleepsWithoutRx
<1>2. SleepInv /\ [Next]_vars => SleepInv'
  BY SleepStep
<1>3. SleepInv => SleepsWithoutRx
  BY DEF SleepInv
<1> QED BY <1>1, <1>2, <1>3, PTL DEF Spec

-----------------------------------------------------------------------------
(* The end of the device *)

Opening == {"openIntr", "openBulk", "openBulk2"}
Closing == {"flush", "cancelWork", "cancelWaker", "clear", "stop", "awake"}

\* Which bits an open or a close in progress has set and cleared
PhaseInv ==
  /\ op \in Opening => {"HCI_UP", "HCI_RUNNING", "INTR_RUNNING"} \subseteq flags
  /\ op \in Closing \cup {"open"} => "HCI_UP" \notin flags

\* A device that is gone is awake, and nothing is submitted to it.
GoneInv ==
  gone # "no" =>
    pm = "active" /\ (\A p \in Pipes : rx[p] = 0) /\ \A f \in Frames : urb[f] # "submitted"

\* btusb_disconnect frees data when nobody opens or closes the adapter any more.
FreedInv == freed => gone # "no" /\ op = "none" /\ "HCI_UP" \notin flags

\* How far the close of a device that is gone has come: work, waker and deferred frames
\* are done with one after the other, and nobody brings them back.
ClosedInv ==
  gone = "closed" =>
    /\ op \in Closing \cup {"none"} /\ "HCI_UP" \notin flags
    /\ \A f \in Frames : urb[f] \notin {"counted", "parked"}
    /\ op \in {"cancelWaker", "clear", "stop", "awake", "none"} => work = Idle
    /\ op \in {"clear", "stop", "awake", "none"} => waker = Idle
    /\ op = "none" => \A f \in Frames : urb[f] # "deferred"

EndInv == TypeOK /\ AwakeInv /\ PhaseInv /\ GoneInv /\ FreedInv /\ ClosedInv

\* A kill leaves no frame submitted, and moves no other.
LEMMA KillMoves ==
    ASSUME TypeOK, KillTx
    PROVE  \A f \in Frames : urb'[f] # "submitted" /\ (urb[f] # "submitted" => urb'[f] = urb[f])
                             /\ (urb[f] = "submitted" => urb'[f] = "idle")
BY DEF KillTx, Moved, TypeOK

\* Senders
LEMMA EndTx ==
    ASSUME EndInv, NEW f \in Frames,
           inc_tx(f) \/ Defer(f) \/ Transmit(f) \/ btusb_tx_complete(f)
    PROVE  PhaseInv' /\ GoneInv' /\ FreedInv' /\ ClosedInv'
<1>0. UNCHANGED <<flags, op, gone, freed, pm, rx, work>>
  BY DEF inc_tx, Defer, Transmit, btusb_tx_complete, pmVars, lifeVars
<1>1. PhaseInv' /\ FreedInv'
  BY <1>0 DEF EndInv, PhaseInv, FreedInv
<1>2. gone # "no" => \A g \in Frames : urb'[g] = "submitted" => urb[g] = "submitted"
  BY DEF EndInv, TypeOK, inc_tx, Defer, Transmit, btusb_tx_complete, Submission, CanSubmit
<1>3. GoneInv'
  BY <1>0, <1>2 DEF EndInv, GoneInv
<1>4. gone = "closed" =>
        waker' = waker /\ \A g \in Frames : urb'[g] = urb[g] \/ urb'[g] = "idle"
  BY DEF EndInv, ClosedInv, TypeOK, inc_tx, Defer, Transmit, btusb_tx_complete
<1>5. ClosedInv'
  BY <1>0, <1>4 DEF EndInv, ClosedInv
<1> QED BY <1>1, <1>3, <1>5

\* Opening
LEMMA EndOpen ==
    ASSUME EndInv, Open
    PROVE  PhaseInv' /\ GoneInv' /\ FreedInv' /\ ClosedInv'
<1>0. UNCHANGED <<gone, freed, pm, urb, work, waker>>
  BY DEF Open, OpenStart, OpenAwake, OpenIntr, OpenBulk, OpenBulk2, pmVars, lifeVars, txVars
<1>1. op \in {"none", "open"} \cup Opening /\ (op = "none" => gone = "no")
  BY DEF Open, OpenStart, OpenAwake, OpenIntr, OpenBulk, OpenBulk2, Opening
<1>2. gone # "closed" /\ ~freed
  BY <1>1 DEF EndInv, ClosedInv, FreedInv, Opening, Closing, Open, OpenStart, OpenAwake, OpenIntr,
     OpenBulk, OpenBulk2
<1>3. gone # "no" => \A p \in Pipes : rx'[p] = 0
  BY PipeNames DEF EndInv, GoneInv, TypeOK, Open, OpenStart, OpenAwake, OpenIntr, OpenBulk, OpenBulk2,
     Submission, CanSubmit
<1>4. PhaseInv'
  BY DEF EndInv, PhaseInv, Open, OpenStart, OpenAwake, OpenIntr, OpenBulk, OpenBulk2, OpenFails,
     Opening, Closing
<1> QED BY <1>0, <1>2, <1>3, <1>4 DEF EndInv, GoneInv, FreedInv, ClosedInv

\* Closing: one thing after the other is done with
LEMMA EndClose ==
    ASSUME EndInv, CoreClose \/ btusb_flush \/ btusb_close
    PROVE  PhaseInv' /\ GoneInv' /\ FreedInv' /\ ClosedInv'
<1> USE DEF EndInv
<1>0. ~freed
  BY DEF FreedInv, CoreClose, btusb_flush, btusb_close, CloseCancelWork, CloseCancelWaker, CloseClear,
     CloseStop, CloseEnd
<1>p. PhaseInv' /\ FreedInv'
  BY <1>0 DEF PhaseInv, FreedInv, CoreClose, btusb_flush, btusb_close, CloseCancelWork,
     CloseCancelWaker, CloseClear, CloseStop, CloseEnd, Opening, Closing, lifeVars
<1>1. CASE CoreClose
  <2>1. UNCHANGED <<pm, rx, urb, waker>> /\ op' = "flush" /\ "HCI_UP" \notin flags'
        /\ (gone' = "no" <=> gone = "no")
    BY <1>1 DEF CoreClose, pmVars, txVars, TypeOK
  <2>2. \A f \in Frames : urb[f] \notin {"counted", "parked"}
    BY <1>1 DEF CoreClose, Sending, In
  <2> QED BY <1>p, <2>1, <2>2 DEF GoneInv, ClosedInv, Closing
<1>2. CASE btusb_flush
  <2>1. UNCHANGED <<pm, rx, waker, gone>> /\ op' = "cancelWork" /\ flags' \subseteq flags /\ KillTx
    BY <1>2 DEF btusb_flush, pmVars, lifeVars
  <2> QED BY <1>p, <2>1, KillMoves DEF GoneInv, ClosedInv, Closing
<1>3. CASE CloseCancelWork \/ CloseCancelWaker
  BY <1>p, <1>3 DEF CloseCancelWork, CloseCancelWaker, GoneInv, ClosedInv, Closing, pmVars, lifeVars, txVars
<1>4. CASE CloseClear \/ CloseStop
  BY <1>p, <1>4 DEF CloseClear, CloseStop, GoneInv, ClosedInv, Closing, pmVars, lifeVars, txVars
<1>5. CASE CloseEnd
  <2>1. UNCHANGED <<pm, rx, waker, work, gone>> /\ op = "awake" /\ op' = "none" /\ flags' \subseteq flags
    BY <1>5 DEF CloseEnd, pmVars, lifeVars
  <2>2. \A f \in Frames : urb'[f] \in {urb[f], "idle"} /\ urb'[f] # "deferred"
    BY <1>5 DEF CloseEnd, Moved, TypeOK
  <2> QED BY <1>p, <2>1, <2>2 DEF GoneInv, ClosedInv, Closing
<1> QED BY <1>1, <1>2, <1>3, <1>4, <1>5 DEF btusb_close

\* The work items
LEMMA EndWork ==
    ASSUME EndInv, btusb_notify \/ btusb_work \/ WorkAwake \/ btusb_waker \/ WakerAwake
    PROVE  PhaseInv' /\ GoneInv' /\ FreedInv' /\ ClosedInv'
<1>0. UNCHANGED <<op, gone, freed, pm, rx, urb>>
  BY DEF btusb_notify, btusb_work, WorkAwake, btusb_waker, WakerAwake, pmVars, lifeVars, txVars
<1>1. \A b \in {"HCI_UP", "HCI_RUNNING", "INTR_RUNNING"} : b \in flags' <=> b \in flags
  BY DEF btusb_notify, btusb_work, WorkAwake, btusb_waker, WakerAwake
<1>2. gone = "closed" => (work = Idle => work' = Idle) /\ (waker = Idle => waker' = Idle)
  BY DEF btusb_notify, btusb_work, WorkAwake, btusb_waker, WakerAwake, Idle, EndInv, ClosedInv
<1> QED BY <1>0, <1>1, <1>2 DEF EndInv, PhaseInv, GoneInv, FreedInv, ClosedInv

\* Suspend and resume, which a device that is gone does not see
LEMMA EndSleep ==
    ASSUME EndInv, Suspend \/ Resume
    PROVE  PhaseInv' /\ GoneInv' /\ FreedInv' /\ ClosedInv'
<1>0. UNCHANGED <<op, gone, freed>> /\ (pm = "active" => gone = "no")
  BY DEF Suspend, SuspendGate, SuspendCancel, SuspendStop, SuspendKill, PortSuspend,
     Resume, ResumeOnDemand, RemoteWakeup, PortResume, ResumeIntr, ResumeBulk,
     ResumeTest, ResumeSubmit, ResumePlay, ResumeFailed, lifeVars
<1>1. gone = "no"
  BY <1>0 DEF EndInv, GoneInv
<1>2. \A b \in {"HCI_UP", "HCI_RUNNING"} : b \in flags' <=> b \in flags
  BY DEF Suspend, SuspendGate, SuspendCancel, SuspendStop, SuspendKill, PortSuspend,
     Resume, ResumeOnDemand, RemoteWakeup, PortResume, ResumeIntr, ResumeBulk,
     ResumeTest, ResumeSubmit, ResumePlay, ResumeFailed
<1>3. op \in Opening => ("INTR_RUNNING" \in flags' <=> "INTR_RUNNING" \in flags)
  BY DEF EndInv, AwakeInv, Opening, Suspend, SuspendGate, SuspendCancel, SuspendStop, SuspendKill,
     PortSuspend, Resume, ResumeOnDemand, RemoteWakeup, PortResume, ResumeIntr, ResumeBulk,
     ResumeTest, ResumeSubmit, ResumePlay, ResumeFailed
<1> QED BY <1>0, <1>1, <1>2, <1>3 DEF EndInv, PhaseInv, GoneInv, FreedInv, ClosedInv

\* Receive URBs that end, the unplugging, btusb_disconnect and the next btusb_probe
LEMMA EndRest ==
    ASSUME EndInv, (\E p \in Pipes : RxEnds(p)) \/ Unplug \/ Free \/ btusb_probe
    PROVE  PhaseInv' /\ GoneInv' /\ FreedInv' /\ ClosedInv'
<1> USE DEF EndInv
<1>1. ASSUME NEW p \in Pipes, RxEnds(p) PROVE PhaseInv' /\ GoneInv' /\ FreedInv' /\ ClosedInv'
  <2>1. UNCHANGED <<flags, op, gone, freed, pm, urb, work, waker>> /\ rx[p] > 0
    BY <1>1 DEF RxEnds, pmVars, lifeVars, txVars
  <2>2. gone = "no"
    BY <2>1 DEF GoneInv, TypeOK
  <2> QED BY <2>1, <2>2 DEF PhaseInv, GoneInv, FreedInv, ClosedInv
<1>2. CASE Unplug
  <2>1. UNCHANGED <<flags, op, freed, pm, work, waker>> /\ gone = "no" /\ gone' = "yes" /\ pm = "active"
        /\ KillTx /\ \A p \in Pipes : rx'[p] = 0
    BY <1>2 DEF Unplug, pmVars
  <2>2. \A f \in Frames : urb'[f] # "submitted"
    BY <2>1, KillMoves
  <2> QED BY <2>1, <2>2 DEF PhaseInv, GoneInv, FreedInv, ClosedInv
<1>3. CASE Free
  BY <1>3 DEF Free, PhaseInv, GoneInv, FreedInv, ClosedInv, pmVars, txVars
<1>4. CASE btusb_probe
  BY <1>4 DEF btusb_probe, PhaseInv, GoneInv, FreedInv, ClosedInv, Opening, Closing
<1> QED BY <1>1, <1>2, <1>3, <1>4

\* Every step keeps what is said about the end of the device.
LEMMA EndStep ==
    ASSUME SleepInv, EndInv, [Next]_vars
    PROVE  EndInv'
<1>0. TypeOK' /\ AwakeInv'
  BY TypeStep, SleepStep DEF EndInv, SleepInv
<1>1. CASE UNCHANGED vars
  BY <1>1 DEF vars, EndInv, TypeOK, AwakeInv, PhaseInv, GoneInv, FreedInv, ClosedInv
<1>2. CASE Next
  <2>1. PhaseInv' /\ GoneInv' /\ FreedInv' /\ ClosedInv'
    BY <1>2, Groups, EndTx, EndOpen, EndClose, EndWork, EndSleep, EndRest
  <2> QED BY <1>0, <2>1 DEF EndInv
<1> QED BY <1>1, <1>2

\* Initially the device is there and closed.
LEMMA EndInit == Init => SleepInv /\ EndInv
<1>1. Init => SleepInv
  BY RefInit DEF Init, SleepInv, AwakeInv, SleepsWithoutRx
<1>2. Init => PhaseInv /\ GoneInv /\ FreedInv /\ ClosedInv
  BY DEF Init, PhaseInv, GoneInv, FreedInv, ClosedInv, Opening, Closing
<1> QED BY <1>1, <1>2, TypeInit DEF SleepInv, EndInv

\* When btusb_disconnect frees data after the HCI core closed the adapter, no work item is
\* queued or runs, and no URB is left that would complete into it.
THEOREM FreedQuietly == Spec => []FreedIsQuiet
<1>1. SleepInv /\ EndInv /\ [Next]_vars => (SleepInv /\ EndInv)'
  BY SleepStep, EndStep
<1>2. ASSUME EndInv PROVE FreedIsQuiet
  <2> SUFFICES ASSUME freed, gone = "closed"
               PROVE  work = Idle /\ waker = Idle /\ In("idle") = Frames /\ \A p \in Pipes : rx[p] = 0
    BY DEF FreedIsQuiet
  <2>1. work = Idle /\ waker = Idle /\ \A p \in Pipes : rx[p] = 0
    BY <1>2 DEF EndInv, FreedInv, ClosedInv, GoneInv
  <2>2. \A f \in Frames : urb[f] = "idle"
    BY <1>2 DEF EndInv, FreedInv, ClosedInv, GoneInv, TypeOK
  <2> QED BY <2>1, <2>2 DEF In
<1> QED BY <1>1, <1>2, EndInit, PTL DEF Spec

-----------------------------------------------------------------------------
(* Receive URBs neither multiply nor die out *)

Bits == {"HCI_UP", "HCI_RUNNING"} \cup Pipes

Down == op \in {"none", "open"} /\ "HCI_UP" \notin flags
Up == "HCI_UP" \in flags /\ "HCI_RUNNING" \in flags /\ op = "none"
Healthy == faults = 0 /\ gone = "no"

\* The RUNNING bits of an adapter that is down are clear, and a resume submits for a bit
\* that is set, unless a close cleared it after the test.
BitsInv ==
  ~overlap =>
    /\ Down \/ op \in {"stop", "awake"} => \A p \in Pipes : p \notin flags
    /\ pm = "submitIntr" => "INTR_RUNNING" \in flags
    /\ pm = "submitBulk" => "BULK_RUNNING" \in flags

\* How many receive URBs there are at each point of an open and of a resume, at most
BoundInv ==
  ~overlap =>
    /\ rx["INTR_RUNNING"] <= 1 /\ rx["BULK_RUNNING"] <= 2
    /\ Down \/ op \in {"awake", "openIntr"} => \A p \in Pipes : rx[p] = 0
    /\ op = "openBulk" => rx["BULK_RUNNING"] = 0
    /\ op = "openBulk2" => rx["BULK_RUNNING"] <= 1
    /\ pm \in {"testIntr", "submitIntr"} => \A p \in Pipes : rx[p] = 0
    /\ pm \in {"testBulk", "submitBulk"} => rx["BULK_RUNNING"] = 0

\* And at least, while no submission has failed.  (A bulk URB that completes before
\* BTUSB_BULK_RUNNING is set is not submitted again; btusb_open submits another.)
ListenInv ==
  /\ pm = "failed" => faults # 0
  /\ Healthy =>
       /\ op \in {"openBulk", "openBulk2"} => rx["INTR_RUNNING"] # 0
       /\ Up => /\ \A p \in Pipes : p \in flags
                /\ pm \in {"active", "cancel", "stop", "play"} => \A p \in Pipes : rx[p] # 0
                /\ pm \in {"testBulk", "submitBulk"} => rx["INTR_RUNNING"] # 0

RxInv == BitsInv /\ BoundInv /\ ListenInv

\* Whoever leaves pipes, bits and control points alone keeps the invariant.
LEMMA RxAlone ==
    ASSUME RxInv, UNCHANGED <<op, pm, rx, overlap, gone>>, faults' = 0 => faults = 0,
           \A b \in Bits : b \in flags' <=> b \in flags
    PROVE  RxInv'
<1>1. ("HCI_UP" \in flags' <=> "HCI_UP" \in flags) /\ ("HCI_RUNNING" \in flags' <=> "HCI_RUNNING" \in flags)
      /\ \A p \in Pipes : p \in flags' <=> p \in flags
  BY DEF Bits
<1>2. Down' <=> Down
  BY <1>1 DEF Down
<1>3. Up' <=> Up
  BY <1>1 DEF Up
<1>4. Healthy' => Healthy
  BY DEF Healthy
<1>5. BitsInv'
  BY <1>1, <1>2, PipeNames DEF RxInv, BitsInv
<1>6. BoundInv'
  BY <1>2 DEF RxInv, BoundInv
<1>7. ListenInv'
  BY <1>1, <1>3, <1>4 DEF RxInv, ListenInv
<1> QED BY <1>5, <1>6, <1>7 DEF RxInv

\* A submission that fails though the device is there is counted.
LEMMA FaultCounted ==
    ASSUME TypeOK, NEW ok \in BOOLEAN, Submission(ok)
    PROVE  /\ faults' = 0 => faults = 0
           /\ ~ok /\ CanSubmit => faults' # 0
           /\ ok => CanSubmit
BY DEF Submission, TypeOK

\* Senders have nothing to do with receive URBs, ...
LEMMA RxTx ==
    ASSUME TypeOK, RxInv, NEW f \in Frames,
           inc_tx(f) \/ Defer(f) \/ Transmit(f) \/ btusb_tx_complete(f)
    PROVE  RxInv'
<1>1. UNCHANGED <<op, pm, rx, overlap, gone, flags>>
  BY DEF inc_tx, Defer, Transmit, btusb_tx_complete, pmVars, lifeVars
<1>2. faults' = 0 => faults = 0
  BY FaultCounted DEF inc_tx, Defer, Transmit, btusb_tx_complete
<1> QED BY <1>1, <1>2, RxAlone

\* ... nor have the work items.
LEMMA RxWork ==
    ASSUME TypeOK, RxInv, btusb_notify \/ btusb_work \/ WorkAwake \/ btusb_waker \/ WakerAwake
    PROVE  RxInv'
<1>1. UNCHANGED <<op, pm, rx, overlap, gone, faults>>
  BY DEF btusb_notify, btusb_work, WorkAwake, btusb_waker, WakerAwake, pmVars, lifeVars
<1>2. \A b \in Bits : b \in flags' <=> b \in flags
  BY DEF btusb_notify, btusb_work, WorkAwake, btusb_waker, WakerAwake, Bits, Pipes
<1> QED BY <1>1, <1>2, RxAlone

\* Opening: one interrupt URB, two bulk URBs
LEMMA RxOpen ==
    ASSUME SleepInv, EndInv, RxInv, Open
    PROVE  RxInv'
<1> USE PipeNames
<1>t. TypeOK /\ rx \in [Pipes -> Nat]
  BY DEF EndInv, TypeOK
<1>a. /\ op # "none" /\ ~auto => pm = "active"
      /\ op \in Opening => pm = "active"
  BY DEF SleepInv, AwakeInv, Opening
<1>s. UNCHANGED <<pm, gone, overlap>>
  BY DEF Open, OpenStart, OpenAwake, OpenIntr, OpenBulk, OpenBulk2, pmVars, lifeVars
<1>1. CASE OpenStart
  <2>1. UNCHANGED <<flags, rx, faults>> /\ op = "none" /\ op' = "open" /\ "HCI_UP" \notin flags
    BY <1>1 DEF OpenStart
  <2>2. BitsInv' /\ BoundInv'
    BY <1>s, <2>1 DEF RxInv, BitsInv, BoundInv, Down
  <2>3. ListenInv'
    BY <1>s, <2>1 DEF RxInv, ListenInv, Up, Healthy
  <2> QED BY <2>2, <2>3 DEF RxInv
<1>2. CASE OpenAwake
  <2>1. rx' = rx /\ op = "open" /\ pm = "active" /\ "HCI_UP" \notin flags
    BY <1>2, <1>a DEF OpenAwake, GetReturns, EndInv, PhaseInv
  <2>2. PICK ok \in BOOLEAN :
          /\ Submission(ok)
          /\ \/ /\ ok /\ op' = "openIntr" /\ \A p \in Bits : p \in flags' <=> p # "BULK_RUNNING" \/ p \in flags
             \/ ~ok /\ op' = "none" /\ \A p \in Bits : p \in flags' => p \in flags
             \/ op' = "none" /\ flags' = flags
    BY <1>2 DEF OpenAwake, OpenFails, Bits, Pipes
  <2>3. "HCI_UP" \in Bits /\ Pipes \subseteq Bits
    BY DEF Bits
  <2>4. CASE ok /\ op' = "openIntr"
    BY <1>s, <2>1, <2>4 DEF RxInv, BitsInv, BoundInv, ListenInv, Down, Up
  <2>5. CASE op' = "none"
    <3>1. "HCI_UP" \notin flags' /\ \A p \in Pipes : p \in flags' => p \in flags
      BY <2>1, <2>2, <2>3, <2>5
    <3>2. BitsInv' /\ BoundInv'
      BY <1>s, <2>1, <2>5, <3>1 DEF RxInv, BitsInv, BoundInv, Down
    <3>3. ListenInv'
      BY <1>s, <2>1, <2>5, <3>1 DEF ListenInv, Up
    <3> QED BY <3>2, <3>3 DEF RxInv
  <2> QED BY <2>2, <2>4, <2>5
<1>3. CASE OpenIntr
  <2>1. op = "openIntr" /\ pm = "active" /\ "HCI_UP" \in flags
    BY <1>3, <1>a DEF OpenIntr, Opening, EndInv, PhaseInv
  <2>2. PICK ok \in BOOLEAN :
          /\ Submission(ok)
          /\ \/ ok /\ op' = "openBulk" /\ flags' = flags /\ rx' = [rx EXCEPT !["INTR_RUNNING"] = @ + 1]
             \/ ~ok /\ OpenFails({}) /\ rx' = rx
    BY <1>3 DEF OpenIntr
  <2>3. CASE ok
    <3>1. rx'["INTR_RUNNING"] = rx["INTR_RUNNING"] + 1 /\ rx'["BULK_RUNNING"] = rx["BULK_RUNNING"]
          /\ op' = "openBulk"
      BY <1>t, <2>2, <2>3
    <3>2. BitsInv'
      BY <1>s, <2>1, <3>1 DEF BitsInv, Down
    <3>3. BoundInv'
      BY <1>s, <1>t, <2>1, <3>1 DEF RxInv, BoundInv, Down
    <3>4. ListenInv'
      BY <1>s, <1>t, <2>1, <3>1 DEF ListenInv, Up
    <3> QED BY <3>2, <3>3, <3>4 DEF RxInv
  <2>4. CASE ~ok
    <3>1. rx' = rx /\ op' = "none" /\ "HCI_UP" \in flags' /\ "HCI_RUNNING" \notin flags'
      BY <2>1, <2>2, <2>4 DEF OpenFails
    <3> QED BY <1>s, <2>1, <3>1 DEF RxInv, BitsInv, BoundInv, ListenInv, Down, Up
  <2> QED BY <2>3, <2>4
<1>4. CASE OpenBulk
  <2>1. op = "openBulk" /\ pm = "active" /\ "HCI_UP" \in flags
    BY <1>4, <1>a DEF OpenBulk, Opening, EndInv, PhaseInv
  <2>2. PICK ok \in BOOLEAN :
          /\ Submission(ok)
          /\ \/ ok /\ op' = "openBulk2" /\ flags' = flags /\ rx' = [rx EXCEPT !["BULK_RUNNING"] = @ + 1]
             \/ ~ok /\ OpenFails({}) /\ rx' = [rx EXCEPT !["INTR_RUNNING"] = 0]
    BY <1>4 DEF OpenBulk
  <2>3. CASE ok
    <3>1. rx'["BULK_RUNNING"] = rx["BULK_RUNNING"] + 1 /\ rx'["INTR_RUNNING"] = rx["INTR_RUNNING"]
          /\ op' = "openBulk2"
      BY <1>t, <2>2, <2>3
    <3>2. BitsInv'
      BY <1>s, <2>1, <3>1 DEF BitsInv, Down
    <3>3. BoundInv'
      BY <1>s, <1>t, <2>1, <3>1 DEF RxInv, BoundInv, Down
    <3>4. ListenInv'
      BY <1>s, <2>1, <2>2, <3>1, FaultCounted, <1>t DEF RxInv, ListenInv, Up, Healthy
    <3> QED BY <3>2, <3>3, <3>4 DEF RxInv
  <2>4. CASE ~ok
    <3>1. /\ op' = "none" /\ "HCI_UP" \in flags' /\ "HCI_RUNNING" \notin flags'
          /\ rx'["INTR_RUNNING"] = 0 /\ rx'["BULK_RUNNING"] = rx["BULK_RUNNING"]
      BY <1>t, <2>1, <2>2, <2>4 DEF OpenFails
    <3> QED BY <1>s, <2>1, <3>1 DEF RxInv, BitsInv, BoundInv, ListenInv, Down, Up
  <2> QED BY <2>3, <2>4
<1>5. CASE OpenBulk2
  <2>1. /\ op = "openBulk2" /\ pm = "active" /\ "HCI_UP" \in flags /\ "INTR_RUNNING" \in flags
        /\ op' = "none" /\ flags' = flags \union {"BULK_RUNNING"}
    BY <1>5, <1>a DEF OpenBulk2, Opening, EndInv, PhaseInv
  <2>2. PICK ok \in BOOLEAN :
          Submission(ok) /\ rx' = [rx EXCEPT !["BULK_RUNNING"] = IF ok THEN @ + 1 ELSE @]
    BY <1>5 DEF OpenBulk2
  <2>3. /\ rx'["INTR_RUNNING"] = rx["INTR_RUNNING"]
        /\ rx'["BULK_RUNNING"] = IF ok THEN rx["BULK_RUNNING"] + 1 ELSE rx["BULK_RUNNING"]
    BY <1>t, <2>2
  <2>4. BitsInv'
    BY <1>s, <2>1 DEF BitsInv, Down
  <2>5. BoundInv'
    BY <1>s, <1>t, <2>1, <2>3 DEF RxInv, BoundInv, Down
  <2>6. Healthy' => Healthy /\ ok
    BY <1>s, <1>t, <2>1, <2>2, FaultCounted DEF Healthy, CanSubmit
  <2>7. \A p \in Pipes : p \in flags'
    BY <2>1 DEF Pipes
  <2>8. Healthy' => rx'["INTR_RUNNING"] # 0 /\ rx'["BULK_RUNNING"] # 0
    BY <1>t, <2>1, <2>3, <2>6 DEF RxInv, ListenInv
  <2>9. ListenInv'
    BY <1>s, <2>1, <2>7, <2>8 DEF ListenInv, Pipes
  <2> QED BY <2>4, <2>5, <2>9 DEF RxInv
<1> QED BY <1>1, <1>2, <1>3, <1>4, <1>5 DEF Open

\* Closing: the bits are cleared, then the URBs are killed.
LEMMA RxClose ==
    ASSUME SleepInv, EndInv, RxInv, CoreClose \/ btusb_flush \/ btusb_close
    PROVE  RxInv'
<1> USE PipeNames
<1>s. UNCHANGED <<pm, faults>> /\ (gone' = "no" => gone = "no")
  BY DEF CoreClose, btusb_flush, btusb_close, CloseCancelWork, CloseCancelWaker, CloseClear, CloseStop,
     CloseEnd, pmVars, lifeVars, EndInv, TypeOK
<1>u. ListenInv'
  <2>1. op' \notin {"openBulk", "openBulk2"} /\ ~Up'
    BY DEF CoreClose, btusb_flush, btusb_close, CloseCancelWork, CloseCancelWaker, CloseClear,
       CloseStop, CloseEnd, Up, EndInv, PhaseInv, Closing
  <2> QED BY <1>s, <2>1 DEF ListenInv, RxInv
<1>1. CASE CoreClose \/ btusb_flush \/ CloseCancelWork \/ CloseCancelWaker
  <2>1. rx' = rx /\ overlap' = overlap /\ op' \in {"flush", "cancelWork", "cancelWaker", "clear"}
        /\ \A p \in Pipes : p \in flags' <=> p \in flags
    BY <1>1 DEF CoreClose, btusb_flush, CloseCancelWork, CloseCancelWaker, Pipes
  <2>2. BitsInv' /\ BoundInv'
    BY <1>s, <2>1 DEF RxInv, BitsInv, BoundInv, Down
  <2> QED BY <1>u, <2>2 DEF RxInv
<1>2. CASE CloseClear
  <2>1. rx' = rx /\ op' = "stop" /\ (\A p \in Pipes : p \notin flags')
        /\ (~overlap' => ~overlap /\ pm \notin {"submitIntr", "submitBulk"})
    BY <1>2 DEF CloseClear
  <2>2. BitsInv' /\ BoundInv'
    BY <1>s, <2>1 DEF RxInv, BitsInv, BoundInv, Down
  <2> QED BY <1>u, <2>2 DEF RxInv
<1>3. CASE CloseStop
  <2>1. flags' = flags /\ overlap' = overlap /\ op = "stop" /\ op' = "awake" /\ \A p \in Pipes : rx'[p] = 0
    BY <1>3 DEF CloseStop
  <2>2. BitsInv' /\ BoundInv'
    BY <1>s, <2>1 DEF RxInv, BitsInv, BoundInv, Down
  <2> QED BY <1>u, <2>2 DEF RxInv
<1>4. CASE CloseEnd
  <2>1. rx' = rx /\ overlap' = overlap /\ op = "awake" /\ op' = "none"
        /\ \A p \in Pipes : p \in flags' <=> p \in flags
    BY <1>4 DEF CloseEnd, Pipes
  <2>2. BitsInv' /\ BoundInv'
    BY <1>s, <2>1 DEF RxInv, BitsInv, BoundInv, Down
  <2> QED BY <1>u, <2>2 DEF RxInv
<1> QED BY <1>1, <1>2, <1>3, <1>4 DEF btusb_close

\* What suspend and resume leave alone; an open in progress keeps the interface awake.
LEMMA SleepAlone ==
    ASSUME SleepInv, EndInv, Suspend \/ Resume
    PROVE  /\ UNCHANGED <<op, gone, overlap>> /\ gone = "no" /\ (pm # "active" => op \notin Opening)
           /\ \A b \in {"HCI_UP", "HCI_RUNNING"} : b \in flags' <=> b \in flags
<1>1. UNCHANGED <<op, gone, overlap>> /\ (pm = "active" => gone = "no")
  BY DEF Suspend, SuspendGate, SuspendCancel, SuspendStop, SuspendKill, PortSuspend,
     Resume, ResumeOnDemand, RemoteWakeup, PortResume, ResumeIntr, ResumeBulk,
     ResumeTest, ResumeSubmit, ResumePlay, ResumeFailed, lifeVars
<1>2. gone = "no" /\ (pm # "active" => op \notin Opening)
  BY <1>1 DEF EndInv, GoneInv, SleepInv, AwakeInv, Opening
<1>3. \A b \in {"HCI_UP", "HCI_RUNNING"} : b \in flags' <=> b \in flags
  BY DEF Suspend, SuspendGate, SuspendCancel, SuspendStop, SuspendKill, PortSuspend,
     Resume, ResumeOnDemand, RemoteWakeup, PortResume, ResumeIntr, ResumeBulk,
     ResumeTest, ResumeSubmit, ResumePlay, ResumeFailed
<1> QED BY <1>1, <1>2, <1>3

\* Suspending: the URBs are killed, the bits stay.
LEMMA RxSuspend ==
    ASSUME SleepInv, EndInv, RxInv, Suspend
    PROVE  RxInv'
<1> USE PipeNames
<1>s. /\ UNCHANGED <<op, gone, overlap, faults>> /\ (pm # "active" => op \notin Opening)
      /\ ("HCI_UP" \in flags' <=> "HCI_UP" \in flags) /\ ("HCI_RUNNING" \in flags' <=> "HCI_RUNNING" \in flags)
  BY SleepAlone DEF Suspend, SuspendGate, SuspendCancel, SuspendStop, SuspendKill, PortSuspend
<1>p. \A p \in Pipes : p \in flags' <=> p \in flags
  BY DEF Suspend, SuspendGate, SuspendCancel, SuspendStop, SuspendKill, PortSuspend, Pipes
<1>k. (Up' <=> Up) /\ (Down' <=> Down) /\ (Healthy' <=> Healthy)
  BY <1>s DEF Up, Down, Healthy
<1>m. pm' \in {"cancel", "stop", "kill", "quiet", "suspended"}
  BY DEF Suspend, SuspendGate, SuspendCancel, SuspendStop, SuspendKill, PortSuspend
<1>b. BitsInv'
  BY <1>s, <1>p, <1>k, <1>m DEF RxInv, BitsInv
<1>1. CASE (\E a \in BOOLEAN : SuspendGate(a)) \/ SuspendCancel
  <2>1. rx' = rx /\ pm \in {"active", "cancel"} /\ pm' \in {"cancel", "stop"}
    BY <1>1 DEF SuspendGate, SuspendCancel
  <2>2. BoundInv'
    BY <1>s, <1>k, <2>1 DEF RxInv, BoundInv
  <2>3. ListenInv'
    BY <1>s, <1>p, <1>k, <2>1 DEF RxInv, ListenInv
  <2> QED BY <1>b, <2>2, <2>3 DEF RxInv
<1>2. CASE SuspendStop \/ SuspendKill \/ PortSuspend
  <2>1. pm # "active" /\ pm' \in {"kill", "quiet", "suspended"}
    BY <1>2 DEF SuspendStop, SuspendKill, PortSuspend
  <2>2. \A p \in Pipes : rx'[p] = 0
    BY <2>1, SleepSuspend DEF SleepsWithoutRx
  <2>3. BoundInv'
    BY <2>1, <2>2 DEF BoundInv
  <2>4. ListenInv'
    BY <1>s, <1>p, <1>k, <2>1 DEF RxInv, ListenInv, Opening
  <2> QED BY <1>b, <2>3, <2>4 DEF RxInv
<1> QED BY <1>1, <1>2 DEF Suspend

\* Resuming: each pipe whose bit is set gets its URBs back, once.
LEMMA RxResume ==
    ASSUME SleepInv, EndInv, RxInv, Resume
    PROVE  RxInv'
<1> USE PipeNames
<1>t. TypeOK /\ rx \in [Pipes -> Nat]
  BY DEF EndInv, TypeOK
<1>a. pm # "active"
  BY DEF Resume, ResumeOnDemand, RemoteWakeup, PortResume, ResumeIntr, ResumeBulk,
     ResumeTest, ResumeSubmit, ResumePlay, ResumeFailed
<1>s. /\ UNCHANGED <<op, gone, overlap>> /\ op \notin Opening /\ gone = "no"
      /\ ("HCI_UP" \in flags' <=> "HCI_UP" \in flags) /\ ("HCI_RUNNING" \in flags' <=> "HCI_RUNNING" \in flags)
  BY <1>a, SleepAlone
<1>k. (Up' <=> Up) /\ (Down' <=> Down)
  BY <1>s DEF Up, Down
<1>1. CASE ResumeOnDemand \/ RemoteWakeup
  <2>1. UNCHANGED <<rx, flags, faults>> /\ pm' = "testIntr" /\ \A p \in Pipes : rx[p] = 0
    BY <1>1 DEF ResumeOnDemand, RemoteWakeup, PortResume, SleepInv, SleepsWithoutRx
  <2>2. BitsInv' /\ BoundInv'
    BY <1>s, <1>k, <2>1 DEF RxInv, BitsInv, BoundInv
  <2>3. ListenInv'
    BY <1>s, <1>k, <2>1 DEF RxInv, ListenInv, Healthy, Opening
  <2> QED BY <2>2, <2>3 DEF RxInv
<1>2. CASE \/ ResumeTest("INTR_RUNNING", "testIntr", "submitIntr", "testBulk")
           \/ ResumeTest("BULK_RUNNING", "testBulk", "submitBulk", "play")
  <2>1. /\ UNCHANGED <<rx, flags, faults>>
        /\ \/ pm = "testIntr" /\ pm' = "submitIntr" /\ "INTR_RUNNING" \in flags
           \/ pm = "testIntr" /\ pm' = "testBulk" /\ "INTR_RUNNING" \notin flags
           \/ pm = "testBulk" /\ pm' = "submitBulk" /\ "BULK_RUNNING" \in flags
           \/ pm = "testBulk" /\ pm' = "play" /\ "BULK_RUNNING" \notin flags
    BY <1>2 DEF ResumeTest
  <2>2. BitsInv' /\ BoundInv'
    BY <1>s, <1>k, <2>1 DEF RxInv, BitsInv, BoundInv
  <2>3. Healthy' => Healthy
    BY <1>s, <2>1 DEF Healthy
  <2>4. ListenInv'
    BY <1>s, <1>k, <2>1, <2>3 DEF RxInv, ListenInv, Opening
  <2> QED BY <2>2, <2>4 DEF RxInv
<1>3. ASSUME NEW p \in Pipes, NEW n \in {1, 2}, NEW submit, NEW next,
             ResumeSubmit(p, n, submit, next),
             \/ p = "INTR_RUNNING" /\ n = 1 /\ submit = "submitIntr" /\ next = "testBulk"
             \/ p = "BULK_RUNNING" /\ n = 2 /\ submit = "submitBulk" /\ next = "play"
      PROVE  RxInv'
  <2>1. PICK ok \in BOOLEAN, k \in 1 .. n :
          /\ Submission(ok /\ k = n)
          /\ \/ ok /\ pm' = next /\ rx' = [rx EXCEPT ![p] = @ + k] /\ UNCHANGED flags
             \/ ~ok /\ k = 1 /\ pm' = "failed" /\ flags' = flags \ {p} /\ UNCHANGED rx
    BY <1>3 DEF ResumeSubmit
  <2>2. pm = submit /\ CanSubmit
    BY <1>s, <1>3 DEF ResumeSubmit, CanSubmit
  <2>3. (faults' = 0 => faults = 0) /\ (~ok => faults' # 0)
    <3>1. (ok /\ k = n) \in BOOLEAN
      OBVIOUS
    <3> QED BY <1>t, <2>1, <2>2, <3>1, FaultCounted
  <2>4. CASE ok
    <3>1. flags' = flags /\ pm' = next /\ rx'[p] = rx[p] + k /\ \A z \in Pipes \ {p} : rx'[z] = rx[z]
      BY <1>t, <2>1, <2>4
    <3>2. k \in Nat /\ k # 0 /\ k <= n
      BY <2>1
    <3>3. ~overlap => ~Down /\ op \notin {"stop", "awake"} /\ p \in flags
      BY <1>3, <2>2 DEF RxInv, BitsInv
    <3>4. BitsInv'
      BY <1>s, <1>k, <1>3, <3>1, <3>3 DEF BitsInv
    <3>5. BoundInv'
      <4>1. CASE p = "INTR_RUNNING"
        BY <1>s, <1>t, <1>k, <1>3, <2>2, <3>1, <3>2, <3>3, <4>1 DEF RxInv, BoundInv, Opening, Pipes
      <4>2. CASE p = "BULK_RUNNING"
        BY <1>s, <1>t, <1>k, <1>3, <2>2, <3>1, <3>2, <3>3, <4>2 DEF RxInv, BoundInv, Opening, Pipes
      <4> QED BY <1>3, <4>1, <4>2
    <3>6. Healthy' => Healthy
      BY <1>s, <2>3 DEF Healthy
    <3>7. rx'[p] # 0
      BY <1>t, <3>1, <3>2
    <3>8. ListenInv'
      BY <1>s, <1>k, <1>3, <2>2, <3>1, <3>6, <3>7 DEF RxInv, ListenInv, Opening, Pipes
    <3> QED BY <3>4, <3>5, <3>8 DEF RxInv
  <2>5. CASE ~ok
    <3>1. rx' = rx /\ pm' = "failed" /\ (\A z \in Pipes : z \in flags' => z \in flags) /\ faults' # 0
      BY <2>1, <2>3, <2>5
    <3>2. BitsInv' /\ BoundInv'
      BY <1>s, <1>k, <3>1 DEF RxInv, BitsInv, BoundInv
    <3>3. ListenInv'
      BY <3>1 DEF ListenInv, Healthy
    <3> QED BY <3>2, <3>3 DEF RxInv
  <2> QED BY <2>4, <2>5
<1>4. CASE ResumePlay \/ ResumeFailed
  <2>1. /\ rx' = rx /\ pm' = "active" /\ (\A z \in Pipes : z \in flags' <=> z \in flags)
        /\ pm = "play" \/ (pm = "failed" /\ faults' = faults)
    BY <1>4 DEF ResumePlay, ResumeFailed, Pipes
  <2>2. faults' = 0 => faults = 0
    <3>1. CASE ResumePlay
      <4>1. PICK bad \in SUBSET In("deferred") : faults' = faults + Cardinality(bad)
        BY <3>1 DEF ResumePlay
      <4>2. Cardinality(bad) \in Nat
        BY Countable DEF In
      <4> QED BY <1>t, <4>1, <4>2 DEF TypeOK
    <3>2. CASE ResumeFailed
      BY <3>2 DEF ResumeFailed
    <3> QED BY <1>4, <3>1, <3>2
  <2>3. BitsInv' /\ BoundInv'
    BY <1>s, <1>k, <2>1 DEF RxInv, BitsInv, BoundInv
  <2>4. Healthy' => Healthy /\ pm = "play"
    BY <1>s, <2>1, <2>2 DEF Healthy, RxInv, ListenInv
  <2>5. ListenInv'
    BY <1>s, <1>k, <2>1, <2>4 DEF RxInv, ListenInv, Opening
  <2> QED BY <2>3, <2>5 DEF RxInv
<1>5. CASE ResumeIntr
  BY <1>2, <1>3, <1>5 DEF ResumeIntr
<1>6. CASE ResumeBulk
  BY <1>2, <1>3, <1>6 DEF ResumeBulk
<1> QED BY <1>1, <1>4, <1>5, <1>6 DEF Resume

\* A receive URB that ends without a failure belongs to a pipe that is not running.
LEMMA RxRest ==
    ASSUME SleepInv, EndInv, RxInv, (\E p \in Pipes : RxEnds(p)) \/ Unplug \/ Free \/ btusb_probe
    PROVE  RxInv'
<1> USE PipeNames
<1>t. TypeOK /\ rx \in [Pipes -> Nat]
  BY DEF EndInv, TypeOK
<1>1. ASSUME NEW p \in Pipes, RxEnds(p) PROVE RxInv'
  <2>1. /\ UNCHANGED <<flags, op, gone, pm, overlap>> /\ rx[p] > 0
        /\ rx'[p] = rx[p] - 1 /\ \A z \in Pipes \ {p} : rx'[z] = rx[z]
    BY <1>1, <1>t DEF RxEnds, pmVars, lifeVars
  <2>2. CanSubmit
    BY <1>t, <2>1 DEF CanSubmit, EndInv, GoneInv, SleepInv, SleepsWithoutRx
  <2>3. /\ faults' = 0 => faults = 0
        /\ "HCI_RUNNING" \in flags /\ p \in flags => faults' # 0
    BY <1>1, <1>t, <2>2, FaultCounted DEF RxEnds
  <2>4. \A z \in Pipes : rx'[z] \in Nat /\ rx'[z] <= rx[z]
    BY <1>t, <2>1
  <2>5. BitsInv'
    BY <2>1 DEF RxInv, BitsInv, Down
  <2>6. BoundInv'
    BY <1>t, <2>1, <2>4 DEF RxInv, BoundInv, Down
  <2>7. ASSUME Healthy' PROVE Healthy /\ ~Up /\ (op \in Opening => p = "BULK_RUNNING")
    <3>1. Healthy /\ ~("HCI_RUNNING" \in flags /\ p \in flags)
      BY <2>1, <2>3, <2>7 DEF Healthy
    <3>2. ~Up
      BY <3>1 DEF RxInv, ListenInv, Up
    <3>3. op \in Opening => p = "BULK_RUNNING"
      BY <3>1 DEF EndInv, PhaseInv, Pipes
    <3> QED BY <3>1, <3>2, <3>3
  <2>8. Up' <=> Up
    BY <2>1 DEF Up
  <2>9. ListenInv'
    BY <2>1, <2>3, <2>7, <2>8 DEF RxInv, ListenInv, Opening
  <2> QED BY <2>5, <2>6, <2>9 DEF RxInv
<1>2. CASE Unplug
  <2>1. UNCHANGED <<flags, op, pm, overlap, faults>> /\ gone' = "yes" /\ \A p \in Pipes : rx'[p] = 0
    BY <1>2 DEF Unplug, pmVars
  <2>2. BitsInv' /\ BoundInv'
    BY <2>1 DEF RxInv, BitsInv, BoundInv, Down
  <2>3. ListenInv'
    BY <2>1 DEF RxInv, ListenInv, Healthy
  <2> QED BY <2>2, <2>3 DEF RxInv
<1>3. CASE Free
  <2>1. UNCHANGED <<flags, op, pm, rx, overlap, gone, faults>>
    BY <1>3 DEF Free, pmVars
  <2> QED BY <2>1, RxAlone
<1>4. CASE btusb_probe
  BY <1>4 DEF btusb_probe, RxInv, BitsInv, BoundInv, ListenInv, Up
<1> QED BY <1>1, <1>2, <1>3, <1>4

\* Every step keeps the bounds on the receive URBs.
LEMMA RxStep ==
    ASSUME SleepInv, EndInv, RxInv, [Next]_vars
    PROVE  RxInv'
<1>1. CASE UNCHANGED vars
  BY <1>1, RxAlone DEF vars
<1>2. CASE Next
  BY <1>2, Groups, RxTx, RxOpen, RxClose, RxWork, RxSuspend, RxResume, RxRest DEF EndInv
<1> QED BY <1>1, <1>2

\* Over every sequence of open, failed open, suspend, resume, failed resume, close and unplugging
\* there are at most one interrupt and two bulk URBs, and while no submission has failed an
\* adapter that is up and awake listens on both pipes.  (But for a close that overtakes a resume.)
THEOREM RxStaysSteady == Spec => []RxSteady
<1>1. Init => SleepInv /\ EndInv /\ RxInv
  <2>1. Init => RxInv
    BY PipeNames DEF Init, RxInv, BitsInv, BoundInv, ListenInv, Up
  <2> QED BY <2>1, EndInit
<1>2. SleepInv /\ EndInv /\ RxInv /\ [Next]_vars => (SleepInv /\ EndInv /\ RxInv)'
  BY SleepStep, EndStep, RxStep
<1>3. ASSUME EndInv, RxInv PROVE RxSteady
  <2>1. rx \in [Pipes -> Nat]
    BY <1>3 DEF EndInv, TypeOK
  <2>2. ~overlap => rx["INTR_RUNNING"] <= 1 /\ rx["BULK_RUNNING"] <= 2
    BY <1>3 DEF RxInv, BoundInv
  <2>3. ASSUME {"HCI_UP", "HCI_RUNNING"} \subseteq flags, op = "none", pm = "active", gone = "no",
               faults = 0, NEW p \in Pipes
        PROVE  rx[p] > 0
    <3>1. rx[p] # 0
      BY <1>3, <2>3 DEF RxInv, ListenInv, Healthy, Up
    <3> QED BY <2>1, <3>1
  <2> QED BY <2>2, <2>3 DEF RxSteady
<1> QED BY <1>1, <1>2, <1>3, PTL DEF Spec
=============================================================================
