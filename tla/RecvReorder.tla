---------------------------- MODULE RecvReorder ----------------------------
(***************************************************************************)
(* The receive reordering buffer of one station and one TID (struct        *)
(* recv_reorder_ctrl, core/rtw_recv.c): A-MPDU subframes arrive with holes  *)
(* and out of order, the receive tasklet buffers what is ahead of the       *)
(* window start indicate_seq, a timer gives up on a hole after 50 ms.       *)
(*                                                                         *)
(* Who runs at the same time:                                               *)
(*   - the receive tasklet (one: RxFrame, RxBelowWindow, RxInBuffer,        *)
(*     RxInsert, RxCancel, RxAfter, Bar),                                   *)
(*   - the timer softirq (TimerFires, TimerLocked),                         *)
(*   - the command thread (AddBaRsp, AddBaRspAcked, JoinReset, DelBa),      *)
(*   - the thread that frees the station (FreeUnhash, FreeCancel,           *)
(*     FreeFlush).                                                          *)
(* pending_recvframe_queue.lock makes RxInsert & co. and TimerLocked        *)
(* atomic; indicate_seq, enable and the ack bit are also written without it.*)
(*                                                                         *)
(* Frames are numbered 1, 2, 3, ... by the sender; on the air only          *)
(* Seq(n) = n % Space is seen.  The sender's window starts at lo: it may    *)
(* send and send again any of lo .. lo + WSize - 1, and lo advances when a  *)
(* frame is acknowledged or given up, so any pattern of loss, repetition    *)
(* and disorder that a block ack sender can cause is an arrival order here. *)
(***************************************************************************)
EXTENDS Integers, Sequences

CONSTANTS
    Space,      \* sequence number space, 4096
    WSize,      \* wsize_b, 64
    First,      \* number of the first frame
    MaxFrame,   \* bound: number of the last frame sent
    MaxAddBa,   \* bound: ADDBA requests handled
    MaxJoin,    \* bound: reassociations with the same station
    MaxBar,     \* bound: block ack requests received
    Ends        \* bound: whether the station may be freed and the driver stopped

Half == Space \div 2

\* Frames in a row that the sender may lose without the receiver seeing one.
MaxLoss == Half - 2 * WSize

ASSUME SpaceAssumption == Space \in Nat /\ Half * 2 = Space
ASSUME WindowAssumption == WSize \in Nat /\ WSize > 1 /\ MaxLoss > 0
ASSUME FrameAssumption == First \in Nat \ {0} /\ MaxFrame \in Nat
ASSUME BoundAssumption == MaxAddBa \in Nat /\ MaxJoin \in Nat /\ MaxBar \in Nat
                          /\ Ends \in BOOLEAN

VARIABLES
    enable,     \* preorder_ctrl->enable: a block ack session is set up
    iseq,       \* preorder_ctrl->indicate_seq, the window start
    ack,        \* bit RTW_RECV_ACK_OR_TIMEOUT of rec_abba_rsp_ack
    pend,       \* pending_recvframe_queue: numbers of the buffered frames
    waiting,    \* bReorderWaiting
    armed,      \* reordering_ctrl_timer is pending
    handler,    \* its handler runs and has not taken the lock yet
    rx,         \* the receive tasklet: "idle", "lock", "cancel" or "after"
    frame,      \* the last frame that passed recv_decache (tid_rxseq)
    cmd,        \* add_ba_rsp_hdl: "idle", or waiting to "accept"/"reject"
    sta,        \* the station: "hashed", "unhashed", "cancelled", "freed"
    stopped,    \* RTW_CANNOT_RUN
    lo,         \* external: start of the sender's window
    newest,     \* external: greatest frame number that has arrived
    addbas,     \* ADDBA requests handled so far
    joins,      \* reassociations so far
    bars,       \* block ack requests so far
    up,         \* ghost: the frames the last step handed to the stack
    top,        \* ghost: the last frame indicated since indicate_seq was set anew
    back        \* ghost: a BAR moved the window back since then

ctrl == <<enable, iseq, ack, pend, waiting>>
life == <<cmd, sta, stopped, addbas, joins>>
air == <<lo, newest, bars>>
vars == <<ctrl, armed, handler, rx, frame, life, air, up, top, back>>

Unset == -1                         \* 0xffff: the next frame sets the window
NoFrame == 0
Seq12(n) == n % Space

\* Mutant: increment beyond the wrap-around.
SnNextNoMask(a) == a + 1

\* SN_LESS(a, b): the top bit of the 12 bit difference is set.
SnLess(a, b) == (a - b) % Space >= Half
SnNext(a) == (a + 1) % Space

TypeOK ==
    /\ enable \in BOOLEAN /\ ack \in BOOLEAN /\ waiting \in BOOLEAN
    /\ iseq \in {Unset} \union 0 .. Space - 1
    /\ pend \in Seq(First .. MaxFrame)
    /\ armed \in BOOLEAN /\ handler \in BOOLEAN /\ stopped \in BOOLEAN
    /\ rx \in {"idle", "lock", "cancel", "after"}
    /\ frame \in {NoFrame} \union First .. MaxFrame
    /\ cmd \in {"idle", "accept", "reject"}
    /\ sta \in {"hashed", "unhashed", "cancelled", "freed"}
    /\ lo \in Nat /\ newest \in Nat
    /\ addbas \in 0 .. MaxAddBa /\ joins \in 0 .. MaxJoin /\ bars \in 0 .. MaxBar
    /\ up \in Seq(First .. MaxFrame)
    /\ top \in {NoFrame} \union First .. MaxFrame
    /\ back \in BOOLEAN

\* rtw_alloc_stainfo: the structure is zeroed, no session, no window.
Init ==
    /\ enable = FALSE /\ iseq = Unset /\ ack = FALSE
    /\ pend = <<>> /\ waiting = FALSE
    /\ armed = FALSE /\ handler = FALSE
    /\ rx = "idle" /\ frame = NoFrame
    /\ cmd = "idle" /\ sta = "hashed" /\ stopped = FALSE
    /\ lo = First /\ newest = First - 1
    /\ addbas = 0 /\ joins = 0 /\ bars = 0
    /\ up = <<>> /\ top = NoFrame /\ back = FALSE

-----------------------------------------------------------------------------
(* The pure steps under the lock *)

\* Mutant: handing a buffered frame up does not move the window start.
StartAfterStuck(p, i) == [k \in 0 .. Len(p) |-> i]

\* The window start once the first `k` frames of p have been handed up,
\* starting from i: it moves over each frame equal to it.
StartAfter(p, i) ==
    LET f[k \in 0 .. Len(p)] ==
        IF k = 0 THEN i
        ELSE LET w == f[k - 1] IN IF Seq12(p[k]) = w THEN SnNext(w) ELSE w
    IN f

\* recv_indicatepkts_in_order: hand up the head as long as the window start
\* is not below it; the rest stays in the buffer.
recv_indicatepkts_in_order(p, i) ==
    LET start == StartAfter(p, i)
        goes(k) == \A j \in 1 .. k : ~SnLess(start[j - 1], Seq12(p[j]))
        n == CHOOSE k \in 0 .. Len(p) :
                goes(k) /\ (k < Len(p) => ~goes(k + 1))
    IN [up   |-> SubSeq(p, 1, n),
        pend |-> SubSeq(p, n + 1, Len(p)),
        iseq |-> start[n]]

\* enqueue_reorder_recvframe: the frames of the list the scan passes by.
Before(p, s) ==
    CHOOSE k \in 0 .. Len(p) :
        /\ \A j \in 1 .. k : SnLess(Seq12(p[j]), s)
        /\ k < Len(p) => ~SnLess(Seq12(p[k + 1]), s)

IsDuplicate(p, s) ==
    LET k == Before(p, s) IN k < Len(p) /\ Seq12(p[k + 1]) = s

enqueue_reorder_recvframe(p, n) ==
    LET k == Before(p, Seq12(n))
    IN SubSeq(p, 1, k) \o <<n>> \o SubSeq(p, k + 1, Len(p))

\* recv_indicatepkt_reorder: the response to an ADDBA has been sent since the
\* last frame, or the window was never set: this frame sets it.
WinStart(s) == IF ack \/ iseq = Unset THEN s ELSE iseq

WinEnd(i) == (i + WSize - 1) % Space

\* Mutant: the window is not shifted by a frame beyond its end.
check_indicate_seq_no_shift(i, s) == IF s = i THEN SnNext(i) ELSE i

\* check_indicate_seq, for a frame that is not below the window.
check_indicate_seq(i, s) ==
    IF s = i THEN SnNext(i)
    ELSE IF SnLess(WinEnd(i), s) THEN (s + 1 - WSize) % Space
    ELSE i

Last(s) == s[Len(s)]

\* What the stack is handed by this step, and the ghosts that follow it.
HandUp(s) ==
    /\ up' = s
    /\ top' = IF s # <<>> THEN Last(s) ELSE IF ack THEN NoFrame ELSE top
-----------------------------------------------------------------------------
(* The receive tasklet *)

\* A frame of the sender's window arrives; the station is found, the frame is
\* not the one received last (recv_decache), and enable decides its way.
\* Without a session it is handed up at once and sets the window start.
RxFrame(n) ==
    /\ rx = "idle" /\ sta = "hashed"
    /\ n \in lo .. lo + WSize - 1 /\ n <= MaxFrame
    /\ frame # NoFrame => Seq12(frame) # Seq12(n)
    /\ frame' = n
    /\ newest' = IF n > newest THEN n ELSE newest
    /\ \/ /\ enable
          /\ rx' = "lock" /\ up' = <<>>
          /\ UNCHANGED <<iseq, top>>
       \/ /\ ~enable
          /\ rx' = "after" /\ up' = <<n>> /\ top' = NoFrame
          /\ iseq' = Seq12(n)
    /\ UNCHANGED <<enable, ack, pend, waiting, armed, handler, life, lo, bars, back>>

\* recv_set_iseq_after_mpdu_process, without the lock: whatever the timer or a
\* join wrote to indicate_seq meanwhile is incremented.
RxAfter ==
    /\ rx = "after"
    /\ rx' = "idle" /\ iseq' = SnNext(iseq) /\ up' = <<>>
    /\ UNCHANGED <<enable, ack, pend, waiting, armed, handler, frame, life,
                   air, top, back>>

\* Taking the lock also consumes the ack bit: the window is set anew.
RxLock ==
    /\ rx = "lock"
    /\ ack' = FALSE
    /\ back' = (back /\ ~ack)
    /\ UNCHANGED <<enable, handler, frame, life, air>>

\* The frame is below the window: dropped.
RxBelowWindow ==
    /\ RxLock
    /\ LET i == WinStart(Seq12(frame))
       IN SnLess(Seq12(frame), i) /\ iseq' = i
    /\ rx' = "idle" /\ HandUp(<<>>)
    /\ UNCHANGED <<pend, waiting, armed>>

\* The frame is in the buffer already: dropped, after the window moved.
RxInBuffer ==
    /\ RxLock
    /\ LET s == Seq12(frame)
           i == WinStart(s)
       IN ~SnLess(s, i) /\ IsDuplicate(pend, s)
          /\ iseq' = check_indicate_seq(i, s)
    /\ rx' = "idle" /\ HandUp(<<>>)
    /\ UNCHANGED <<pend, waiting, armed>>

\* The frame is linked, and everything below the window start goes up.  If
\* frames remain, the timer is started unless it is known to be pending; if
\* none remain it is cancelled, but only after the lock is dropped.
RxInsert ==
    /\ RxLock
    /\ LET s == Seq12(frame)
           i == WinStart(s)
           r == recv_indicatepkts_in_order(enqueue_reorder_recvframe(pend, frame),
                                           check_indicate_seq(i, s))
       IN /\ ~SnLess(s, i) /\ ~IsDuplicate(pend, s)
          /\ iseq' = r.iseq /\ pend' = r.pend /\ HandUp(r.up)
          /\ \/ /\ r.pend # <<>>
                /\ rx' = "idle" /\ waiting' = TRUE
                /\ armed' = (armed \/ ~waiting)
             \/ /\ r.pend = <<>>
                /\ rx' = "cancel" /\ waiting' = FALSE
                /\ UNCHANGED armed

\* _cancel_timer_ex is del_timer_sync: it waits for a running handler.
RxCancel ==
    /\ rx = "cancel" /\ ~handler
    /\ rx' = "idle" /\ armed' = FALSE /\ up' = <<>>
    /\ UNCHANGED <<ctrl, handler, frame, life, air, top, back>>

\* rtw_process_bar_frame: a block ack request carries the start of the
\* sender's window, which becomes indicate_seq unconditionally.
Bar ==
    /\ rx = "idle" /\ sta = "hashed" /\ bars < MaxBar
    /\ bars' = bars + 1
    /\ iseq' = Seq12(lo)
    /\ back' = (back \/ (iseq # Unset /\ SnLess(Seq12(lo), iseq)))
    /\ up' = <<>>
    /\ UNCHANGED <<enable, ack, pend, waiting, armed, handler, rx, frame, life,
                   lo, newest, top>>
-----------------------------------------------------------------------------
(* The timer *)

\* The timer expires; the handler returns at once if the driver was stopped.
TimerFires ==
    /\ armed /\ ~handler
    /\ armed' = FALSE /\ handler' = ~stopped /\ up' = <<>>
    /\ UNCHANGED <<ctrl, rx, frame, life, air, top, back>>

\* Mutants: bReorderWaiting is not cleared; the timer is not started again.
TimerLockedKeepsWaiting ==
    /\ handler
    /\ handler' = FALSE /\ waiting' = waiting
    /\ LET r == recv_indicatepkts_in_order(pend, Seq12(Head(pend)))
       IN IF pend = <<>>
          THEN armed' = TRUE /\ HandUp(<<>>) /\ UNCHANGED <<iseq, pend>>
          ELSE /\ iseq' = r.iseq /\ pend' = r.pend /\ HandUp(r.up)
               /\ armed' = (armed \/ r.pend # <<>>)
    /\ UNCHANGED <<enable, ack, rx, frame, life, air, back>>

TimerLockedNoRearm ==
    /\ handler
    /\ handler' = FALSE /\ waiting' = FALSE
    /\ LET r == recv_indicatepkts_in_order(pend, Seq12(Head(pend)))
       IN IF pend = <<>>
          THEN armed' = TRUE /\ HandUp(<<>>) /\ UNCHANGED <<iseq, pend>>
          ELSE /\ iseq' = r.iseq /\ pend' = r.pend /\ HandUp(r.up)
               /\ armed' = armed
    /\ UNCHANGED <<enable, ack, rx, frame, life, air, back>>

\* The handler gives up on the hole before the oldest buffered frame.  An
\* empty buffer counts as not drained.
TimerLocked ==
    /\ handler
    /\ handler' = FALSE /\ waiting' = FALSE
    /\ LET r == recv_indicatepkts_in_order(pend, Seq12(Head(pend)))
       IN IF pend = <<>>
          THEN armed' = TRUE /\ HandUp(<<>>) /\ UNCHANGED <<iseq, pend>>
          ELSE /\ iseq' = r.iseq /\ pend' = r.pend /\ HandUp(r.up)
               /\ armed' = (armed \/ r.pend # <<>>)
    /\ UNCHANGED <<enable, ack, rx, frame, life, air, back>>
-----------------------------------------------------------------------------
(* Block ack set-up and tear-down, join, station removal *)

\* process_addba_req posts add_ba_rsp_hdl, which looks the station up and then
\* waits until the response is acknowledged (or three attempts failed).
AddBaRsp(answer) ==
    /\ cmd = "idle" /\ sta = "hashed" /\ addbas < MaxAddBa
    /\ cmd' = answer /\ addbas' = addbas + 1 /\ up' = <<>>
    /\ UNCHANGED <<ctrl, armed, handler, rx, frame, sta, stopped, joins, air,
                   top, back>>

\* Only now the window is marked to be set anew and the session is enabled.
AddBaRspAcked ==
    /\ cmd # "idle"
    /\ ack' = TRUE /\ enable' = (cmd = "accept")
    /\ cmd' = "idle" /\ up' = <<>>
    /\ UNCHANGED <<iseq, pend, waiting, armed, handler, rx, frame, sta, stopped,
                   addbas, joins, air, top, back>>

\* A DELBA from the peer (OnAction_back), or one of ours.
DelBa ==
    /\ enable /\ sta = "hashed"
    /\ enable' = FALSE /\ up' = <<>>
    /\ UNCHANGED <<iseq, ack, pend, waiting, armed, handler, rx, frame, life,
                   air, top, back>>

\* rtw_joinbss_update_stainfo: buffer, timer and bReorderWaiting are left alone.
JoinReset ==
    /\ sta = "hashed" /\ joins < MaxJoin
    /\ enable' = FALSE /\ iseq' = Unset /\ ack' = FALSE
    /\ joins' = joins + 1 /\ top' = NoFrame /\ up' = <<>>
    /\ UNCHANGED <<pend, waiting, armed, handler, rx, frame, cmd, sta, stopped,
                   addbas, air, back>>

\* rtw_free_stainfo: first the station cannot be found any more ...
FreeUnhash ==
    /\ sta = "hashed" /\ Ends
    /\ sta' = "unhashed" /\ up' = <<>>
    /\ UNCHANGED <<ctrl, armed, handler, rx, frame, cmd, stopped, addbas, joins,
                   air, top, back>>

\* ... then the timer is cancelled (waiting for its handler) ...
FreeCancel ==
    /\ sta = "unhashed" /\ ~handler
    /\ sta' = "cancelled" /\ ack' = FALSE /\ armed' = FALSE /\ up' = <<>>
    /\ UNCHANGED <<enable, iseq, pend, waiting, handler, rx, frame, cmd, stopped,
                   addbas, joins, air, top, back>>

\* ... then, under the lock, the buffer is emptied.
FreeFlush ==
    /\ sta = "cancelled"
    /\ sta' = "freed" /\ pend' = <<>> /\ up' = <<>>
    /\ UNCHANGED <<enable, iseq, ack, waiting, armed, handler, rx, frame, cmd,
                   stopped, addbas, joins, air, top, back>>

\* rtw_set_drv_stopped, by close, unload or removal.
Stop ==
    /\ ~stopped /\ Ends
    /\ stopped' = TRUE /\ up' = <<>>
    /\ UNCHANGED <<ctrl, armed, handler, rx, frame, cmd, sta, addbas, joins, air,
                   top, back>>

\* External: the sender is done with frame lo.  It stays within MaxLoss frames
\* of what the receiver has seen, and the 50 ms timer is taken to expire before
\* the frame behind the sender's window is half the sequence number space ahead
\* of the oldest buffered frame.
SenderAdvance ==
    /\ lo <= MaxFrame
    /\ lo + 1 - newest <= MaxLoss
    /\ pend # <<>> => lo + 1 + WSize - pend[1] < Half
    /\ lo' = lo + 1 /\ up' = <<>>
    /\ UNCHANGED <<ctrl, armed, handler, rx, frame, life, newest, bars, top, back>>
-----------------------------------------------------------------------------
\* The tasklet goes on with the frame it has.
RxContinue == RxAfter \/ RxBelowWindow \/ RxInBuffer \/ RxInsert \/ RxCancel

Rx == RxContinue \/ (\E n \in First .. MaxFrame : RxFrame(n)) \/ Bar

Timer == TimerFires \/ TimerLocked

Session ==
    \/ \E answer \in {"accept", "reject"} : AddBaRsp(answer)
    \/ AddBaRspAcked \/ DelBa \/ JoinReset

Free == FreeUnhash \/ FreeCancel \/ FreeFlush

Next == Rx \/ Timer \/ Session \/ Free \/ Stop \/ SenderAdvance

Spec == Init /\ [][Next]_vars

\* The kernel runs a pending timer and a scheduled tasklet in the end; frames,
\* requests, removal and the sender are not obliged to do anything.
Fairness ==
    WF_vars(TimerFires) /\ WF_vars(TimerLocked) /\ WF_vars(RxContinue)

FairSpec == Spec /\ Fairness
-----------------------------------------------------------------------------
(* Properties *)

\* rtw_free_stainfo has not yet cancelled the timer and dropped the session.
Held == sta \in {"hashed", "unhashed"}

\* A session is set up and its window has been set by a frame.
InSession == enable /\ ~ack /\ Held

\* enqueue_reorder_recvframe keeps the buffer in the sender's order, without a
\* duplicate, although it compares sequence numbers that wrap around; and
\* check_indicate_seq shifts the window before a frame is linked: nothing is
\* buffered beyond the window's end, so a session holds at most WSize frames.
BufferInWindow ==
    /\ \A i, j \in 1 .. Len(pend) : i < j => pend[i] < pend[j]
    /\ InSession =>
        /\ Len(pend) < WSize
        /\ \A k \in 1 .. Len(pend) : ~SnLess(WinEnd(iseq), Seq12(pend[k]))

\* A buffered frame has a timer that will give up on the hole before it: the
\* timer is pending, or its handler waits for the lock, or the driver stopped,
\* or rtw_free_stainfo has cancelled it in order to release the buffer.
TimerCovers == (pend # <<>> /\ Held) => armed \/ handler \/ stopped

\* Within a session frames go up in the sender's order, each at most once:
\* through holes, timeouts, wrap-around and retransmission, whoever of
\* recv_indicatepkt_reorder and the timer handler hands them up.
GoesUpInOrder ==
    /\ \A i, j \in 1 .. Len(up') : i < j => up'[i] < up'[j]
    /\ (up' # <<>> /\ InSession /\ ~back) => up'[1] > top

InOrder == [][GoesUpInOrder]_vars

\* The timer handler and bReorderWaiting together never strand a frame: what
\* is buffered is handed up or released in the end.
BufferedGoesUp ==
    \A n \in First .. MaxFrame :
        (\E k \in 1 .. Len(pend) : pend[k] = n)
            ~> (stopped \/ ~Held \/ \A k \in 1 .. Len(pend) : pend[k] # n)

\* rtw_free_stainfo cancels reordering_ctrl_timer: a freed station has none.
NoTimerAfterFree == sta = "freed" => ~armed /\ ~handler
=============================================================================
