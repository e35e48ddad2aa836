------------------------- MODULE RecvReorderProofs -------------------------
(***************************************************************************)
(* Theorems about the receive reordering buffer, for every window size,     *)
(* sequence number space and number of frames, requests and reassociations. *)
(***************************************************************************)
EXTENDS RecvReorder, DataTheorems, TLAPS

\* Something will give up on a hole: the timer is pending, its handler is about
\* to take the lock, or the driver stopped and nothing goes up any more.
Covered == armed \/ handler \/ stopped

\* bReorderWaiting is only believed while a timer stands behind it.
WaitingInv == (waiting /\ Held) => Covered

\* Between dropping the lock and _cancel_timer_ex the buffer stays empty: only
\* the tasklet fills it, and the handler leaves an empty buffer alone.
CancelInv == rx = "cancel" => pend = <<>> /\ ~waiting

TimerInv == TimerCovers /\ WaitingInv /\ CancelInv

\* A new station has an empty buffer and no timer.
LEMMA TimerInit == Init => TimerInv
BY DEF Init, TimerInv, TimerCovers, WaitingInv, CancelInv, Covered, Held

\* The tasklet's sections under the lock.
LEMMA TimerRxLocked ==
    ASSUME TimerInv, RxBelowWindow \/ RxInBuffer \/ RxInsert
    PROVE  TimerInv'
<1> USE DEF TimerInv, TimerCovers, WaitingInv, CancelInv, Covered, Held, RxLock, life
<1>1. CASE RxBelowWindow
  BY <1>1 DEF RxBelowWindow
<1>2. CASE RxInBuffer
  BY <1>2 DEF RxInBuffer
<1>3. CASE RxInsert
  <2>1. /\ rx = "lock"
        /\ UNCHANGED <<handler, sta, stopped>>
    BY <1>3 DEF RxInsert
  <2>2. \/ pend' # <<>> /\ rx' = "idle" /\ waiting' /\ armed' = (armed \/ ~waiting)
        \/ pend' = <<>> /\ rx' = "cancel" /\ ~waiting'
    BY <1>3, Zenon DEF RxInsert
  <2> QED BY <2>1, <2>2
<1> QED BY <1>1, <1>2, <1>3

\* The timer expires, and its handler runs under the lock.
LEMMA TimerTimer ==
    ASSUME TimerInv, Timer
    PROVE  TimerInv'
<1> USE DEF TimerInv, TimerCovers, WaitingInv, CancelInv, Covered, Held, life
<1>1. CASE TimerFires
  BY <1>1 DEF TimerFires, ctrl
<1>2. CASE TimerLocked
  <2>1. /\ ~waiting'
        /\ UNCHANGED <<rx, sta, stopped>>
        /\ pend' # <<>> => armed'
        /\ pend = <<>> => pend' = <<>>
    BY <1>2, Zenon DEF TimerLocked
  <2> QED BY <2>1
<1> QED BY <1>1, <1>2 DEF Timer

\* Every step preserves the invariant.
LEMMA TimerStep == TimerInv /\ [Next]_vars => TimerInv'
<1> SUFFICES ASSUME TimerInv, [Next]_vars PROVE TimerInv'
  OBVIOUS
<1> USE DEF TimerInv, TimerCovers, WaitingInv, CancelInv, Covered, Held, ctrl, life
<1>1. CASE RxBelowWindow \/ RxInBuffer \/ RxInsert
  BY <1>1, TimerRxLocked
<1>2. CASE Timer
  BY <1>2, TimerTimer
<1>3. ASSUME NEW n \in First .. MaxFrame, RxFrame(n) PROVE TimerInv'
  BY <1>3 DEF RxFrame
<1>4. CASE RxAfter
  BY <1>4 DEF RxAfter
<1>5. CASE RxCancel
  BY <1>5 DEF RxCancel
<1>6. CASE Bar
  BY <1>6 DEF Bar
<1>7. ASSUME NEW answer \in {"accept", "reject"}, AddBaRsp(answer) PROVE TimerInv'
  BY <1>7 DEF AddBaRsp
<1>8. CASE AddBaRspAcked
  BY <1>8 DEF AddBaRspAcked
<1>9. CASE DelBa
  BY <1>9 DEF DelBa
<1>10. CASE JoinReset
  BY <1>10 DEF JoinReset
<1>11. CASE FreeUnhash
  BY <1>11 DEF FreeUnhash
<1>12. CASE FreeCancel
  BY <1>12 DEF FreeCancel
<1>13. CASE FreeFlush
  BY <1>13 DEF FreeFlush
<1>14. CASE Stop
  BY <1>14 DEF Stop
<1>15. CASE SenderAdvance
  BY <1>15 DEF SenderAdvance
<1>16. CASE UNCHANGED vars
  BY <1>16 DEF vars
<1> QED
  BY <1>1, <1>2, <1>3, <1>4, <1>5, <1>6, <1>7, <1>8, <1>9, <1>10, <1>11, <1>12,
     <1>13, <1>14, <1>15, <1>16 DEF Next, Rx, RxContinue, Session, Free

\* A frame in the reordering buffer always has a timer behind it, however the
\* tasklet, the timer handler, set-up, removal and stop of
\* recv_indicatepkt_reorder and rtw_reordering_ctrl_timeout_handler interleave.
THEOREM TimerCoversHolds == Spec => []TimerCovers
<1>1. Init => TimerInv
  BY TimerInit
<1>2. TimerInv /\ [Next]_vars => TimerInv'
  BY TimerStep
<1>3. TimerInv => TimerCovers
  BY DEF TimerInv
<1> QED
  BY <1>1, <1>2, <1>3, PTL DEF Spec
-----------------------------------------------------------------------------
(* Sequence numbers: arithmetic modulo Space *)

\* The constants, as the steps below use them.
LEMMA Sizes ==
    /\ Space \in Nat /\ Half \in Nat /\ Space = Half + Half /\ Space > 0
    /\ WSize \in Nat /\ WSize > 1 /\ MaxLoss \in Int /\ 2 * WSize < Half
    /\ MaxLoss = Half - 2 * WSize
<1>1. Half \in Int
  BY SpaceAssumption DEF Half
<1> QED BY <1>1, SpaceAssumption, WindowAssumption DEF MaxLoss

\* Quotient and remainder.
LEMMA ModDef ==
    ASSUME NEW a \in Int
    PROVE  (a % Space) \in 0 .. Space - 1 /\ \E q \in Int : a = q * Space + (a % Space)
BY Sizes

\* The remainder is the only number in its range that differs by a multiple.
LEMMA ModUnique ==
    ASSUME NEW q \in Int, NEW r \in 0 .. Space - 1
    PROVE  (q * Space + r) % Space = r
BY Sizes

\* The difference of two sequence numbers is that of the frame numbers.
LEMMA ModDiff ==
    ASSUME NEW a \in Int, NEW b \in Int
    PROVE  ((a % Space) - (b % Space)) % Space = (a - b) % Space
<1>1. PICK q \in Int : a = q * Space + (a % Space)
  BY ModDef
<1>2. PICK p \in Int : b = p * Space + (b % Space)
  BY ModDef
<1>3. PICK d \in Int : /\ a - b = d * Space + ((a - b) % Space)
                       /\ (a - b) % Space \in 0 .. Space - 1
  BY ModDef
<1>4. a % Space \in Int /\ b % Space \in Int
  BY ModDef
<1>5. (a % Space) - (b % Space) = (d - q + p) * Space + ((a - b) % Space)
  BY <1>1, <1>2, <1>3, <1>4, Sizes
<1>6. d - q + p \in Int
  OBVIOUS
<1> QED BY <1>3, <1>5, <1>6, ModUnique

\* Adding to a sequence number is adding to the frame number.
LEMMA ModAdd ==
    ASSUME NEW a \in Int, NEW b \in Int
    PROVE  ((a % Space) + b) % Space = (a + b) % Space
<1>1. PICK q \in Int : a = q * Space + (a % Space)
  BY ModDef
<1>2. PICK d \in Int : /\ a + b = d * Space + ((a + b) % Space)
                       /\ (a + b) % Space \in 0 .. Space - 1
  BY ModDef
<1>3. a % Space \in Int
  BY ModDef
<1>4. (a % Space) + b = (d - q) * Space + ((a + b) % Space)
  BY <1>1, <1>2, <1>3, Sizes
<1>5. d - q \in Int
  OBVIOUS
<1> QED BY <1>2, <1>4, <1>5, ModUnique

\* The remainder of a number between -Space and Space.
LEMMA ModNear ==
    ASSUME NEW a \in Int, -Space <= a, a < Space
    PROVE  a % Space = IF a < 0 THEN a + Space ELSE a
<1>1. CASE a < 0
  <2>1. a = (-1) * Space + (a + Space) /\ a + Space \in 0 .. Space - 1
    BY <1>1, Sizes
  <2> QED BY <1>1, <2>1, ModUnique
<1>2. CASE a >= 0
  <2>1. a = 0 * Space + a /\ a \in 0 .. Space - 1
    BY <1>2, Sizes
  <2> QED BY <1>2, <2>1, ModUnique
<1> QED BY <1>1, <1>2

\* SN_LESS on the sequence numbers of two frames at most half the space apart
\* compares the frames.
LEMMA LessDecodes ==
    ASSUME NEW a \in Int, NEW b \in Int, a - b < Half, b - a <= Half
    PROVE  SnLess(Seq12(a), Seq12(b)) <=> a < b
<1>1. ((a % Space) - (b % Space)) % Space = (a - b) % Space
  BY ModDiff
<1>2. (a - b) % Space = IF a - b < 0 THEN (a - b) + Space ELSE a - b
  BY ModNear, Sizes
<1> QED BY <1>1, <1>2, Sizes DEF SnLess, Seq12

\* Equal sequence numbers of frames that are near are the same frame.
LEMMA EqualDecodes ==
    ASSUME NEW a \in Int, NEW b \in Int, a - b < Half, b - a <= Half
    PROVE  Seq12(a) = Seq12(b) <=> a = b
<1>1. ((a % Space) - (b % Space)) % Space = (a - b) % Space
  BY ModDiff
<1>2. (a - b) % Space = IF a - b < 0 THEN (a - b) + Space ELSE a - b
  BY ModNear, Sizes
<1>3. 0 % Space = 0
  BY ModNear, Sizes
<1>4. a % Space \in Int
  BY ModDef
<1>5. ASSUME a % Space = b % Space PROVE a = b
  <2>1. (a % Space) - (b % Space) = 0
    BY <1>4, <1>5
  <2>2. (a - b) % Space = 0
    BY <1>1, <1>3, <2>1
  <2> QED BY <1>2, <2>2, Sizes
<1> QED BY <1>5 DEF Seq12

\* Sequence numbers are in range, and stepping them is stepping the frame.
LEMMA SeqFacts ==
    ASSUME NEW a \in Int
    PROVE  /\ Seq12(a) \in 0 .. Space - 1 /\ Seq12(a) # Unset
           /\ SnNext(Seq12(a)) = Seq12(a + 1)
           /\ WinEnd(Seq12(a)) = Seq12(a + WSize - 1)
           /\ (Seq12(a) + 1 - WSize) % Space = Seq12(a + 1 - WSize)
<1>1. Seq12(a) \in 0 .. Space - 1
  BY ModDef DEF Seq12
<1>2. Seq12(a) # Unset
  BY <1>1 DEF Unset
<1>3. SnNext(Seq12(a)) = Seq12(a + 1)
  BY ModAdd DEF SnNext, Seq12
<1>4. a % Space \in Int
  BY ModDef
<1>5. WinEnd(Seq12(a)) = Seq12(a + WSize - 1)
  <2>1. WSize - 1 \in Int /\ a + WSize - 1 = a + (WSize - 1)
        /\ (a % Space) + WSize - 1 = (a % Space) + (WSize - 1)
    BY <1>4, Sizes
  <2>2. ((a % Space) + (WSize - 1)) % Space = (a + (WSize - 1)) % Space
    BY <2>1, ModAdd
  <2> QED BY <2>1, <2>2 DEF WinEnd, Seq12
<1>6. (Seq12(a) + 1 - WSize) % Space = Seq12(a + 1 - WSize)
  <2>1. 1 - WSize \in Int /\ a + 1 - WSize = a + (1 - WSize)
        /\ (a % Space) + 1 - WSize = (a % Space) + (1 - WSize)
    BY <1>4, Sizes
  <2>2. ((a % Space) + (1 - WSize)) % Space = (a + (1 - WSize)) % Space
    BY <2>1, ModAdd
  <2> QED BY <2>1, <2>2 DEF Seq12
<1> QED BY <1>1, <1>2, <1>3, <1>5, <1>6
-----------------------------------------------------------------------------
(* The window start along the buffer *)

SeqNums == 0 .. Space - 1

\* The equation that defines StartAfter, and a table of its values up to m
StartValue(f, p, i, k) ==
    IF k = 0 THEN i
    ELSE IF Seq12(p[k]) = f[k - 1] THEN SnNext(f[k - 1]) ELSE f[k - 1]

IsStart(f, p, i, m) ==
    f \in [0 .. m -> SeqNums] /\ \A k \in 0 .. m : f[k] = StartValue(f, p, i, k)

\* The successor of a sequence number is one.
LEMMA NextInRange ==
    ASSUME NEW w \in SeqNums PROVE SnNext(w) \in SeqNums
BY ModDef DEF SnNext, SeqNums

\* The recursive definition of StartAfter has a solution.
LEMMA StartExists ==
    ASSUME NEW p, NEW i \in SeqNums, NEW m \in Nat
    PROVE  \E f : IsStart(f, p, i, m)
<1> DEFINE G == {k \in Nat : \E h : IsStart(h, p, i, k)}
<1>1. 0 \in G
  <2> DEFINE z == [k \in 0 .. 0 |-> i]
  <2>1. IsStart(z, p, i, 0)
    BY DEF IsStart, StartValue
  <2> QED BY <2>1
<1>2. ASSUME NEW k \in Nat, k \in G PROVE k + 1 \in G
  <2>1. PICK g : IsStart(g, p, i, k)
    BY <1>2
  <2> DEFINE h == [j \in 0 .. k + 1 |-> StartValue(g, p, i, j)]
  <2>2. \A j \in 0 .. k : h[j] = g[j] /\ g[j] \in SeqNums
    BY <2>1 DEF IsStart
  <2>3. ASSUME NEW j \in 0 .. k + 1
        PROVE  h[j] \in SeqNums /\ h[j] = StartValue(h, p, i, j)
    <3>1. CASE j = 0
      BY <3>1 DEF StartValue
    <3>2. CASE j # 0
      <4>1. j - 1 \in 0 .. k
        BY <3>2
      <4>2. h[j - 1] = g[j - 1] /\ g[j - 1] \in SeqNums
        BY <2>2, <4>1
      <4>3. h[j] = StartValue(g, p, i, j)
        OBVIOUS
      <4> HIDE DEF h
      <4>4. StartValue(g, p, i, j) = StartValue(h, p, i, j)
        BY <3>2, <4>2 DEF StartValue
      <4>5. SnNext(g[j - 1]) \in SeqNums
        BY <4>2, NextInRange
      <4> QED BY <3>2, <4>2, <4>3, <4>4, <4>5 DEF StartValue
    <3> QED BY <3>1, <3>2
  <2>4. IsStart(h, p, i, k + 1)
    <3>1. h \in [0 .. k + 1 -> SeqNums]
      BY <2>3
    <3> HIDE DEF h
    <3> QED BY <2>3, <3>1 DEF IsStart
  <2> QED BY <2>4
<1> HIDE DEF G
<1>3. m \in G
  BY <1>1, <1>2, NatClosed
<1> QED BY <1>3 DEF G

\* StartAfter is that table.
LEMMA StartTable ==
    ASSUME NEW p \in Seq(Int), NEW i \in SeqNums
    PROVE  IsStart(StartAfter(p, i), p, i, Len(p))
<1> DEFINE Eq(f) == f = [k \in 0 .. Len(p) |->
                          IF k = 0 THEN i
                          ELSE LET w == f[k - 1]
                               IN IF Seq12(p[k]) = w THEN SnNext(w) ELSE w]
           c == CHOOSE f : Eq(f)
<1>1. StartAfter(p, i) = c
  BY DEF StartAfter
<1>2. PICK f : IsStart(f, p, i, Len(p))
  <2>1. Len(p) \in Nat
    OBVIOUS
  <2> QED BY <2>1, StartExists
<1>3. Eq(f)
  BY <1>2 DEF IsStart, StartValue
<1>4. Eq(c)
  <2> HIDE DEF Eq
  <2> QED BY <1>3
<1> HIDE DEF c
<1>5. DOMAIN c = 0 .. Len(p) /\ \A k \in 0 .. Len(p) : c[k] = StartValue(c, p, i, k)
  BY <1>4 DEF StartValue
<1> DEFINE G == {k \in Nat : k <= Len(p) => c[k] \in SeqNums}
<1>6. 0 \in G
  BY <1>5 DEF StartValue
<1>7. ASSUME NEW k \in Nat, k \in G PROVE k + 1 \in G
  <2>1. SUFFICES ASSUME k + 1 <= Len(p) PROVE c[k + 1] \in SeqNums
    OBVIOUS
  <2>2. c[k] \in SeqNums /\ SnNext(c[k]) \in SeqNums
    BY <1>7, <2>1, NextInRange
  <2>3. c[k + 1] = StartValue(c, p, i, k + 1)
    BY <1>5, <2>1
  <2> QED BY <2>2, <2>3 DEF StartValue
<1> HIDE DEF G
<1>8. Nat \subseteq G
  BY <1>6, <1>7, NatClosed
<1>9. \A k \in 0 .. Len(p) : c[k] \in SeqNums
  BY <1>8 DEF G
<1>10. c = [k \in 0 .. Len(p) |-> c[k]]
  BY <1>4
<1> QED BY <1>1, <1>5, <1>9, <1>10 DEF IsStart

\* How far a test reaches along a sequence: the first place where it fails.
LEMMA FirstStop ==
    ASSUME NEW len \in Nat, NEW Bad
    PROVE  \E k \in 0 .. len : /\ \A j \in 1 .. k : j \notin Bad
                               /\ k < len => k + 1 \in Bad
<1> DEFINE T == {k \in Nat : k = len \/ (k < len /\ k + 1 \in Bad)}
<1>1. PICK k \in T : \A j \in T : k <= j
  <2>1. len \in T /\ T \in SUBSET Nat
    OBVIOUS
  <2> HIDE DEF T
  <2> QED BY <2>1, LeastNatural
<1>2. ASSUME NEW j \in 1 .. k PROVE j \notin Bad
  <2>1. j - 1 \in Nat /\ j - 1 < k /\ k <= len /\ k \in Nat /\ (j - 1) + 1 = j
    OBVIOUS
  <2>2. ~(k <= j - 1)
    BY <2>1
  <2>3. j - 1 \notin T
    BY <1>1, <2>2
  <2> QED BY <2>1, <2>3
<1> QED BY <1>1, <1>2

-----------------------------------------------------------------------------
(* recv_indicatepkts_in_order and enqueue_reorder_recvframe *)

\* The buffer is in the sender's order, without duplicates.
Sorted(p) == \A i, j \in 1 .. Len(p) : i < j => p[i] < p[j]

\* Frame j of p is not handed up when the window start is f[j - 1].
Stops(f, p, j) == SnLess(f[j - 1], Seq12(p[j]))

\* The first n frames go up, the rest stays, the window starts at v.
Split(p, n, v) == [up |-> SubSeq(p, 1, n), pend |-> SubSeq(p, n + 1, Len(p)), iseq |-> v]

\* The buffer is split where a frame first is beyond the window start.
LEMMA IndicateSplits ==
    ASSUME NEW p \in Seq(Int), NEW i \in SeqNums
    PROVE  \E n \in 0 .. Len(p) :
              /\ recv_indicatepkts_in_order(p, i) = Split(p, n, StartAfter(p, i)[n])
              /\ \A j \in 1 .. n : ~Stops(StartAfter(p, i), p, j)
              /\ n < Len(p) => Stops(StartAfter(p, i), p, n + 1)
<1> DEFINE f == StartAfter(p, i)
           goes(k) == \A j \in 1 .. k : ~SnLess(f[j - 1], Seq12(p[j]))
           P(k) == goes(k) /\ (k < Len(p) => ~goes(k + 1))
           c == CHOOSE k \in 0 .. Len(p) : P(k)
           Bad == {j \in 1 .. Len(p) : Stops(f, p, j)}
<1> HIDE DEF f
<1>1. recv_indicatepkts_in_order(p, i) = Split(p, c, f[c])
  BY DEF recv_indicatepkts_in_order, Split, f
<1>2. \E k \in 0 .. Len(p) : P(k)
  <2>0. Len(p) \in Nat
    OBVIOUS
  <2>1. PICK k \in 0 .. Len(p) : /\ \A j \in 1 .. k : j \notin Bad
                                 /\ k < Len(p) => k + 1 \in Bad
    <3> HIDE DEF Bad
    <3> QED BY <2>0, FirstStop
  <2>2. goes(k)
    BY <2>1 DEF Stops
  <2>3. k < Len(p) => ~goes(k + 1)
    BY <2>1 DEF Stops
  <2> QED BY <2>2, <2>3
<1>3. c \in 0 .. Len(p) /\ P(c)
  <2> HIDE DEF P
  <2> QED BY <1>2
<1> HIDE DEF c
<1>4. \A j \in 1 .. c : ~Stops(f, p, j)
  BY <1>3 DEF Stops
<1>5. ASSUME c < Len(p) PROVE Stops(f, p, c + 1)
  <2>1. PICK j \in 1 .. c + 1 : SnLess(f[j - 1], Seq12(p[j]))
    BY <1>3, <1>5
  <2>2. j = c + 1
    BY <1>3, <2>1
  <2> QED BY <2>1, <2>2 DEF Stops
<1> QED BY <1>1, <1>3, <1>4, <1>5 DEF f

\* The window start w after the first k frames of p went up, if it was W before:
\* beyond all of them, and moved only by them.
Passed(p, W, k, w) ==
    /\ W <= w
    /\ \A j \in 1 .. k : p[j] < w
    /\ w = W \/ \E j \in 1 .. k : w = p[j] + 1

\* r hands up the frames of p up to the first hole at or above W.
Indicated(p, W, r) ==
    \E n \in 0 .. Len(p), w \in Int :
        /\ r = Split(p, n, Seq12(w))
        /\ Passed(p, W, n, w)
        /\ \A j \in n + 1 .. Len(p) : p[j] > w

\* What recv_indicatepkts_in_order does to a buffer in order that is near the
\* window start W.
LEMMA IndicateInOrder ==
    ASSUME NEW p \in Seq(Int), Sorted(p), NEW W \in Int,
           \A k \in 1 .. Len(p) : p[k] - W < Half /\ W - p[k] < Half
    PROVE  Indicated(p, W, recv_indicatepkts_in_order(p, Seq12(W)))
<1> DEFINE f == StartAfter(p, Seq12(W))
<1>1. Seq12(W) \in SeqNums
  BY SeqFacts DEF SeqNums
<1>2. IsStart(f, p, Seq12(W), Len(p))
  BY <1>1, StartTable
<1>3. PICK n \in 0 .. Len(p) :
              /\ recv_indicatepkts_in_order(p, Seq12(W)) = Split(p, n, f[n])
              /\ \A j \in 1 .. n : ~Stops(f, p, j)
              /\ n < Len(p) => Stops(f, p, n + 1)
  BY <1>1, IndicateSplits
<1> HIDE DEF f
<1>4. \A k \in 0 .. Len(p) : f[k] = StartValue(f, p, Seq12(W), k)
  BY <1>2 DEF IsStart
<1>5. Len(p) \in Nat /\ \A k \in 1 .. Len(p) : p[k] \in Int
  OBVIOUS
<1>6. ASSUME NEW k \in 0 .. Len(p), NEW w \in Int, Passed(p, W, k, w), f[k] = Seq12(w),
             k < Len(p)
      PROVE  Stops(f, p, k + 1) <=> w < p[k + 1]
  <2>1. k + 1 \in 1 .. Len(p) /\ (k + 1) - 1 = k
    BY <1>5, <1>6
  <2>2. p[k + 1] \in Int /\ p[k + 1] - W < Half /\ W - p[k + 1] < Half
    BY <1>5, <2>1
  <2>3. w = W \/ w <= p[k + 1]
    <3>1. CASE w = W
      BY <3>1
    <3>2. ASSUME NEW j \in 1 .. k, w = p[j] + 1 PROVE w <= p[k + 1]
      <4>1. j \in 1 .. Len(p) /\ j < k + 1
        BY <1>5
      <4>2. p[j] < p[k + 1] /\ p[j] \in Int
        BY <1>5, <2>1, <4>1 DEF Sorted
      <4> QED BY <2>2, <3>2, <4>2
    <3> QED BY <1>6, <3>1, <3>2 DEF Passed
  <2>4. w - p[k + 1] < Half /\ p[k + 1] - w <= Half
    BY <1>6, <2>2, <2>3, Sizes DEF Passed
  <2>5. SnLess(Seq12(w), Seq12(p[k + 1])) <=> w < p[k + 1]
    BY <2>2, <2>4, LessDecodes
  <2> QED BY <1>6, <2>1, <2>5 DEF Stops
<1> DEFINE G == {k \in Nat : k <= n => \E w \in Int : f[k] = Seq12(w) /\ Passed(p, W, k, w)}
<1>7. 0 \in G
  <2>1. f[0] = Seq12(W) /\ Passed(p, W, 0, W)
    BY <1>4, <1>5 DEF StartValue, Passed
  <2> QED BY <2>1
<1>8. ASSUME NEW k \in Nat, k \in G PROVE k + 1 \in G
  <2>1. SUFFICES ASSUME k + 1 <= n
                 PROVE  \E w \in Int : f[k + 1] = Seq12(w) /\ Passed(p, W, k + 1, w)
    OBVIOUS
  <2>2. k \in 0 .. Len(p) /\ k < Len(p) /\ k + 1 \in 1 .. n /\ k + 1 \in 1 .. Len(p)
        /\ k + 1 # 0 /\ (k + 1) - 1 = k /\ k <= n
    BY <1>5, <2>1
  <2>3. PICK w \in Int : f[k] = Seq12(w) /\ Passed(p, W, k, w)
    BY <1>8, <2>2
  <2> HIDE DEF G
  <2>4. p[k + 1] \in Int /\ ~(w < p[k + 1])
    BY <1>3, <1>5, <1>6, <2>2, <2>3
  <2>5. f[k + 1] = IF Seq12(p[k + 1]) = f[k] THEN SnNext(f[k]) ELSE f[k]
    BY <1>4, <2>2 DEF StartValue
  <2>6. w - p[k + 1] < Half
    <3>1. CASE w = W
      BY <2>2, <3>1
    <3>2. ASSUME NEW j \in 1 .. k, w = p[j] + 1 PROVE w - p[k + 1] < Half
      <4>1. j \in 1 .. Len(p) /\ j < k + 1
        BY <1>5, <2>2
      <4>2. p[j] < p[k + 1] /\ p[j] \in Int
        BY <1>5, <2>2, <4>1 DEF Sorted
      <4> QED BY <2>4, <3>2, <4>2, Sizes
    <3> QED BY <2>3, <3>1, <3>2 DEF Passed
  <2>7. Seq12(w) = Seq12(p[k + 1]) <=> w = p[k + 1]
    <3>1. p[k + 1] - w <= Half
      BY <2>4, Sizes
    <3> QED BY <2>4, <2>6, <3>1, EqualDecodes
  <2>8. CASE w = p[k + 1]
    <3>1. f[k + 1] = Seq12(w + 1)
      BY <2>3, <2>5, <2>8, SeqFacts
    <3>2. Passed(p, W, k + 1, w + 1)
      <4>1. ASSUME NEW j \in 1 .. k + 1 PROVE p[j] < w + 1
        <5>1. CASE j = k + 1
          BY <5>1, <2>8
        <5>2. CASE j # k + 1
          <6>1. j \in 1 .. k /\ j \in 1 .. Len(p)
            BY <2>2, <5>2
          <6> QED BY <1>5, <2>3, <6>1 DEF Passed
        <5> QED BY <5>1, <5>2
      <4>2. W <= w + 1 /\ k + 1 \in 1 .. k + 1 /\ w + 1 = p[k + 1] + 1
        BY <2>3, <2>8 DEF Passed
      <4> QED BY <4>1, <4>2 DEF Passed
    <3> QED BY <3>1, <3>2
  <2>9. CASE w # p[k + 1]
    <3>1. f[k + 1] = Seq12(w)
      BY <2>3, <2>5, <2>7, <2>9
    <3>2. p[k + 1] < w
      BY <2>4, <2>9
    <3>3. \A j \in 1 .. k + 1 : j \in 1 .. k \/ j = k + 1
      OBVIOUS
    <3>4. \A j \in 1 .. k + 1 : p[j] < w
      BY <2>3, <3>2, <3>3 DEF Passed
    <3>5. \A j \in 1 .. k : j \in 1 .. k + 1
      OBVIOUS
    <3>6. Passed(p, W, k + 1, w)
      BY <2>3, <3>4, <3>5 DEF Passed
    <3> QED BY <3>1, <3>6
  <2> QED BY <2>8, <2>9
<1>9. n \in G
  <2> HIDE DEF G
  <2>1. Nat \subseteq G
    BY <1>7, <1>8, NatClosed
  <2> QED BY <1>5, <2>1
<1>10. PICK w \in Int : f[n] = Seq12(w) /\ Passed(p, W, n, w)
  BY <1>9
<1>11. ASSUME NEW j \in n + 1 .. Len(p) PROVE p[j] > w
  <2>1. n < Len(p) /\ n + 1 \in 1 .. Len(p) /\ j \in 1 .. Len(p)
    BY <1>5
  <2>2. w < p[n + 1]
    BY <1>3, <1>6, <1>10, <2>1
  <2>3. j = n + 1 \/ p[n + 1] < p[j]
    BY <2>1 DEF Sorted
  <2> QED BY <1>5, <2>1, <2>2, <2>3
<1>12. recv_indicatepkts_in_order(p, Seq12(W)) = Split(p, n, Seq12(w))
  BY <1>3, <1>10
<1> QED BY <1>10, <1>11, <1>12 DEF Indicated

\* The frames of p are less than half the sequence number space from n.
Near(p, n) == \A k \in 1 .. Len(p) : p[k] - n < Half /\ n - p[k] < Half

\* The scan of enqueue_reorder_recvframe stops in some place.
LEMMA BeforeStops ==
    ASSUME NEW p \in Seq(Int), NEW s
    PROVE  LET k == Before(p, s)
           IN /\ k \in 0 .. Len(p)
              /\ \A j \in 1 .. k : SnLess(Seq12(p[j]), s)
              /\ k < Len(p) => ~SnLess(Seq12(p[k + 1]), s)
<1> DEFINE P(k) == /\ \A j \in 1 .. k : SnLess(Seq12(p[j]), s)
                   /\ k < Len(p) => ~SnLess(Seq12(p[k + 1]), s)
           Bad == {j \in 1 .. Len(p) : ~SnLess(Seq12(p[j]), s)}
<1>1. Before(p, s) = CHOOSE k \in 0 .. Len(p) : P(k)
  BY DEF Before
<1>2. Len(p) \in Nat
  OBVIOUS
<1>3. PICK k \in 0 .. Len(p) : (\A j \in 1 .. k : j \notin Bad) /\ (k < Len(p) => k + 1 \in Bad)
  <2> HIDE DEF Bad
  <2> QED BY <1>2, FirstStop
<1>4. P(k)
  BY <1>3
<1>5. Before(p, s) \in 0 .. Len(p) /\ P(Before(p, s))
  <2> HIDE DEF P
  <2> QED BY <1>1, <1>4
<1> QED BY <1>5

\* It stops behind the frames that were sent before frame n, and recognises n.
LEMMA BeforeDecodes ==
    ASSUME NEW p \in Seq(Int), NEW n \in Int, Near(p, n)
    PROVE  LET k == Before(p, Seq12(n))
           IN /\ k \in 0 .. Len(p)
              /\ \A j \in 1 .. k : p[j] < n
              /\ k < Len(p) => p[k + 1] >= n
              /\ IsDuplicate(p, Seq12(n)) <=> k < Len(p) /\ p[k + 1] = n
<1> DEFINE k == Before(p, Seq12(n))
<1>1. /\ k \in 0 .. Len(p)
      /\ \A j \in 1 .. k : SnLess(Seq12(p[j]), Seq12(n))
      /\ k < Len(p) => ~SnLess(Seq12(p[k + 1]), Seq12(n))
  BY BeforeStops
<1> HIDE DEF k
<1>2. ASSUME NEW j \in 1 .. Len(p)
      PROVE  /\ p[j] \in Int
             /\ SnLess(Seq12(p[j]), Seq12(n)) <=> p[j] < n
             /\ Seq12(p[j]) = Seq12(n) <=> p[j] = n
  <2>1. p[j] \in Int /\ p[j] - n < Half /\ n - p[j] <= Half
    BY Sizes DEF Near
  <2> QED BY <2>1, LessDecodes, EqualDecodes
<1>3. \A j \in 1 .. k : p[j] < n
  <2>1. \A j \in 1 .. k : j \in 1 .. Len(p)
    BY <1>1
  <2> QED BY <1>1, <1>2, <2>1
<1>4. k < Len(p) => k + 1 \in 1 .. Len(p)
  BY <1>1
<1>5. k < Len(p) => p[k + 1] >= n
  BY <1>1, <1>2, <1>4
<1>6. IsDuplicate(p, Seq12(n)) <=> k < Len(p) /\ p[k + 1] = n
  BY <1>2, <1>4 DEF IsDuplicate, k
<1> QED BY <1>1, <1>3, <1>5, <1>6 DEF k

Insert(p, n, k) == SubSeq(p, 1, k) \o <<n>> \o SubSeq(p, k + 1, Len(p))

\* q is p with n behind the first k elements.
Inserted(q, p, n, k) ==
    /\ Len(q) = Len(p) + 1
    /\ \A j \in 1 .. Len(p) + 1 :
          q[j] = IF j <= k THEN p[j] ELSE IF j = k + 1 THEN n ELSE p[j - 1]

\* Inserting behind the first k frames.
LEMMA InsertShape ==
    ASSUME NEW T, NEW p \in Seq(T), NEW n \in T, NEW k \in 0 .. Len(p)
    PROVE  Insert(p, n, k) \in Seq(T) /\ Inserted(Insert(p, n, k), p, n, k)
<1> DEFINE a == SubSeq(p, 1, k)
           b == SubSeq(p, k + 1, Len(p))
           c == a \o <<n>>
<1>0. Len(p) \in Nat /\ k \in Nat /\ k <= Len(p)
  OBVIOUS
<1>1. /\ a \in Seq(T) /\ Len(a) = k /\ \A j \in 1 .. k : a[j] = p[j]
  OBVIOUS
<1>2. /\ b \in Seq(T) /\ Len(b) = Len(p) - k /\ \A j \in 1 .. Len(p) - k : b[j] = p[j + k]
  OBVIOUS
<1> HIDE DEF a, b
<1>3. /\ c \in Seq(T) /\ Len(c) = k + 1
      /\ \A j \in 1 .. k + 1 : c[j] = IF j <= k THEN p[j] ELSE n
  BY <1>1
<1> HIDE DEF c
<1>4. /\ c \o b \in Seq(T) /\ Len(c \o b) = Len(p) + 1
      /\ \A j \in 1 .. Len(p) + 1 : (c \o b)[j] = IF j <= k + 1 THEN c[j] ELSE b[j - (k + 1)]
  <2>0. b \in Seq(T) /\ c \in Seq(T)
    BY <1>2, <1>3
  <2>1. c \o b \in Seq(T) /\ Len(c \o b) = Len(c) + Len(b)
    BY <2>0
  <2>2. Len(c) + Len(b) = Len(p) + 1
    BY <1>0, <1>2, <1>3
  <2>3. \A j \in 1 .. Len(c) + Len(b) : (c \o b)[j] = IF j <= Len(c) THEN c[j] ELSE b[j - Len(c)]
    BY <2>0
  <2> QED BY <1>3, <2>1, <2>2, <2>3
<1>5. ASSUME NEW j \in 1 .. Len(p) + 1
      PROVE  (c \o b)[j] = IF j <= k THEN p[j] ELSE IF j = k + 1 THEN n ELSE p[j - 1]
  <2>1. CASE j <= k + 1
    BY <1>0, <1>3, <1>4, <2>1
  <2>2. CASE j > k + 1
    <3>1. /\ j - (k + 1) \in 1 .. Len(p) - k /\ (j - (k + 1)) + k = j - 1
          /\ ~(j <= k) /\ j # k + 1 /\ ~(j <= k + 1)
      BY <1>0, <2>2
    <3>2. (c \o b)[j] = b[j - (k + 1)]
      BY <1>4, <3>1
    <3>3. b[j - (k + 1)] = p[j - 1]
      BY <1>2, <3>1
    <3> QED BY <3>1, <3>2, <3>3
  <2>3. j <= k + 1 \/ j > k + 1
    BY <1>0
  <2> QED BY <2>1, <2>2, <2>3
<1> QED BY <1>4, <1>5 DEF a, b, c, Insert, Inserted

\* q is p and n, in order.
Enqueued(q, p, n) ==
    /\ Sorted(q)
    /\ \A j \in 1 .. Len(q) : q[j] = n \/ \E l \in 1 .. Len(p) : q[j] = p[l]
    /\ \E j \in 1 .. Len(q) : q[j] = n
    /\ \A l \in 1 .. Len(p) : \E j \in 1 .. Len(q) : q[j] = p[l]

\* enqueue_reorder_recvframe keeps the order.
LEMMA EnqueueInOrder ==
    ASSUME NEW T \in SUBSET Int, NEW p \in Seq(T), NEW n \in T, Sorted(p), Near(p, n),
           ~IsDuplicate(p, Seq12(n))
    PROVE  /\ enqueue_reorder_recvframe(p, n) \in Seq(T)
           /\ Enqueued(enqueue_reorder_recvframe(p, n), p, n)
<1> DEFINE k == Before(p, Seq12(n))
           q == enqueue_reorder_recvframe(p, n)
<1>0. p \in Seq(Int) /\ n \in Int /\ Len(p) \in Nat /\ \A j \in 1 .. Len(p) : p[j] \in Int
  <2>1. \A j \in 1 .. Len(p) : p[j] \in T
    OBVIOUS
  <2>2. p = [j \in 1 .. Len(p) |-> p[j]] /\ Len(p) \in Nat
    OBVIOUS
  <2>3. p \in Seq(Int)
    BY <2>1, <2>2
  <2> QED BY <2>1, <2>2, <2>3
<1>1. /\ k \in 0 .. Len(p)
      /\ \A j \in 1 .. k : p[j] < n
      /\ k < Len(p) => p[k + 1] > n
  <2>1. /\ k \in 0 .. Len(p)
        /\ \A j \in 1 .. k : p[j] < n
        /\ k < Len(p) => p[k + 1] >= n
        /\ IsDuplicate(p, Seq12(n)) <=> k < Len(p) /\ p[k + 1] = n
    BY <1>0, BeforeDecodes
  <2> HIDE DEF k
  <2>2. k < Len(p) => k + 1 \in 1 .. Len(p)
    BY <1>0, <2>1
  <2>3. k < Len(p) => p[k + 1] \in Int /\ p[k + 1] # n
    BY <1>0, <2>1, <2>2
  <2> QED BY <1>0, <2>1, <2>3
<1>2. q = Insert(p, n, k)
  BY DEF enqueue_reorder_recvframe, Insert
<1> HIDE DEF k, q
<1>3. /\ q \in Seq(T) /\ Len(q) = Len(p) + 1
      /\ \A j \in 1 .. Len(p) + 1 :
            q[j] = IF j <= k THEN p[j] ELSE IF j = k + 1 THEN n ELSE p[j - 1]
  <2>1. k \in 0 .. Len(p)
    BY <1>1
  <2>2. q \in Seq(T) /\ Inserted(q, p, n, k)
    BY <1>2, <2>1, InsertShape
  <2> QED BY <2>2 DEF Inserted
<1>4. ASSUME NEW j \in k + 1 .. Len(p) PROVE p[j] > n
  <2>1. k < Len(p) /\ j \in 1 .. Len(p) /\ k + 1 \in 1 .. Len(p)
    BY <1>1
  <2>2. j = k + 1 \/ p[k + 1] < p[j]
    BY <2>1 DEF Sorted
  <2> QED BY <1>0, <1>1, <2>1, <2>2
<1>5. ASSUME NEW j \in 1 .. Len(q)
      PROVE  \/ j <= k /\ j \in 1 .. k /\ j \in 1 .. Len(p) /\ q[j] = p[j]
             \/ j = k + 1 /\ q[j] = n
             \/ j > k + 1 /\ j - 1 \in k + 1 .. Len(p) /\ j - 1 \in 1 .. Len(p) /\ q[j] = p[j - 1]
  <2>1. j \in 1 .. Len(p) + 1 /\ k \in Nat /\ k <= Len(p) /\ j \in Nat
    BY <1>0, <1>1, <1>3
  <2>2. q[j] = IF j <= k THEN p[j] ELSE IF j = k + 1 THEN n ELSE p[j - 1]
    BY <1>3, <2>1
  <2>3. CASE j <= k
    BY <1>0, <2>1, <2>2, <2>3
  <2>4. CASE j = k + 1
    BY <1>0, <2>1, <2>2, <2>4
  <2>5. CASE j > k + 1
    BY <1>0, <2>1, <2>2, <2>5
  <2> QED BY <2>1, <2>3, <2>4, <2>5
<1>6. Sorted(q)
  <2>1. SUFFICES ASSUME NEW i \in 1 .. Len(q), NEW j \in 1 .. Len(q), i < j PROVE q[i] < q[j]
    BY DEF Sorted
  <2>2. CASE j <= k
    <3>1. j \in 1 .. Len(p) /\ q[j] = p[j]
      BY <1>1, <1>5, <2>2
    <3>2. i \in 1 .. Len(p) /\ q[i] = p[i]
      BY <1>1, <1>5, <2>1, <2>2
    <3> QED BY <2>1, <3>1, <3>2 DEF Sorted
  <2>3. CASE j = k + 1
    <3>1. q[j] = n
      BY <1>1, <1>5, <2>3
    <3>2. i \in 1 .. k /\ q[i] = p[i]
      BY <1>1, <1>5, <2>1, <2>3
    <3> QED BY <1>1, <3>1, <3>2
  <2>4. CASE j > k + 1
    <3>1. j - 1 \in k + 1 .. Len(p) /\ j - 1 \in 1 .. Len(p) /\ q[j] = p[j - 1]
      BY <1>1, <1>5, <2>4
    <3>2. p[j - 1] > n
      BY <1>4, <3>1
    <3>3. CASE i <= k
      <4>1. i \in 1 .. k /\ i \in 1 .. Len(p) /\ q[i] = p[i]
        BY <1>1, <1>5, <3>3
      <4>2. p[i] < n /\ p[i] \in Int /\ p[j - 1] \in Int
        BY <1>0, <1>1, <3>1, <4>1
      <4> QED BY <1>0, <3>1, <3>2, <4>1, <4>2
    <3>4. CASE i = k + 1
      <4>1. q[i] = n
        BY <1>1, <1>5, <3>4
      <4> QED BY <1>0, <3>1, <3>2, <4>1
    <3>5. CASE i > k + 1
      <4>1. i - 1 \in 1 .. Len(p) /\ q[i] = p[i - 1] /\ i - 1 < j - 1
        BY <1>1, <1>5, <2>1, <3>5
      <4> QED BY <3>1, <4>1 DEF Sorted
    <3> QED BY <1>1, <3>3, <3>4, <3>5
  <2> QED BY <1>1, <2>2, <2>3, <2>4
<1>7. \A j \in 1 .. Len(q) : q[j] = n \/ \E l \in 1 .. Len(p) : q[j] = p[l]
  BY <1>5
<1>8. k + 1 \in 1 .. Len(q) /\ q[k + 1] = n
  BY <1>0, <1>1, <1>3
<1>9. ASSUME NEW l \in 1 .. Len(p) PROVE \E j \in 1 .. Len(q) : q[j] = p[l]
  <2>1. CASE l <= k
    <3>1. l \in 1 .. Len(q) /\ q[l] = p[l]
      BY <1>0, <1>1, <1>3, <2>1
    <3> QED BY <3>1
  <2>2. CASE l > k
    <3>1. l + 1 \in 1 .. Len(q) /\ l + 1 \in 1 .. Len(p) + 1 /\ ~(l + 1 <= k) /\ l + 1 # k + 1
          /\ (l + 1) - 1 = l
      BY <1>0, <1>1, <1>3, <2>2
    <3>2. q[l + 1] = p[l]
      BY <1>3, <3>1
    <3> QED BY <3>1, <3>2
  <2> QED BY <1>0, <1>1, <2>1, <2>2
<1> QED BY <1>3, <1>6, <1>7, <1>8, <1>9 DEF q, Enqueued

\* Splitting a buffer in order leaves two in order.
LEMMA SplitInOrder ==
    ASSUME NEW T \in SUBSET Int, NEW p \in Seq(T), NEW n \in 0 .. Len(p), NEW v
    PROVE  LET r == Split(p, n, v)
           IN /\ r.up \in Seq(T) /\ r.pend \in Seq(T) /\ r.iseq = v
              /\ Len(r.up) = n /\ \A j \in 1 .. n : r.up[j] = p[j]
              /\ Len(r.pend) = Len(p) - n
              /\ \A j \in 1 .. Len(p) - n : r.pend[j] = p[j + n] /\ j + n \in n + 1 .. Len(p)
              /\ Sorted(p) => Sorted(r.up) /\ Sorted(r.pend)
<1> DEFINE a == SubSeq(p, 1, n)
           b == SubSeq(p, n + 1, Len(p))
<1>1. /\ a \in Seq(T) /\ Len(a) = n /\ \A j \in 1 .. n : a[j] = p[j] /\ j \in 1 .. Len(p)
  OBVIOUS
<1>2. /\ b \in Seq(T) /\ Len(b) = Len(p) - n
      /\ \A j \in 1 .. Len(p) - n : /\ b[j] = p[j + n] /\ j + n \in n + 1 .. Len(p)
                                    /\ j + n \in 1 .. Len(p)
  OBVIOUS
<1>3. Split(p, n, v).up = a /\ Split(p, n, v).pend = b /\ Split(p, n, v).iseq = v
  BY DEF Split
<1> HIDE DEF a, b
<1>4. Sorted(p) => Sorted(a)
  BY <1>1 DEF Sorted
<1>5. Sorted(p) => Sorted(b)
  <2>1. SUFFICES ASSUME Sorted(p), NEW i \in 1 .. Len(b), NEW j \in 1 .. Len(b), i < j
                 PROVE  b[i] < b[j]
    BY DEF Sorted
  <2>2. i + n < j + n
    BY <2>1, <1>2
  <2> QED BY <1>2, <2>1, <2>2 DEF Sorted
<1> QED BY <1>1, <1>2, <1>3, <1>4, <1>5

-----------------------------------------------------------------------------
(* The steps under the lock, on the set of buffered frames *)

Numbers == First .. MaxFrame

Elems(p) == {p[k] : k \in 1 .. Len(p)}

\* A sequence of frame numbers is one of integers.
LEMMA NumbersAreInts ==
    ASSUME NEW p \in Seq(Numbers)
    PROVE  /\ p \in Seq(Int) /\ Len(p) \in Nat /\ Numbers \in SUBSET Int
           /\ Elems(p) \subseteq Numbers /\ Elems(p) \subseteq Int
           /\ \A j \in 1 .. Len(p) : p[j] \in Elems(p) /\ p[j] \in Numbers /\ p[j] \in Int
<1>1. \A j \in 1 .. Len(p) : p[j] \in Numbers
  OBVIOUS
<1>2. p = [j \in 1 .. Len(p) |-> p[j]] /\ Len(p) \in Nat
  OBVIOUS
<1>3. Numbers \in SUBSET Int
  BY FrameAssumption DEF Numbers
<1>4. \A j \in 1 .. Len(p) : p[j] \in Int
  BY <1>1, <1>3
<1>5. p \in Seq(Int)
  BY <1>2, <1>4
<1> QED BY <1>1, <1>2, <1>3, <1>4, <1>5 DEF Elems

\* The frames a buffer has are at most as many as the numbers they span.
LEMMA SpanBoundsLength ==
    ASSUME NEW p \in Seq(Numbers), Sorted(p), NEW d \in Nat,
           \A x, y \in Elems(p) : x - y < d
    PROVE  Len(p) <= d
<1>1. Len(p) \in Nat /\ \A j \in 1 .. Len(p) : p[j] \in Elems(p) /\ p[j] \in Int
  BY NumbersAreInts
<1> DEFINE G == {k \in Nat : k + 1 <= Len(p) => p[k + 1] - p[1] >= k}
<1>2. 0 \in G
  BY <1>1
<1>3. ASSUME NEW k \in Nat, k \in G PROVE k + 1 \in G
  <2>1. SUFFICES ASSUME (k + 1) + 1 <= Len(p) PROVE p[(k + 1) + 1] - p[1] >= k + 1
    OBVIOUS
  <2>2. /\ 1 \in 1 .. Len(p) /\ k + 1 \in 1 .. Len(p) /\ (k + 1) + 1 \in 1 .. Len(p)
        /\ k + 1 < (k + 1) + 1 /\ k + 1 <= Len(p)
    BY <1>1, <2>1
  <2>3. p[k + 1] < p[(k + 1) + 1]
    BY <2>2 DEF Sorted
  <2>4. p[k + 1] - p[1] >= k
    BY <1>3, <2>2
  <2>5. p[1] \in Int /\ p[k + 1] \in Int /\ p[(k + 1) + 1] \in Int
    BY <1>1, <2>2
  <2> QED BY <2>3, <2>4, <2>5
<1> HIDE DEF G
<1>4. Nat \subseteq G
  BY <1>2, <1>3, NatClosed
<1>5. CASE Len(p) > 0
  <2>1. /\ Len(p) - 1 \in Nat /\ (Len(p) - 1) + 1 = Len(p)
        /\ 1 \in 1 .. Len(p) /\ Len(p) \in 1 .. Len(p)
    BY <1>1, <1>5
  <2>2. p[Len(p)] - p[1] >= Len(p) - 1
    BY <1>1, <1>4, <2>1 DEF G
  <2>3. p[Len(p)] - p[1] < d /\ p[Len(p)] \in Int /\ p[1] \in Int
    BY <1>1, <2>1
  <2> QED BY <1>1, <2>2, <2>3
<1> QED BY <1>1, <1>5

\* r hands frames of q up and keeps the others, both in order.
Parts(q, r) ==
    /\ r.up \in Seq(Numbers) /\ r.pend \in Seq(Numbers) /\ r.iseq \in SeqNums
    /\ Sorted(r.up) /\ Sorted(r.pend)
    /\ Elems(r.up) \subseteq Elems(q) /\ Elems(r.pend) \subseteq Elems(q)

\* The window start moved from W to w, over the frames handed up.
Moved(q, r, W, w) ==
    /\ r.iseq = Seq12(w) /\ W <= w
    /\ w = W \/ \E x \in Elems(q) : w = x + 1
    /\ \A x \in Elems(q) : x \in Elems(r.up) \/ x \in Elems(r.pend)
    /\ \A x \in Elems(r.up) : x < w
    /\ \A x \in Elems(r.pend) : w < x

\* r is q, split behind frame n.
Halves(q, n, r) ==
    /\ \A x \in Elems(r.up) : \E j \in 1 .. n : x = q[j]
    /\ \A x \in Elems(r.pend) : \E j \in n + 1 .. Len(q) : x = q[j]
    /\ \A x \in Elems(q) : x \in Elems(r.up) \/ x \in Elems(r.pend)

\* A split of a buffer in order is two parts of it.
LEMMA SplitParts ==
    ASSUME NEW q \in Seq(Numbers), Sorted(q), NEW n \in 0 .. Len(q), NEW v \in SeqNums, NEW r,
           r = Split(q, n, v)
    PROVE  Parts(q, r) /\ r.iseq = v /\ Halves(q, n, r)
<1>1. Len(q) \in Nat /\ Numbers \in SUBSET Int
  BY NumbersAreInts
<1>2. /\ r.up \in Seq(Numbers) /\ r.pend \in Seq(Numbers) /\ r.iseq = v
      /\ Len(r.up) = n /\ \A j \in 1 .. n : r.up[j] = q[j]
      /\ Len(r.pend) = Len(q) - n
      /\ \A j \in 1 .. Len(q) - n : r.pend[j] = q[j + n] /\ j + n \in n + 1 .. Len(q)
      /\ Sorted(r.up) /\ Sorted(r.pend)
  BY <1>1, SplitInOrder
<1>3. ASSUME NEW x \in Elems(r.up)
      PROVE  x \in Elems(q) /\ \E j \in 1 .. n : x = q[j]
  <2>1. PICK j \in 1 .. n : x = r.up[j]
    BY <1>2 DEF Elems
  <2>2. j \in 1 .. Len(q)
    BY <1>1
  <2> QED BY <1>2, <2>1, <2>2 DEF Elems
<1>4. ASSUME NEW x \in Elems(r.pend)
      PROVE  x \in Elems(q) /\ \E j \in n + 1 .. Len(q) : x = q[j]
  <2>1. PICK j \in 1 .. Len(q) - n : x = r.pend[j]
    BY <1>2 DEF Elems
  <2>2. x = q[j + n] /\ j + n \in n + 1 .. Len(q) /\ j + n \in 1 .. Len(q)
    BY <1>1, <1>2, <2>1
  <2> QED BY <2>2 DEF Elems
<1>5. ASSUME NEW x \in Elems(q) PROVE x \in Elems(r.up) \/ x \in Elems(r.pend)
  <2>1. PICK j \in 1 .. Len(q) : x = q[j]
    BY DEF Elems
  <2>2. CASE j <= n
    <3>1. j \in 1 .. n
      BY <1>1, <2>2
    <3> QED BY <1>2, <2>1, <3>1 DEF Elems
  <2>3. CASE j > n
    <3>1. j - n \in 1 .. Len(q) - n /\ (j - n) + n = j
      BY <1>1, <2>3
    <3>2. r.pend[j - n] = x
      BY <1>2, <2>1, <3>1
    <3> QED BY <1>2, <3>1, <3>2 DEF Elems
  <2> QED BY <1>1, <2>2, <2>3
<1> QED BY <1>2, <1>3, <1>4, <1>5 DEF Parts, Halves

\* recv_indicatepkts_in_order, wherever the window starts.
LEMMA IndicateParts ==
    ASSUME NEW q \in Seq(Numbers), Sorted(q), NEW i \in SeqNums
    PROVE  Parts(q, recv_indicatepkts_in_order(q, i))
<1>1. q \in Seq(Int)
  BY NumbersAreInts
<1>2. IsStart(StartAfter(q, i), q, i, Len(q))
  BY <1>1, StartTable
<1>3. PICK n \in 0 .. Len(q) :
         recv_indicatepkts_in_order(q, i) = Split(q, n, StartAfter(q, i)[n])
  BY <1>1, IndicateSplits
<1>4. StartAfter(q, i)[n] \in SeqNums
  BY <1>2 DEF IsStart
<1> QED BY <1>3, <1>4, SplitParts

\* recv_indicatepkts_in_order, when the window starts near the buffer.
LEMMA IndicateMoves ==
    ASSUME NEW q \in Seq(Numbers), Sorted(q), NEW W \in Int,
           \A x \in Elems(q) : x - W < Half /\ W - x < Half
    PROVE  \E w \in Int : Moved(q, recv_indicatepkts_in_order(q, Seq12(W)), W, w)
<1>1. q \in Seq(Int) /\ \A j \in 1 .. Len(q) : q[j] \in Elems(q)
  BY NumbersAreInts
<1>2. \A k \in 1 .. Len(q) : q[k] - W < Half /\ W - q[k] < Half
  BY <1>1
<1> DEFINE r == recv_indicatepkts_in_order(q, Seq12(W))
<1>3. PICK n \in 0 .. Len(q), w \in Int :
              /\ r = Split(q, n, Seq12(w))
              /\ Passed(q, W, n, w)
              /\ \A j \in n + 1 .. Len(q) : q[j] > w
  <2>1. Indicated(q, W, r)
    BY <1>1, <1>2, IndicateInOrder
  <2> QED BY <2>1 DEF Indicated
<1> HIDE DEF r
<1>4. Seq12(w) \in SeqNums
  BY SeqFacts DEF SeqNums
<1>5. /\ r.iseq = Seq12(w)
      /\ \A x \in Elems(r.up) : \E j \in 1 .. n : x = q[j]
      /\ \A x \in Elems(r.pend) : \E j \in n + 1 .. Len(q) : x = q[j]
      /\ \A x \in Elems(q) : x \in Elems(r.up) \/ x \in Elems(r.pend)
  <2>1. r.iseq = Seq12(w) /\ Halves(q, n, r)
    <3>1. r = Split(q, n, Seq12(w))
      BY <1>3
    <3> QED BY <1>4, <3>1, SplitParts
  <2> QED BY <2>1 DEF Halves
<1>6. \A x \in Elems(r.up) : x < w
  BY <1>3, <1>5 DEF Passed
<1>7. \A x \in Elems(r.pend) : w < x
  <2>1. \A j \in n + 1 .. Len(q) : w < q[j]
    <3>1. \A j \in n + 1 .. Len(q) : j \in 1 .. Len(q) /\ q[j] \in Int
      BY <1>1
    <3> QED BY <1>3, <3>1
  <2> QED BY <1>5, <2>1
<1>8. w = W \/ \E x \in Elems(q) : w = x + 1
  <2>1. \A j \in 1 .. n : j \in 1 .. Len(q)
    OBVIOUS
  <2> QED BY <1>1, <1>3, <2>1 DEF Passed
<1>9. Moved(q, r, W, w)
  BY <1>3, <1>5, <1>6, <1>7, <1>8 DEF Moved, Passed
<1> QED BY <1>9 DEF r

\* enqueue_reorder_recvframe adds the frame and keeps the order.
LEMMA EnqueueAdds ==
    ASSUME NEW p \in Seq(Numbers), Sorted(p), NEW f \in Numbers,
           \A x \in Elems(p) : x - f < Half /\ f - x < Half
    PROVE  /\ IsDuplicate(p, Seq12(f)) => f \in Elems(p)
           /\ ~IsDuplicate(p, Seq12(f)) =>
                /\ enqueue_reorder_recvframe(p, f) \in Seq(Numbers)
                /\ Sorted(enqueue_reorder_recvframe(p, f))
                /\ Elems(enqueue_reorder_recvframe(p, f)) = Elems(p) \union {f}
<1>1. /\ p \in Seq(Int) /\ Len(p) \in Nat /\ f \in Int /\ Numbers \in SUBSET Int
      /\ \A j \in 1 .. Len(p) : p[j] \in Elems(p)
  BY NumbersAreInts
<1>2. Near(p, f)
  BY <1>1 DEF Near
<1>3. IsDuplicate(p, Seq12(f)) => f \in Elems(p)
  <2> DEFINE k == Before(p, Seq12(f))
  <2>1. /\ k \in 0 .. Len(p)
        /\ IsDuplicate(p, Seq12(f)) <=> k < Len(p) /\ p[k + 1] = f
    BY <1>1, <1>2, BeforeDecodes
  <2> HIDE DEF k
  <2>2. k < Len(p) => k + 1 \in 1 .. Len(p)
    BY <1>1, <2>1
  <2> QED BY <1>1, <2>1, <2>2
<1>4. ASSUME ~IsDuplicate(p, Seq12(f))
      PROVE  LET q == enqueue_reorder_recvframe(p, f)
             IN q \in Seq(Numbers) /\ Sorted(q) /\ Elems(q) = Elems(p) \union {f}
  <2> DEFINE q == enqueue_reorder_recvframe(p, f)
  <2>1. /\ q \in Seq(Numbers) /\ Sorted(q)
        /\ \A j \in 1 .. Len(q) : q[j] = f \/ \E l \in 1 .. Len(p) : q[j] = p[l]
        /\ \E j \in 1 .. Len(q) : q[j] = f
        /\ \A l \in 1 .. Len(p) : \E j \in 1 .. Len(q) : q[j] = p[l]
    <3>1. q \in Seq(Numbers) /\ Enqueued(q, p, f)
      BY <1>1, <1>2, <1>4, EnqueueInOrder
    <3> HIDE DEF q
    <3> QED BY <3>1 DEF Enqueued
  <2> HIDE DEF q
  <2>2. Elems(q) = Elems(p) \union {f}
    <3>1. ASSUME NEW x \in Elems(q) PROVE x \in Elems(p) \union {f}
      BY <2>1 DEF Elems
    <3>2. f \in Elems(q)
      BY <2>1 DEF Elems
    <3>3. ASSUME NEW x \in Elems(p) PROVE x \in Elems(q)
      <4>1. PICK l \in 1 .. Len(p) : x = p[l]
        BY DEF Elems
      <4>2. PICK j \in 1 .. Len(q) : q[j] = p[l]
        BY <2>1
      <4> QED BY <4>1, <4>2 DEF Elems
    <3> QED BY <3>1, <3>2, <3>3
  <2> QED BY <2>1, <2>2 DEF q
<1> QED BY <1>3, <1>4

-----------------------------------------------------------------------------
(* Type correctness, and the order of the buffer *)

\* Frames that arrived, and that the sender has not left half the space behind.
Recent(p, new, low) == \A x \in Elems(p) : x <= new /\ low + WSize - x < Half

\* The frame that waits for the lock is of the sender's window at its arrival.
LockInv ==
    rx = "lock" => /\ frame \in Numbers /\ frame <= newest
                   /\ newest - frame < WSize /\ frame < lo + WSize

\* What is buffered is in order and, with the frame that waits for the lock,
\* so near that comparing sequence numbers compares the frames.
SpanInv ==
    /\ lo - newest <= MaxLoss /\ newest < lo + WSize
    /\ Sorted(pend) /\ Recent(pend, newest, lo)
    /\ LockInv

OrderInv == TypeOK /\ SpanInv

\* TypeOK, the flags apart from the data.
Flags ==
    /\ enable \in BOOLEAN /\ ack \in BOOLEAN /\ waiting \in BOOLEAN /\ armed \in BOOLEAN
    /\ handler \in BOOLEAN /\ stopped \in BOOLEAN /\ back \in BOOLEAN

Data ==
    /\ iseq \in {Unset} \union SeqNums
    /\ pend \in Seq(Numbers) /\ up \in Seq(Numbers)
    /\ rx \in {"idle", "lock", "cancel", "after"}
    /\ frame \in {NoFrame} \union Numbers /\ top \in {NoFrame} \union Numbers
    /\ cmd \in {"idle", "accept", "reject"}
    /\ sta \in {"hashed", "unhashed", "cancelled", "freed"}
    /\ lo \in Nat /\ newest \in Nat
    /\ addbas \in 0 .. MaxAddBa /\ joins \in 0 .. MaxJoin /\ bars \in 0 .. MaxBar

\* TypeOK is the two together, before and after a step.
LEMMA TypeSplits == (TypeOK <=> Flags /\ Data) /\ (TypeOK' <=> Flags' /\ Data')
BY DEF TypeOK, Flags, Data, SeqNums, Numbers

\* The empty buffer.
LEMMA EmptyFacts ==
    /\ <<>> \in Seq(Numbers) /\ Sorted(<<>>) /\ Elems(<<>>) = {}
    /\ \A a, b : Recent(<<>>, a, b)
BY DEF Sorted, Recent, Elems

\* A new station has no frames.
LEMMA OrderInit == Init => OrderInv
<1>1. Sorted(<<>>) /\ \A a, b : Recent(<<>>, a, b)
  BY EmptyFacts
<1>2. Init => TypeOK
  <2>1. Init => Flags
    BY DEF Init, Flags
  <2>2. Init => Data
    BY EmptyFacts, FrameAssumption, BoundAssumption DEF Init, Data
  <2> QED BY <2>1, <2>2, TypeSplits
<1>3. Init => lo - newest <= MaxLoss /\ newest < lo + WSize
  BY Sizes, FrameAssumption DEF Init
<1> QED BY <1>1, <1>2, <1>3 DEF Init, OrderInv, SpanInv, LockInv

\* Steps that leave the buffer alone or empty it.
LEMMA SpanKept ==
    ASSUME OrderInv, UNCHANGED <<lo, newest>>, pend' = pend \/ pend' = <<>>,
           (rx' = rx /\ frame' = frame) \/ rx' # "lock"
    PROVE  SpanInv'
<1>1. Sorted(<<>>) /\ \A a, b : Recent(<<>>, a, b)
  BY DEF Sorted, Recent, Elems
<1> QED BY <1>1 DEF OrderInv, SpanInv, LockInv

\* The frame that has the lock is near all that is buffered.
LEMMA LockedNear ==
    ASSUME OrderInv, rx = "lock"
    PROVE  /\ pend \in Seq(Numbers) /\ Sorted(pend) /\ frame \in Numbers
           /\ Elems(pend) \subseteq Int /\ frame \in Int /\ lo \in Int /\ newest \in Int
           /\ \A x \in Elems(pend) : /\ x - frame < WSize /\ x - frame < Half
                                     /\ frame - x < Half - 1
           /\ frame <= newest /\ lo + WSize - frame < Half
<1>1. /\ pend \in Seq(Numbers) /\ Sorted(pend) /\ frame \in Numbers /\ lo \in Int /\ newest \in Int
      /\ frame <= newest /\ newest - frame < WSize /\ frame < lo + WSize
      /\ lo - newest <= MaxLoss
      /\ \A x \in Elems(pend) : x <= newest /\ lo + WSize - x < Half
  BY DEF OrderInv, SpanInv, LockInv, TypeOK, Recent, Numbers
<1>2. Elems(pend) \subseteq Int /\ frame \in Int
  BY <1>1, NumbersAreInts
<1>3. ASSUME NEW x \in Elems(pend)
      PROVE  x - frame < WSize /\ x - frame < Half /\ frame - x < Half - 1
  <2>1. x \in Int /\ x <= newest /\ lo + WSize - x < Half
    BY <1>1, <1>2
  <2> QED BY <1>1, <1>2, <2>1, Sizes
<1>4. lo + WSize - frame < Half
  BY <1>1, <1>2, Sizes
<1> QED BY <1>1, <1>2, <1>3, <1>4

\* WinStart and check_indicate_seq give a sequence number.
LEMMA WindowTypes ==
    ASSUME TypeOK, rx = "lock", frame \in Numbers, NEW i, i = WinStart(Seq12(frame))
    PROVE  /\ Seq12(frame) \in SeqNums /\ i \in SeqNums
           /\ check_indicate_seq(i, Seq12(frame)) \in SeqNums
<1>1. frame \in Int
  BY FrameAssumption DEF Numbers
<1>2. Seq12(frame) \in SeqNums
  BY <1>1, SeqFacts DEF SeqNums
<1>3. i \in SeqNums
  BY <1>2 DEF WinStart, TypeOK, SeqNums
<1>4. SnNext(i) \in SeqNums
  BY <1>3, NextInRange
<1>5. (Seq12(frame) + 1 - WSize) % Space \in SeqNums
  <2>1. Seq12(frame) + 1 - WSize \in Int
    BY <1>2, Sizes DEF SeqNums
  <2> QED BY <2>1, ModDef DEF SeqNums
<1> QED BY <1>2, <1>3, <1>4, <1>5 DEF check_indicate_seq

\* What HandUp hands up, and the ghost that follows it.
LEMMA HandUpTypes ==
    ASSUME TypeOK, NEW s \in Seq(Numbers), HandUp(s)
    PROVE  up' \in Seq(Numbers) /\ top' \in {NoFrame} \union Numbers
<1>1. s # <<>> => Last(s) \in Numbers
  BY DEF Last
<1> QED BY <1>1, Zenon DEF HandUp, TypeOK, Numbers

\* Of a buffer in order, a part stays in the buffer.
LEMMA SpanParts ==
    ASSUME NEW p, NEW q, NEW new, NEW low, Elems(q) \subseteq Elems(p), Recent(p, new, low)
    PROVE  Recent(q, new, low)
BY DEF Recent

\* The tasklet's sections under the lock.
LEMMA OrderRxLocked ==
    ASSUME OrderInv, RxBelowWindow \/ RxInBuffer \/ RxInsert
    PROVE  OrderInv'
<1> DEFINE s == Seq12(frame)
           i == WinStart(s)
<1>1. rx = "lock"
  BY DEF RxBelowWindow, RxInBuffer, RxInsert, RxLock
<1>2. TypeOK /\ frame \in Numbers /\ <<>> \in Seq(Numbers)
  BY <1>1, LockedNear DEF OrderInv
<1>3. /\ s \in SeqNums /\ i \in SeqNums
      /\ check_indicate_seq(i, s) \in SeqNums
  BY <1>1, <1>2, WindowTypes
<1> HIDE DEF s, i
<1>4. /\ ack' = FALSE /\ back' = (back /\ ~ack)
      /\ UNCHANGED <<enable, handler, frame, cmd, sta, stopped, addbas, joins, lo, newest, bars>>
  BY DEF RxBelowWindow, RxInBuffer, RxInsert, RxLock, life, air
<1>5. CASE RxBelowWindow
  <2>1. /\ UNCHANGED <<pend, waiting, armed>> /\ rx' = "idle" /\ iseq' \in SeqNums
        /\ HandUp(<<>>)
    BY <1>3, <1>5 DEF RxBelowWindow, s, i
  <2>2. up' \in Seq(Numbers) /\ top' \in {NoFrame} \union Numbers
    BY <1>2, <2>1, HandUpTypes
  <2>3. SpanInv'
    BY <1>4, <2>1, SpanKept
  <2> QED BY <1>2, <1>4, <2>1, <2>2, <2>3 DEF OrderInv, TypeOK, SeqNums, Numbers
<1>6. CASE RxInBuffer
  <2>1. /\ UNCHANGED <<pend, waiting, armed>> /\ rx' = "idle" /\ iseq' \in SeqNums
        /\ HandUp(<<>>)
    BY <1>3, <1>6 DEF RxInBuffer, s, i
  <2>2. up' \in Seq(Numbers) /\ top' \in {NoFrame} \union Numbers
    BY <1>2, <2>1, HandUpTypes
  <2>3. SpanInv'
    BY <1>4, <2>1, SpanKept
  <2> QED BY <1>2, <1>4, <2>1, <2>2, <2>3 DEF OrderInv, TypeOK, SeqNums, Numbers
<1>7. CASE RxInsert
  <2> DEFINE q == enqueue_reorder_recvframe(pend, frame)
             r == recv_indicatepkts_in_order(q, check_indicate_seq(i, s))
  <2>1. /\ ~IsDuplicate(pend, s)
        /\ iseq' = r.iseq /\ pend' = r.pend /\ HandUp(r.up)
        /\ rx' \in {"idle", "cancel"} /\ waiting' \in BOOLEAN
        /\ armed' = (armed \/ ~waiting) \/ armed' = armed
    BY <1>7, Zenon DEF RxInsert, s, i
  <2>2. /\ pend \in Seq(Numbers) /\ Sorted(pend)
        /\ \A x \in Elems(pend) : x - frame < Half /\ frame - x < Half
        /\ frame <= newest /\ lo + WSize - frame < Half
    BY <1>1, LockedNear, Sizes
  <2>3. q \in Seq(Numbers) /\ Sorted(q) /\ Elems(q) = Elems(pend) \union {frame}
    BY <1>2, <2>1, <2>2, EnqueueAdds DEF s
  <2> HIDE DEF q
  <2>4. Parts(q, r)
    BY <1>3, <2>3, IndicateParts
  <2> HIDE DEF r
  <2>5. up' \in Seq(Numbers) /\ top' \in {NoFrame} \union Numbers
    BY <1>2, <2>1, <2>4, HandUpTypes DEF Parts
  <2>6. Recent(q, newest, lo)
    BY <2>2, <2>3 DEF OrderInv, SpanInv, Recent
  <2>7. pend' \in Seq(Numbers) /\ Sorted(pend') /\ Recent(pend', newest, lo) /\ iseq' \in SeqNums
    BY <2>1, <2>4, <2>6, SpanParts DEF Parts
  <2>8. SpanInv'
    BY <1>4, <2>1, <2>7 DEF OrderInv, SpanInv, LockInv
  <2>9. armed' \in BOOLEAN
    BY <1>2, <2>1 DEF TypeOK
  <2> QED BY <1>2, <1>4, <2>1, <2>5, <2>7, <2>8, <2>9 DEF OrderInv, TypeOK, SeqNums, Numbers
<1> QED BY <1>5, <1>6, <1>7

\* The timer expires, and its handler runs under the lock.
LEMMA OrderTimer ==
    ASSUME OrderInv, Timer
    PROVE  OrderInv'
<1>0. TypeOK /\ <<>> \in Seq(Numbers)
  BY DEF OrderInv
<1>1. CASE TimerFires
  <2>1. SpanInv'
    BY <1>1, SpanKept DEF TimerFires, ctrl, air
  <2>2. Flags'
    BY <1>0, <1>1, TypeSplits, Zenon DEF Flags, TimerFires, ctrl, life
  <2>3. Data'
    BY <1>0, <1>1, TypeSplits DEF Data, TimerFires, ctrl, life, air
  <2> QED BY <2>1, <2>2, <2>3, TypeSplits DEF OrderInv
<1>2. CASE TimerLocked
  <2> DEFINE r == recv_indicatepkts_in_order(pend, Seq12(Head(pend)))
  <2>1. /\ handler' = FALSE /\ waiting' = FALSE
        /\ UNCHANGED <<enable, ack, rx, frame, life, air, back>>
    BY <1>2 DEF TimerLocked
  <2>2. CASE pend = <<>>
    <3>1. armed' = TRUE /\ HandUp(<<>>) /\ UNCHANGED <<iseq, pend>>
      BY <1>2, <2>2, Zenon DEF TimerLocked
    <3>2. up' \in Seq(Numbers) /\ top' \in {NoFrame} \union Numbers
      BY <1>0, <3>1, HandUpTypes
    <3>3. SpanInv'
      BY <2>1, <3>1, SpanKept DEF air
    <3>4. Flags'
      BY <1>0, <2>1, <3>1, TypeSplits, Zenon DEF Flags, life
    <3>5. Data'
      BY <1>0, <2>1, <3>1, <3>2, TypeSplits DEF Data, life, air
    <3> QED BY <3>3, <3>4, <3>5, TypeSplits DEF OrderInv
  <2>3. CASE pend # <<>>
    <3>1. /\ iseq' = r.iseq /\ pend' = r.pend /\ HandUp(r.up)
          /\ armed' = (armed \/ r.pend # <<>>)
      BY <1>2, <2>3, Zenon DEF TimerLocked
    <3>2. /\ pend \in Seq(Numbers) /\ Sorted(pend)
      BY <1>0 DEF OrderInv, SpanInv, TypeOK, Numbers
    <3>3. Seq12(Head(pend)) \in SeqNums
      <4>1. Head(pend) \in Numbers
        BY <2>3, <3>2
      <4>2. Head(pend) \in Int
        BY <4>1, FrameAssumption DEF Numbers
      <4> QED BY <4>2, SeqFacts DEF SeqNums
    <3>4. Parts(pend, r)
      BY <3>2, <3>3, IndicateParts
    <3> HIDE DEF r
    <3>5. up' \in Seq(Numbers) /\ top' \in {NoFrame} \union Numbers
      BY <1>0, <3>1, <3>4, HandUpTypes DEF Parts
    <3>6. pend' \in Seq(Numbers) /\ Sorted(pend') /\ Recent(pend', newest, lo) /\ iseq' \in SeqNums
      BY <3>1, <3>4, SpanParts DEF Parts, OrderInv, SpanInv
    <3>7. SpanInv'
      BY <2>1, <3>6 DEF OrderInv, SpanInv, LockInv, air
    <3>8. armed' \in BOOLEAN
      BY <1>0, <3>1 DEF TypeOK
    <3> QED BY <1>0, <2>1, <3>1, <3>5, <3>6, <3>7, <3>8
            DEF OrderInv, TypeOK, life, air, SeqNums, Numbers
  <2> QED BY <2>2, <2>3
<1> QED BY <1>1, <1>2 DEF Timer

\* A frame arrives.
LEMMA OrderRxFrame ==
    ASSUME OrderInv, NEW n \in First .. MaxFrame, RxFrame(n)
    PROVE  OrderInv'
<1>0. TypeOK /\ n \in Int /\ lo \in Int /\ newest \in Int /\ <<n>> \in Seq(First .. MaxFrame)
  BY FrameAssumption DEF OrderInv, TypeOK
<1>1. /\ n >= lo /\ n < lo + WSize
      /\ frame' = n
      /\ newest' = IF n > newest THEN n ELSE newest
      /\ UNCHANGED <<enable, ack, pend, waiting, armed, handler, cmd, sta, stopped, addbas,
                     joins, lo, bars, back>>
  BY <1>0, Sizes DEF RxFrame, life
<1>2. /\ rx' \in {"lock", "after"} /\ up' \in Seq(First .. MaxFrame)
      /\ top' = top \/ top' = NoFrame
      /\ iseq' = iseq \/ iseq' = Seq12(n)
  BY <1>0, EmptyFacts DEF RxFrame, Numbers
<1>3. Seq12(n) \in 0 .. Space - 1
  BY <1>0, SeqFacts
<1>4. TypeOK'
  <2>1. newest' \in Nat /\ lo' \in Nat
    BY <1>0, <1>1, FrameAssumption DEF TypeOK
  <2> QED BY <1>0, <1>1, <1>2, <1>3, <2>1 DEF TypeOK
<1>5. newest <= newest' /\ newest' \in Int /\ n <= newest' /\ (newest' = n \/ newest' = newest)
  BY <1>0, <1>1
<1>6. Recent(pend, newest', lo)
  <2>1. Elems(pend) \subseteq Int
    BY <1>0, NumbersAreInts DEF TypeOK, Numbers
  <2> QED BY <1>0, <1>5, <2>1 DEF OrderInv, SpanInv, Recent
<1>7. lo - newest' <= MaxLoss /\ newest' < lo + WSize /\ newest' - n < WSize
  BY <1>0, <1>1, <1>5, Sizes DEF OrderInv, SpanInv
<1>8. SpanInv'
  BY <1>1, <1>5, <1>6, <1>7 DEF OrderInv, SpanInv, LockInv, Numbers
<1> QED BY <1>4, <1>8 DEF OrderInv

\* The sender's window advances.
LEMMA OrderSender ==
    ASSUME OrderInv, SenderAdvance
    PROVE  OrderInv'
<1>0. /\ TypeOK /\ lo \in Nat /\ newest \in Nat /\ pend \in Seq(Numbers)
      /\ Elems(pend) \subseteq Int
      /\ \A j \in 1 .. Len(pend) : pend[j] \in Elems(pend) /\ pend[j] \in Int
  <2>1. TypeOK /\ lo \in Nat /\ newest \in Nat /\ pend \in Seq(Numbers)
    BY DEF OrderInv, TypeOK, Numbers
  <2> QED BY <2>1, NumbersAreInts
<1>1. /\ lo' = lo + 1 /\ up' = <<>>
      /\ lo + 1 - newest <= MaxLoss
      /\ pend # <<>> => lo + 1 + WSize - pend[1] < Half
      /\ UNCHANGED <<ctrl, armed, handler, rx, frame, life, newest, bars, top, back>>
  BY DEF SenderAdvance
<1>2. TypeOK'
  BY <1>0, <1>1 DEF TypeOK, ctrl, life
<1>3. Recent(pend, newest, lo + 1)
  <2>1. SUFFICES ASSUME NEW x \in Elems(pend)
                 PROVE  x <= newest /\ (lo + 1) + WSize - x < Half
    BY DEF Recent
  <2>2. PICK j \in 1 .. Len(pend) : x = pend[j]
    BY DEF Elems
  <2>3. pend # <<>> /\ 1 \in 1 .. Len(pend) /\ Len(pend) \in Nat
    BY <1>0, <2>2
  <2>4. pend[1] <= x /\ pend[1] \in Int /\ x \in Int
    BY <1>0, <2>2, <2>3 DEF OrderInv, SpanInv, Sorted
  <2>5. x <= newest
    BY DEF OrderInv, SpanInv, Recent
  <2> QED BY <1>0, <1>1, <2>3, <2>4, <2>5, Sizes
<1>4. lo + 1 - newest <= MaxLoss /\ newest < lo + 1 + WSize
      /\ \A f \in Int : f < lo + WSize => f < lo + 1 + WSize
  BY <1>0, <1>1, Sizes DEF OrderInv, SpanInv
<1>5. LockInv'
  <2>1. frame \in Numbers => frame \in Int
    BY FrameAssumption DEF Numbers
  <2> QED BY <1>1, <1>4, <2>1 DEF OrderInv, SpanInv, LockInv
<1>6. SpanInv'
  <2>1. pend' = pend /\ newest' = newest /\ lo' = lo + 1
    BY <1>1 DEF ctrl
  <2>2. Sorted(pend)
    BY DEF OrderInv, SpanInv
  <2>3. Sorted(pend')
    BY <2>1, <2>2
  <2>4. Recent(pend', newest', lo')
    BY <1>3, <2>1
  <2>5. lo' - newest' <= MaxLoss /\ newest' < lo' + WSize
    BY <1>0, <1>4, <2>1, Sizes
  <2> QED BY <1>5, <2>3, <2>4, <2>5 DEF SpanInv
<1> QED BY <1>2, <1>6 DEF OrderInv

\* Steps that only change flags, counters and the window start.
LEMMA OrderQuiet ==
    ASSUME OrderInv,
           RxAfter \/ RxCancel \/ Bar \/ Session \/ Free \/ Stop
    PROVE  OrderInv'
<1>0. Flags /\ Data /\ lo \in Int
  BY TypeSplits DEF OrderInv, Data
<1> USE DEF ctrl, life, air
<1>1. SnNext(iseq) \in SeqNums /\ Seq12(lo) \in SeqNums
  <2>1. iseq + 1 \in Int
    BY <1>0, Sizes DEF Unset, Data, SeqNums
  <2> QED BY <1>0, <2>1, ModDef, SeqFacts DEF SnNext, SeqNums
<1>2. Flags'
  BY <1>0, Zenon
     DEF Flags, RxAfter, RxCancel, Bar, Session, AddBaRsp, AddBaRspAcked, DelBa, JoinReset,
         Free, FreeUnhash, FreeCancel, FreeFlush, Stop
<1>3. Data'
  <2> USE <1>0, EmptyFacts DEF Data
  <2>1. CASE RxAfter
    BY <1>1, <2>1 DEF RxAfter
  <2>2. CASE RxCancel
    BY <2>2 DEF RxCancel
  <2>3. CASE Bar
    BY <1>1, <2>3, BoundAssumption DEF Bar
  <2>4. CASE Session
    <3>1. ASSUME NEW answer \in {"accept", "reject"}, AddBaRsp(answer) PROVE Data'
      BY <3>1, BoundAssumption DEF AddBaRsp
    <3>2. CASE AddBaRspAcked
      BY <3>2 DEF AddBaRspAcked
    <3>3. CASE DelBa
      BY <3>3 DEF DelBa
    <3>4. CASE JoinReset
      BY <3>4, BoundAssumption DEF JoinReset
    <3> QED BY <2>4, <3>1, <3>2, <3>3, <3>4 DEF Session
  <2>5. CASE Free
    BY <2>5 DEF Free, FreeUnhash, FreeCancel, FreeFlush
  <2>6. CASE Stop
    BY <2>6 DEF Stop
  <2> QED BY <2>1, <2>2, <2>3, <2>4, <2>5, <2>6
<1>4. /\ UNCHANGED <<lo, newest>> /\ (pend' = pend \/ pend' = <<>>)
      /\ (rx' = rx /\ frame' = frame) \/ rx' # "lock"
  BY DEF RxAfter, RxCancel, Bar, Session, AddBaRsp, AddBaRspAcked, DelBa, JoinReset,
         Free, FreeUnhash, FreeCancel, FreeFlush, Stop
<1>5. SpanInv'
  BY <1>4, SpanKept
<1> QED BY <1>2, <1>3, <1>5, TypeSplits DEF OrderInv

\* Every step preserves the invariant.
LEMMA OrderStep ==
    ASSUME OrderInv, [Next]_vars
    PROVE  OrderInv'
<1>1. CASE RxAfter \/ RxCancel \/ Bar \/ Session \/ Free \/ Stop
  BY <1>1, OrderQuiet
<1>2. CASE RxBelowWindow \/ RxInBuffer \/ RxInsert
  BY <1>2, OrderRxLocked
<1>3. ASSUME NEW n \in First .. MaxFrame, RxFrame(n) PROVE OrderInv'
  BY <1>3, OrderRxFrame
<1>4. CASE Timer
  BY <1>4, OrderTimer
<1>5. CASE SenderAdvance
  BY <1>5, OrderSender
<1>6. CASE UNCHANGED vars
  BY <1>6 DEF OrderInv, SpanInv, LockInv, TypeOK, vars, ctrl, life, air
<1> QED BY <1>1, <1>2, <1>3, <1>4, <1>5, <1>6 DEF Next, Rx, RxContinue

\* The invariant always holds.
LEMMA OrderAlways == Spec => []OrderInv
BY OrderInit, OrderStep, PTL DEF Spec

\* Type correctness: the window start stays a sequence number or unset, and what
\* is buffered and handed up are frames that were sent.
THEOREM TypeCorrect == Spec => []TypeOK
<1>1. OrderInv => TypeOK
  BY DEF OrderInv
<1> QED BY <1>1, OrderAlways, PTL

-----------------------------------------------------------------------------
(* The window *)

\* Nothing of p is beyond the end of the window that starts at w, or half the
\* space behind it.
Around(p, w) == \A x \in Elems(p) : x < w + WSize /\ w + WSize - 1 - x < Half

\* A window holds p.
Spread(p) == \A x, y \in Elems(p) : x - y < WSize - 1

Above(p, t) == \A x \in Elems(p) : t < x

\* The state between sessions and in them: only the window start can be off,
\* and then the next frame sets it anew.
SessInv ==
    Held => /\ rx = "after" => ~enable \/ ack
            /\ (enable /\ ~ack) => iseq # Unset
            /\ iseq = Unset => top = NoFrame
            /\ Spread(pend)
            /\ ~back => Above(pend, top)

\* The next frame that takes the lock is compared with indicate_seq as it is.
Live == Held /\ ~ack /\ (enable \/ rx = "lock") /\ iseq # Unset

\* indicate_seq is the sequence number of frame w, the start of a window around
\* the buffer, behind what went up and not ahead of both sides.
WindowAt(w) ==
    /\ iseq = Seq12(w)
    /\ w <= newest + 1 \/ w <= lo
    /\ rx = "lock" => w - frame <= WSize
    /\ Around(pend, w)
    /\ ~back => top < w

WindowInv == Live => \E w \in Int : WindowAt(w)

\* A frame that is not below the window start is not behind the frame it stands
\* for, and less than half the space ahead of a frame it also stands for.
LEMMA NotBelow ==
    ASSUME NEW f \in Int, NEW w \in Int, w - f <= WSize, ~SnLess(Seq12(f), Seq12(w))
    PROVE  \E W \in Int : /\ Seq12(W) = Seq12(w) /\ w <= W /\ W <= f /\ f - W < Half
                          /\ f - w < Space => W = w
<1> DEFINE d == (f - w) % Space
<1>1. d < Half /\ d \in 0 .. Space - 1
  <2>1. d = ((f % Space) - (w % Space)) % Space
    BY ModDiff
  <2>2. ~(((f % Space) - (w % Space)) % Space >= Half)
    BY DEF SnLess, Seq12
  <2>3. d \in 0 .. Space - 1
    BY ModDef
  <2> QED BY <2>1, <2>2, <2>3, Sizes
<1>2. PICK k \in Int : f - w = k * Space + d
  BY ModDef
<1>3. w <= f
  <2>1. SUFFICES ASSUME f < w PROVE FALSE
    OBVIOUS
  <2>2. d = (f - w) + Space
    BY <2>1, ModNear, Sizes
  <2> QED BY <1>1, <2>1, <2>2, Sizes
<1>4. f - w < Space => d = f - w
  BY <1>3, ModNear, Sizes
<1> HIDE DEF d
<1>5. k >= 0
  <2>1. SUFFICES ASSUME k <= -1 PROVE FALSE
    OBVIOUS
  <2>2. k * Space <= -Space
    BY <2>1, Sizes
  <2>3. k * Space \in Int
    BY Sizes
  <2> QED BY <1>1, <1>2, <1>3, <2>2, <2>3, Sizes
<1>6. k * Space >= 0 /\ k * Space \in Int
  BY <1>5, Sizes
<1>7. Seq12(f - d) = Seq12(w)
  <2>1. PICK m \in Int : w = m * Space + (w % Space) /\ w % Space \in 0 .. Space - 1
    BY ModDef
  <2>2. f - d = (m + k) * Space + (w % Space)
    BY <1>1, <1>2, <2>1, Sizes
  <2>3. m + k \in Int
    OBVIOUS
  <2> QED BY <2>1, <2>2, <2>3, ModUnique DEF Seq12
<1>8. /\ f - d \in Int /\ w <= f - d /\ f - d <= f /\ f - (f - d) < Half
      /\ f - w < Space => f - d = w
  BY <1>1, <1>2, <1>4, <1>6
<1> QED BY <1>7, <1>8

\* check_indicate_seq moves the window start W over the frame if it is its first,
\* and otherwise so far that the frame is in the window.
Checked(W, f, V) ==
    /\ f < V + WSize
    /\ \/ V = W
       \/ V = W + 1 /\ f = W
       \/ V = f + 1 - WSize /\ W + WSize <= f

\* check_indicate_seq on the frames the sequence numbers stand for.
LEMMA CheckDecodes ==
    ASSUME NEW f \in Int, NEW W \in Int, W <= f, f - W < Half
    PROVE  \E V \in Int : check_indicate_seq(Seq12(W), Seq12(f)) = Seq12(V) /\ Checked(W, f, V)
<1>1. Seq12(f) = Seq12(W) <=> f = W
  BY EqualDecodes, Sizes
<1>2. SnNext(Seq12(W)) = Seq12(W + 1) /\ WinEnd(Seq12(W)) = Seq12(W + WSize - 1)
  BY SeqFacts
<1>3. (Seq12(f) + 1 - WSize) % Space = Seq12(f + 1 - WSize)
  BY SeqFacts
<1>4. SnLess(Seq12(W + WSize - 1), Seq12(f)) <=> W + WSize - 1 < f
  <2>1. /\ W + WSize - 1 \in Int /\ (W + WSize - 1) - f < Half /\ f - (W + WSize - 1) <= Half
    BY Sizes
  <2> QED BY <2>1, LessDecodes
<1>5. CASE f = W
  <2>1. check_indicate_seq(Seq12(W), Seq12(f)) = Seq12(W + 1)
    BY <1>1, <1>2, <1>5 DEF check_indicate_seq
  <2>2. W + 1 \in Int /\ Checked(W, f, W + 1)
    BY <1>5, Sizes DEF Checked
  <2> QED BY <2>1, <2>2
<1>6. CASE f # W /\ W + WSize - 1 < f
  <2>1. check_indicate_seq(Seq12(W), Seq12(f)) = Seq12(f + 1 - WSize)
    BY <1>1, <1>2, <1>3, <1>4, <1>6 DEF check_indicate_seq
  <2>2. f + 1 - WSize \in Int /\ Checked(W, f, f + 1 - WSize)
    BY <1>6, Sizes DEF Checked
  <2> QED BY <2>1, <2>2
<1>7. CASE f # W /\ ~(W + WSize - 1 < f)
  <2>1. check_indicate_seq(Seq12(W), Seq12(f)) = Seq12(W)
    BY <1>1, <1>2, <1>4, <1>7 DEF check_indicate_seq
  <2>2. Checked(W, f, W)
    BY <1>7, Sizes DEF Checked
  <2> QED BY <2>1, <2>2
<1> QED BY <1>5, <1>6, <1>7

\* What is left in the buffer when the window start has moved to w.
LEMMA Settles ==
    ASSUME NEW q \in Seq(Numbers), NEW r, Parts(q, r), NEW W \in Int, NEW w \in Int,
           Moved(q, r, W, w), \A x \in Elems(q) : x < W + WSize
    PROVE  /\ Around(r.pend, w) /\ Spread(r.pend)
           /\ r.up # <<>> => /\ Last(r.up) < w /\ Above(r.pend, Last(r.up))
                             /\ r.up[1] \in Elems(q)
<1>1. /\ r.up \in Seq(Numbers) /\ r.pend \in Seq(Numbers)
      /\ Elems(r.up) \subseteq Elems(q) /\ Elems(r.pend) \subseteq Elems(q)
      /\ W <= w /\ (\A x \in Elems(r.up) : x < w) /\ (\A x \in Elems(r.pend) : w < x)
  BY DEF Parts, Moved
<1>2. /\ Elems(r.pend) \subseteq Int /\ Elems(r.up) \subseteq Int /\ Len(r.up) \in Nat
      /\ \A j \in 1 .. Len(r.up) : r.up[j] \in Elems(r.up)
  BY <1>1, NumbersAreInts
<1>3. \A x \in Elems(r.pend) : x \in Int /\ w < x /\ x < w + WSize
  <2>1. \A x \in Elems(r.pend) : x \in Int /\ w < x /\ x < W + WSize
    BY <1>1, <1>2
  <2> QED BY <1>1, <2>1, Sizes
<1>4. Around(r.pend, w)
  BY <1>3, Sizes DEF Around
<1>5. Spread(r.pend)
  BY <1>3, Sizes DEF Spread
<1>6. ASSUME r.up # <<>>
      PROVE  Last(r.up) < w /\ Above(r.pend, Last(r.up)) /\ r.up[1] \in Elems(q)
  <2>1. Len(r.up) \in 1 .. Len(r.up) /\ 1 \in 1 .. Len(r.up)
    BY <1>1, <1>2, <1>6
  <2>2. Last(r.up) \in Elems(r.up) /\ r.up[1] \in Elems(r.up)
    BY <1>2, <2>1 DEF Last
  <2>3. Last(r.up) \in Int /\ Last(r.up) < w
    BY <1>1, <1>2, <2>2
  <2>4. Above(r.pend, Last(r.up))
    BY <1>3, <2>3 DEF Above
  <2> QED BY <1>1, <2>2, <2>3, <2>4
<1> QED BY <1>4, <1>5, <1>6

\* What the tasklet's frame makes of the window: it starts at V.
Positioned(V) ==
    /\ check_indicate_seq(WinStart(Seq12(frame)), Seq12(frame)) = Seq12(V)
    /\ frame < V + WSize /\ V <= frame + 1
    /\ \A x \in Elems(pend) : x < V + WSize /\ V - x < Half
    /\ frame \in Elems(pend) => Around(pend, V)
    /\ (ack \/ iseq = Unset) => V = frame + 1
    /\ (~ack /\ iseq # Unset /\ ~back) => top < V /\ top < frame

\* A frame that is not below the window has a window around it and the buffer.
LEMMA FramePositions ==
    ASSUME OrderInv, SessInv, WindowInv, Held, rx = "lock",
           ~SnLess(Seq12(frame), WinStart(Seq12(frame)))
    PROVE  \E V \in Int : Positioned(V)
<1>1. /\ pend \in Seq(Numbers) /\ frame \in Int /\ Elems(pend) \subseteq Int /\ newest \in Int
      /\ lo \in Int
      /\ \A x \in Elems(pend) : /\ x - frame < WSize /\ x - frame < Half
                                /\ frame - x < Half - 1
  BY LockedNear
<1>2. \A x, y \in Elems(pend) : x - y < WSize - 1
  BY DEF SessInv, Spread
<1>3. top \in Int
  BY FrameAssumption DEF OrderInv, TypeOK, NoFrame
<1>4. CASE ack \/ iseq = Unset
  <2>1. WinStart(Seq12(frame)) = Seq12(frame)
    BY <1>4 DEF WinStart
  <2>2. check_indicate_seq(Seq12(frame), Seq12(frame)) = Seq12(frame + 1)
    BY <1>1, SeqFacts DEF check_indicate_seq
  <2>3. frame < (frame + 1) + WSize /\ frame + 1 \in Int
    BY <1>1, Sizes
  <2>4. \A x \in Elems(pend) : x < (frame + 1) + WSize /\ (frame + 1) - x < Half
    BY <1>1, Sizes
  <2>5. ASSUME frame \in Elems(pend) PROVE Around(pend, frame + 1)
    <3>1. \A x \in Elems(pend) : x \in Int /\ frame - x < WSize - 1 /\ x - frame < WSize
      BY <1>1, <1>2, <2>5
    <3> QED BY <1>1, <3>1, Sizes DEF Around
  <2>6. Positioned(frame + 1)
    BY <1>1, <1>4, <2>1, <2>2, <2>3, <2>4, <2>5 DEF Positioned
  <2> QED BY <2>3, <2>6
<1>5. CASE ~ack /\ iseq # Unset
  <2>1. WinStart(Seq12(frame)) = iseq /\ Live
    BY <1>5 DEF WinStart, Live
  <2>2. PICK w \in Int : WindowAt(w)
    BY <2>1 DEF WindowInv
  <2>3. iseq = Seq12(w) /\ w - frame <= WSize /\ (~back => top < w)
        /\ \A x \in Elems(pend) : x < w + WSize /\ w + WSize - 1 - x < Half
    BY <2>2 DEF WindowAt, Around
  <2>4. PICK W \in Int : /\ Seq12(W) = Seq12(w) /\ w <= W /\ W <= frame /\ frame - W < Half
                         /\ frame - w < Space => W = w
    BY <1>1, <2>1, <2>3, NotBelow
  <2>5. ASSUME NEW x \in Elems(pend) PROVE x \in Int /\ x < W + WSize /\ W + WSize - 1 - x < Half
    <3>1. /\ x \in Int /\ x < w + WSize /\ w + WSize - 1 - x < Half /\ frame - x < Half - 1
      BY <1>1, <2>3
    <3>2. frame - w < Space
      BY <1>1, <3>1, Sizes
    <3> QED BY <2>4, <3>1, <3>2
  <2>6. PICK V \in Int : /\ check_indicate_seq(Seq12(W), Seq12(frame)) = Seq12(V)
                         /\ Checked(W, frame, V)
    BY <1>1, <2>4, CheckDecodes
  <2>7. /\ frame < V + WSize /\ W <= V /\ V <= frame + 1
        /\ \/ V = W
           \/ V = W + 1 /\ frame = W
           \/ V = frame + 1 - WSize /\ W + WSize <= frame
    BY <1>1, <2>4, <2>6, Sizes DEF Checked
  <2>8. ASSUME NEW x \in Elems(pend) PROVE x < V + WSize /\ V - x < Half
    <3>1. x \in Int /\ frame - x < Half - 1
      BY <1>1
    <3> QED BY <1>1, <2>5, <2>7, <3>1, Sizes
  <2>9. ASSUME frame \in Elems(pend) PROVE Around(pend, V)
    <3>1. SUFFICES ASSUME NEW x \in Elems(pend)
                   PROVE  x < V + WSize /\ V + WSize - 1 - x < Half
      BY DEF Around
    <3>2. x \in Int /\ frame - x < WSize - 1 /\ frame < W + WSize
      BY <1>1, <1>2, <2>5, <2>9
    <3> QED BY <1>1, <2>5, <2>7, <2>8, <3>2, Sizes
  <2>10. ~back => top < V /\ top < frame
    BY <1>1, <1>3, <2>3, <2>4, <2>7
  <2>11. check_indicate_seq(WinStart(Seq12(frame)), Seq12(frame)) = Seq12(V)
    BY <2>1, <2>3, <2>4, <2>6
  <2>12. Positioned(V)
    BY <1>5, <2>7, <2>8, <2>9, <2>10, <2>11 DEF Positioned
  <2> QED BY <2>12
<1> QED BY <1>4, <1>5

\* What a step under the lock may do while the station is held.
Effect(w) ==
    /\ iseq' = Seq12(w)
    /\ w <= newest + 1 \/ (w <= lo /\ rx' # "lock")
    /\ Around(pend', w) /\ Spread(pend')
    /\ (ack \/ ~back) => top' < w /\ Above(pend', top')
    /\ (up' # <<>> /\ Live /\ ~back) => up'[1] > top

\* Frames are not numbered 0.
LEMMA NumbersPositive == \A n \in Numbers : n \in Int /\ NoFrame < n
BY FrameAssumption DEF Numbers, NoFrame

\* The frame is below the window: nothing moves.
LEMMA BelowEffect ==
    ASSUME OrderInv, SessInv, WindowInv, Held, RxBelowWindow
    PROVE  \E w \in Int : Effect(w)
<1> DEFINE s == Seq12(frame)
<1>1. /\ rx = "lock" /\ rx' = "idle" /\ SnLess(s, WinStart(s)) /\ iseq' = WinStart(s)
      /\ HandUp(<<>>) /\ pend' = pend
  BY DEF RxBelowWindow, RxLock
<1>2. frame \in Int
  BY <1>1, LockedNear
<1>3. ~ack /\ iseq # Unset
  <2>1. ~SnLess(s, s)
    BY <1>2, LessDecodes, Sizes
  <2> QED BY <1>1, <2>1 DEF WinStart
<1>4. iseq' = iseq /\ Live
  BY <1>1, <1>3 DEF WinStart, Live
<1>5. PICK w \in Int : WindowAt(w)
  BY <1>4 DEF WindowInv
<1>6. up' = <<>> /\ top' = top
  BY <1>1, <1>3 DEF HandUp
<1>7. Effect(w)
  BY <1>1, <1>3, <1>4, <1>5, <1>6 DEF Effect, WindowAt, SessInv
<1> QED BY <1>7

\* The frame is in the buffer already: only the window moves.
LEMMA DuplicateEffect ==
    ASSUME OrderInv, SessInv, WindowInv, Held, RxInBuffer
    PROVE  \E w \in Int : Effect(w)
<1> DEFINE s == Seq12(frame)
<1>1. /\ rx = "lock" /\ rx' = "idle" /\ ~SnLess(s, WinStart(s)) /\ IsDuplicate(pend, s)
      /\ iseq' = check_indicate_seq(WinStart(s), s)
      /\ HandUp(<<>>) /\ pend' = pend
  BY DEF RxInBuffer, RxLock
<1>2. /\ pend \in Seq(Numbers) /\ Sorted(pend) /\ frame \in Numbers /\ frame \in Int
      /\ newest \in Int /\ frame <= newest
      /\ \A x \in Elems(pend) : x - frame < Half /\ frame - x < Half
  BY <1>1, LockedNear, Sizes
<1>3. frame \in Elems(pend)
  BY <1>1, <1>2, EnqueueAdds
<1>4. PICK V \in Int : Positioned(V)
  BY <1>1, FramePositions
<1>5. iseq' = Seq12(V) /\ V <= newest + 1 /\ Around(pend', V) /\ Spread(pend')
  BY <1>1, <1>2, <1>3, <1>4 DEF Positioned, SessInv
<1>6. up' = <<>> /\ top' = IF ack THEN NoFrame ELSE top
  BY <1>1 DEF HandUp
<1>7. NoFrame < frame /\ NoFrame \in Int /\ Above(pend, NoFrame)
  BY <1>2, NumbersAreInts, NumbersPositive DEF Above, NoFrame
<1>8. CASE ack
  BY <1>1, <1>2, <1>4, <1>5, <1>6, <1>7, <1>8 DEF Effect, Positioned
<1>9. CASE ~ack /\ iseq = Unset
  <2>1. top' = NoFrame
    BY <1>6, <1>9 DEF SessInv
  <2> QED BY <1>1, <1>2, <1>4, <1>5, <1>6, <1>7, <1>9, <2>1 DEF Effect, Positioned
<1>10. CASE ~ack /\ iseq # Unset
  BY <1>1, <1>2, <1>4, <1>5, <1>6, <1>10 DEF Effect, Positioned, SessInv
<1> QED BY <1>8, <1>9, <1>10

\* The frame is linked, and what is up to the first hole goes up.
LEMMA InsertEffect ==
    ASSUME OrderInv, SessInv, WindowInv, Held, RxInsert
    PROVE  \E w \in Int : Effect(w)
<1> DEFINE s == Seq12(frame)
           q == enqueue_reorder_recvframe(pend, frame)
           r == recv_indicatepkts_in_order(q, check_indicate_seq(WinStart(s), s))
<1>1. /\ rx = "lock" /\ ~SnLess(s, WinStart(s)) /\ ~IsDuplicate(pend, s)
      /\ iseq' = r.iseq /\ pend' = r.pend /\ HandUp(r.up)
  BY Zenon DEF RxInsert, RxLock
<1>2. /\ pend \in Seq(Numbers) /\ Sorted(pend) /\ frame \in Numbers /\ frame \in Int
      /\ newest \in Int /\ frame <= newest /\ Elems(pend) \subseteq Int
      /\ \A x \in Elems(pend) : x - frame < Half /\ frame - x < Half
  BY <1>1, LockedNear, Sizes
<1>3. q \in Seq(Numbers) /\ Sorted(q) /\ Elems(q) = Elems(pend) \union {frame}
  BY <1>1, <1>2, EnqueueAdds
<1> HIDE DEF q
<1>4. PICK V \in Int : Positioned(V)
  BY <1>1, FramePositions
<1>5. /\ check_indicate_seq(WinStart(s), s) = Seq12(V)
      /\ frame < V + WSize /\ V <= frame + 1
      /\ \A x \in Elems(pend) : x < V + WSize /\ V - x < Half
      /\ (ack \/ iseq = Unset) => V = frame + 1
      /\ (~ack /\ iseq # Unset /\ ~back) => top < V /\ top < frame
  BY <1>4 DEF Positioned
<1>6. \A x \in Elems(q) : x \in Int /\ x < V + WSize /\ x - V < Half /\ V - x < Half
  <2>1. \A x \in Elems(pend) : x \in Int /\ x < V + WSize /\ V - x < Half
    BY <1>2, <1>5
  <2>2. V - frame < Half
    BY <1>2, <1>5, Sizes
  <2>3. \A x \in Elems(q) : x \in Int /\ x < V + WSize /\ V - x < Half
    BY <1>2, <1>3, <1>5, <2>1, <2>2
  <2> QED BY <2>3, Sizes
<1>7. r = recv_indicatepkts_in_order(q, Seq12(V)) /\ Seq12(V) \in SeqNums
  BY <1>5, SeqFacts DEF SeqNums
<1> HIDE DEF r
<1>8. Parts(q, r)
  BY <1>3, <1>7, IndicateParts
<1>9. PICK w \in Int : Moved(q, r, V, w)
  BY <1>3, <1>6, <1>7, IndicateMoves
<1>10. /\ Around(r.pend, w) /\ Spread(r.pend)
       /\ r.up # <<>> => /\ Last(r.up) < w /\ Above(r.pend, Last(r.up))
                         /\ r.up[1] \in Elems(q)
  BY <1>3, <1>6, <1>8, <1>9, Settles
<1>11. w <= newest + 1
  <2>1. \A x \in Elems(q) : x <= newest
    BY <1>2, <1>3 DEF OrderInv, SpanInv, Recent
  <2>2. w = V \/ \E x \in Elems(q) : w = x + 1
    BY <1>9 DEF Moved
  <2> QED BY <1>2, <1>5, <1>6, <2>1, <2>2
<1>12. (~ack /\ iseq # Unset /\ ~back) => (\A x \in Elems(q) : top < x) /\ top < w
  <2>1. top \in Int
    BY NumbersPositive DEF OrderInv, TypeOK, NoFrame, Numbers
  <2>2. V <= w
    BY <1>9 DEF Moved
  <2>3. ~back => \A x \in Elems(pend) : top < x
    BY DEF SessInv, Above
  <2> QED BY <1>3, <1>5, <2>1, <2>2, <2>3
<1>13. (up' # <<>> /\ Live /\ ~back) => up'[1] > top
  <2>1. top \in Int
    BY NumbersPositive DEF OrderInv, TypeOK, NoFrame, Numbers
  <2>2. up' = r.up
    BY <1>1 DEF HandUp
  <2> QED BY <1>6, <1>10, <1>12, <2>1, <2>2 DEF Live
<1>14. ASSUME ack \/ ~back PROVE top' < w /\ Above(pend', top')
  <2>1. CASE r.up # <<>>
    <3>1. top' = Last(r.up)
      BY <1>1, <2>1 DEF HandUp
    <3> QED BY <1>1, <1>10, <2>1, <3>1
  <2>2. CASE r.up = <<>>
    <3>1. Elems(r.up) = {}
      BY <2>2, EmptyFacts
    <3>2. frame > w /\ V <= w
      BY <1>2, <1>3, <1>9, <3>1 DEF Moved
    <3>3. ~ack /\ iseq # Unset
      BY <1>2, <1>5, <3>2
    <3>4. top' = top
      BY <1>1, <2>2, <3>3 DEF HandUp
    <3>5. Elems(r.pend) \subseteq Elems(q)
      BY <1>8 DEF Parts
    <3> QED BY <1>1, <1>12, <1>14, <3>3, <3>4, <3>5 DEF Above
  <2> QED BY <2>1, <2>2
<1>15. iseq' = Seq12(w)
  BY <1>1, <1>9 DEF Moved
<1>16. Effect(w)
  BY <1>1, <1>10, <1>11, <1>13, <1>14, <1>15 DEF Effect
<1> QED BY <1>16

\* The timer handler gives up on the hole before the oldest frame.
LEMMA TimerEffect ==
    ASSUME OrderInv, SessInv, Held, TimerLocked, pend # <<>>
    PROVE  \E w \in Int : Effect(w)
<1> DEFINE r == recv_indicatepkts_in_order(pend, Seq12(Head(pend)))
           V == pend[1]
<1>1. iseq' = r.iseq /\ pend' = r.pend /\ HandUp(r.up)
  BY Zenon DEF TimerLocked
<1>2. pend \in Seq(Numbers) /\ Sorted(pend) /\ newest \in Int /\ top \in Int
  BY NumbersPositive DEF OrderInv, SpanInv, TypeOK, Numbers, NoFrame
<1>3. /\ Elems(pend) \subseteq Int /\ 1 \in 1 .. Len(pend)
      /\ \A j \in 1 .. Len(pend) : pend[j] \in Elems(pend)
  BY <1>2, NumbersAreInts
<1>4. V \in Elems(pend) /\ V \in Int /\ Head(pend) = V
  BY <1>2, <1>3
<1>5. r = recv_indicatepkts_in_order(pend, Seq12(V)) /\ Seq12(V) \in SeqNums
  BY <1>4, SeqFacts DEF SeqNums
<1> HIDE DEF r, V
<1>6. \A x \in Elems(pend) : x \in Int /\ x < V + WSize /\ x - V < Half /\ V - x < Half
  <2>1. \A x \in Elems(pend) : x \in Int /\ x - V < WSize - 1 /\ V - x < WSize - 1
    BY <1>3, <1>4 DEF SessInv, Spread
  <2> QED BY <1>4, <2>1, Sizes
<1>7. Parts(pend, r)
  BY <1>2, <1>5, IndicateParts
<1>8. PICK w \in Int : Moved(pend, r, V, w)
  BY <1>2, <1>4, <1>5, <1>6, IndicateMoves
<1>9. /\ Around(r.pend, w) /\ Spread(r.pend)
      /\ r.up # <<>> => /\ Last(r.up) < w /\ Above(r.pend, Last(r.up))
                        /\ r.up[1] \in Elems(pend)
  BY <1>2, <1>4, <1>6, <1>7, <1>8, Settles
<1>10. r.up # <<>>
  <2>1. SUFFICES ASSUME r.up = <<>> PROVE FALSE
    OBVIOUS
  <2>2. Elems(r.up) = {}
    BY <2>1, EmptyFacts
  <2>3. V > w /\ V <= w
    BY <1>4, <1>8, <2>2 DEF Moved
  <2> QED BY <1>4, <2>3
<1>11. w <= newest + 1
  <2>1. \A x \in Elems(pend) : x <= newest
    BY DEF OrderInv, SpanInv, Recent
  <2>2. w = V \/ \E x \in Elems(pend) : w = x + 1
    BY <1>8 DEF Moved
  <2> QED BY <1>2, <1>4, <1>6, <2>1, <2>2
<1>12. up' = r.up /\ top' = Last(r.up)
  BY <1>1, <1>10 DEF HandUp
<1>13. ~back => up'[1] > top
  <2>1. ~back => \A x \in Elems(pend) : top < x
    BY DEF SessInv, Above
  <2> QED BY <1>2, <1>6, <1>9, <1>10, <1>12, <2>1
<1>14. iseq' = Seq12(w)
  BY <1>1, <1>8 DEF Moved
<1>15. Effect(w)
  BY <1>1, <1>9, <1>10, <1>11, <1>12, <1>13, <1>14 DEF Effect
<1> QED BY <1>15

\* Such a step preserves the session and the window.
LEMMA EffectKeeps ==
    ASSUME OrderInv, SessInv, NEW w \in Int, Effect(w),
           UNCHANGED <<enable, sta, frame, lo, newest>>,
           \/ rx' \in {"idle", "cancel"} /\ back' = (back /\ ~ack)
           \/ UNCHANGED <<rx, back, ack>>
    PROVE  SessInv' /\ WindowInv'
<1>1. iseq' = Seq12(w) /\ iseq' # Unset
  BY SeqFacts DEF Effect
<1>2. Held' = Held
  BY DEF Held
<1>3. ~back' => ack \/ ~back
  OBVIOUS
<1>4. ~back' => top' < w /\ Above(pend', top')
  BY <1>3 DEF Effect
<1>5. Held /\ rx' = "after" => ~enable' \/ ack'
  BY DEF SessInv
<1>6. SessInv'
  BY <1>1, <1>2, <1>4, <1>5 DEF SessInv, Effect
<1>7. rx' = "lock" => w - frame' <= WSize
  <2>1. SUFFICES ASSUME rx' = "lock" PROVE w - frame <= WSize
    OBVIOUS
  <2>2. rx = "lock"
    BY <2>1
  <2>3. newest \in Int /\ frame \in Int /\ newest - frame < WSize
    BY <2>2, LockedNear DEF OrderInv, SpanInv, LockInv
  <2>4. w <= newest + 1
    BY <2>1 DEF Effect
  <2> QED BY <2>3, <2>4, Sizes
<1>8. WindowAt(w)'
  BY <1>1, <1>4, <1>7 DEF WindowAt, Effect
<1> QED BY <1>6, <1>8 DEF WindowInv

SessionInv == OrderInv /\ SessInv /\ WindowInv

\* A new station has no window.
LEMMA SessionInit == Init => SessionInv
<1>1. ASSUME Init PROVE SessInv /\ WindowInv
  <2>1. Spread(<<>>) /\ Above(<<>>, top)
    BY EmptyFacts DEF Spread, Above
  <2> QED BY <1>1, <2>1 DEF Init, SessInv, WindowInv, Live
<1> QED BY <1>1, OrderInit DEF SessionInv

\* After the timer is cancelled for good nothing is claimed.
LEMMA NotHeld ==
    ASSUME ~Held'
    PROVE  SessInv' /\ WindowInv'
BY DEF SessInv, WindowInv, Live

\* Steps that leave buffer and window alone.
LEMMA WindowKept ==
    ASSUME SessionInv, UNCHANGED <<enable, iseq, ack, pend, frame, newest, top, back>>,
           lo' \in Int, lo <= lo', Held' => Held, rx' = rx \/ rx' = "idle"
    PROVE  SessInv' /\ WindowInv'
<1>0. lo \in Int
  BY DEF SessionInv, OrderInv, TypeOK
<1>1. SessInv'
  BY DEF SessionInv, SessInv
<1>2. ASSUME Live' PROVE \E w \in Int : WindowAt(w)'
  <2>1. Live
    BY <1>2 DEF Live
  <2>2. PICK w \in Int : WindowAt(w)
    BY <2>1 DEF SessionInv, WindowInv
  <2>3. w <= newest' + 1 \/ w <= lo'
    BY <1>0, <2>2 DEF WindowAt
  <2>4. WindowAt(w)'
    BY <2>2, <2>3 DEF WindowAt
  <2> QED BY <2>4
<1> QED BY <1>1, <1>2 DEF WindowInv

\* The sections under the lock.
LEMMA WindowLocked ==
    ASSUME SessionInv, RxBelowWindow \/ RxInBuffer \/ RxInsert
    PROVE  SessInv' /\ WindowInv'
<1>1. /\ UNCHANGED <<enable, sta, frame, lo, newest>> /\ back' = (back /\ ~ack)
      /\ rx' \in {"idle", "cancel"}
  BY Zenon DEF RxBelowWindow, RxInBuffer, RxInsert, RxLock, life, air
<1>2. CASE Held
  <2>1. PICK w \in Int : Effect(w)
    BY <1>2, BelowEffect, DuplicateEffect, InsertEffect DEF SessionInv
  <2> QED BY <1>1, <2>1, EffectKeeps DEF SessionInv
<1>3. CASE ~Held
  BY <1>1, <1>3, NotHeld DEF Held
<1> QED BY <1>2, <1>3

\* The timer.
LEMMA WindowTimer ==
    ASSUME SessionInv, Timer
    PROVE  SessInv' /\ WindowInv'
<1>0. lo \in Int
  BY DEF SessionInv, OrderInv, TypeOK
<1>1. CASE TimerFires
  BY <1>0, <1>1, WindowKept DEF TimerFires, ctrl, life, air, Held
<1>2. CASE TimerLocked
  <2>1. UNCHANGED <<enable, sta, frame, lo, newest, rx, back, ack>>
    BY <1>2 DEF TimerLocked, life, air
  <2>2. CASE ~Held
    BY <2>1, <2>2, NotHeld DEF Held
  <2>3. CASE Held /\ pend # <<>>
    <3>1. PICK w \in Int : Effect(w)
      BY <1>2, <2>3, TimerEffect DEF SessionInv
    <3> QED BY <2>1, <3>1, EffectKeeps DEF SessionInv
  <2>4. CASE Held /\ pend = <<>>
    <3>1. HandUp(<<>>) /\ UNCHANGED <<iseq, pend>>
      BY <1>2, <2>4, Zenon DEF TimerLocked
    <3>2. top' = IF ack THEN NoFrame ELSE top
      BY <3>1 DEF HandUp
    <3>3. SessInv'
      <4>1. \A t : Above(pend, t)
        BY <2>4, EmptyFacts DEF Above
      <4> QED BY <2>1, <2>4, <3>1, <3>2, <4>1 DEF SessionInv, SessInv, Held
    <3>4. ASSUME Live' PROVE \E w \in Int : WindowAt(w)'
      <4>1. Live /\ top' = top
        BY <2>1, <2>4, <3>1, <3>2, <3>4 DEF Live, Held
      <4>2. PICK w \in Int : WindowAt(w)
        BY <4>1 DEF SessionInv, WindowInv
      <4>3. WindowAt(w)'
        BY <2>1, <3>1, <4>1, <4>2 DEF WindowAt
      <4> QED BY <4>3
    <3> QED BY <3>3, <3>4 DEF WindowInv
  <2> QED BY <2>2, <2>3, <2>4
<1> QED BY <1>1, <1>2 DEF Timer

\* A frame arrives: for the lock, or past a session that is not set up.
LEMMA WindowRxFrame ==
    ASSUME SessionInv, NEW n \in First .. MaxFrame, RxFrame(n)
    PROVE  SessInv' /\ WindowInv'
<1>1. /\ rx = "idle" /\ frame' = n /\ n \in lo .. lo + WSize - 1
      /\ newest' = IF n > newest THEN n ELSE newest
      /\ UNCHANGED <<enable, ack, pend, sta, lo, back>>
      /\ \/ enable /\ rx' = "lock" /\ UNCHANGED <<iseq, top>>
         \/ ~enable /\ rx' = "after" /\ top' = NoFrame /\ iseq' = Seq12(n)
  BY DEF RxFrame, life
<1>2. lo \in Int /\ newest \in Int /\ n \in Int /\ newest < lo + WSize
  BY FrameAssumption DEF SessionInv, OrderInv, TypeOK, SpanInv
<1>3. CASE enable
  <2>1. rx' = "lock" /\ UNCHANGED <<iseq, top>>
    BY <1>1, <1>3
  <2>2. SessInv'
    BY <1>1, <2>1 DEF SessionInv, SessInv, Held
  <2>3. ASSUME Live' PROVE \E w \in Int : WindowAt(w)'
    <3>1. Live
      BY <1>1, <1>3, <2>1, <2>3 DEF Live, Held
    <3>2. PICK w \in Int : WindowAt(w)
      BY <3>1 DEF SessionInv, WindowInv
    <3>3. w <= newest + 1 \/ w <= lo
      BY <3>2 DEF WindowAt
    <3>4. (w <= newest' + 1 \/ w <= lo') /\ w - frame' <= WSize
      BY <1>1, <1>2, <3>3, Sizes
    <3>5. WindowAt(w)'
      BY <1>1, <2>1, <3>2, <3>4 DEF WindowAt
    <3> QED BY <3>5
  <2> QED BY <2>2, <2>3 DEF WindowInv
<1>4. CASE ~enable
  <2>1. rx' = "after" /\ top' = NoFrame /\ iseq' = Seq12(n) /\ ~enable'
    BY <1>1, <1>4
  <2>2. Above(pend, NoFrame)
    <3>1. pend \in Seq(Numbers)
      BY DEF SessionInv, OrderInv, TypeOK, Numbers
    <3> QED BY <3>1, NumbersAreInts, NumbersPositive DEF Above
  <2>3. SessInv'
    BY <1>1, <2>1, <2>2 DEF SessionInv, SessInv, Held
  <2>4. ~Live'
    BY <2>1 DEF Live
  <2> QED BY <2>3, <2>4 DEF WindowInv
<1> QED BY <1>3, <1>4

\* A block ack request sets the window start.
LEMMA WindowBar ==
    ASSUME SessionInv, Bar
    PROVE  SessInv' /\ WindowInv'
<1>1. /\ rx = "idle" /\ iseq' = Seq12(lo)
      /\ back' = (back \/ (iseq # Unset /\ SnLess(Seq12(lo), iseq)))
      /\ UNCHANGED <<enable, ack, pend, rx, frame, sta, lo, newest, top>>
  BY DEF Bar, life
<1>2. /\ lo \in Int /\ newest \in Int /\ top \in Int /\ pend \in Seq(Numbers)
      /\ newest < lo + WSize
      /\ \A x \in Elems(pend) : x <= newest /\ lo + WSize - x < Half
  BY NumbersPositive DEF SessionInv, OrderInv, TypeOK, SpanInv, Recent, Numbers, NoFrame
<1>3. iseq' # Unset
  BY <1>1, <1>2, SeqFacts
<1>4. SessInv'
  BY <1>1, <1>3 DEF SessionInv, SessInv, Held
<1>5. ASSUME Live' PROVE \E v \in Int : WindowAt(v)'
  <2>1. Live
    BY <1>1, <1>5 DEF Live, Held, SessionInv, SessInv
  <2>2. PICK w \in Int : WindowAt(w)
    BY <2>1 DEF SessionInv, WindowInv
  <2>3. Around(pend, lo)
    <3>1. Elems(pend) \subseteq Int
      BY <1>2, NumbersAreInts
    <3> QED BY <1>2, <3>1, Sizes DEF Around
  <2>4. ASSUME ~back' PROVE top < lo
    <3>1. ~back /\ ~SnLess(Seq12(lo), Seq12(w)) /\ top < w
      BY <1>1, <2>1, <2>2, <2>4 DEF Live, WindowAt
    <3>2. w - lo <= WSize
      BY <1>2, <2>2, Sizes DEF WindowAt
    <3>3. \E W \in Int : w <= W /\ W <= lo
      BY <1>2, <3>1, <3>2, NotBelow
    <3> QED BY <1>2, <3>1, <3>3
  <2>5. PICK v \in Int : v = lo
    BY <1>2
  <2>6. WindowAt(v)'
    BY <1>1, <1>2, <2>3, <2>4, <2>5 DEF WindowAt
  <2> QED BY <2>6
<1> QED BY <1>4, <1>5 DEF WindowInv

\* The rest of the tasklet, block ack set-up and tear-down, joins and removal.
LEMMA WindowOther ==
    ASSUME SessionInv, RxAfter \/ RxCancel \/ Session \/ Free \/ Stop \/ SenderAdvance
    PROVE  SessInv' /\ WindowInv'
<1>0. lo \in Int /\ lo <= lo + 1
  BY DEF SessionInv, OrderInv, TypeOK
<1> USE DEF ctrl, life, air
<1>1. CASE RxAfter
  <2>1. /\ rx = "after" /\ rx' = "idle" /\ iseq' = SnNext(iseq)
        /\ UNCHANGED <<enable, ack, pend, sta, top, back>>
    BY <1>1 DEF RxAfter
  <2>2. iseq' # Unset
    <3>1. iseq + 1 \in Int
      BY Sizes DEF SessionInv, OrderInv, TypeOK, Unset
    <3>2. SnNext(iseq) \in 0 .. Space - 1
      BY <3>1, ModDef DEF SnNext
    <3> QED BY <2>1, <3>2 DEF Unset
  <2>3. SessInv'
    BY <2>1, <2>2 DEF SessionInv, SessInv, Held
  <2>4. ~Live'
    BY <2>1 DEF SessionInv, SessInv, Live, Held
  <2> QED BY <2>3, <2>4 DEF WindowInv
<1>2. CASE RxCancel
  BY <1>0, <1>2, WindowKept DEF RxCancel, Held
<1>3. ASSUME NEW answer \in {"accept", "reject"}, AddBaRsp(answer)
      PROVE  SessInv' /\ WindowInv'
  BY <1>0, <1>3, WindowKept DEF AddBaRsp, Held
<1>4. CASE AddBaRspAcked
  <2>1. ack' = TRUE /\ UNCHANGED <<iseq, pend, rx, sta, top, back>>
    BY <1>4 DEF AddBaRspAcked
  <2> QED BY <2>1 DEF SessionInv, SessInv, WindowInv, Live, Held
<1>5. CASE DelBa
  <2>1. /\ enable /\ enable' = FALSE
        /\ UNCHANGED <<iseq, ack, pend, rx, frame, sta, lo, newest, top, back>>
    BY <1>5 DEF DelBa
  <2>2. SessInv'
    BY <2>1 DEF SessionInv, SessInv, Held
  <2>3. ASSUME Live' PROVE \E w \in Int : WindowAt(w)'
    <3>1. Live
      BY <2>1, <2>3 DEF Live, Held
    <3>2. PICK w \in Int : WindowAt(w)
      BY <3>1 DEF SessionInv, WindowInv
    <3>3. WindowAt(w)'
      BY <2>1, <3>2 DEF WindowAt
    <3> QED BY <3>3
  <2> QED BY <2>2, <2>3 DEF WindowInv
<1>6. CASE JoinReset
  <2>1. /\ enable' = FALSE /\ iseq' = Unset /\ top' = NoFrame
        /\ UNCHANGED <<pend, rx, sta, back>>
    BY <1>6 DEF JoinReset
  <2>2. Above(pend, NoFrame)
    <3>1. pend \in Seq(Numbers)
      BY DEF SessionInv, OrderInv, TypeOK, Numbers
    <3> QED BY <3>1, NumbersAreInts, NumbersPositive DEF Above
  <2> QED BY <2>1, <2>2 DEF SessionInv, SessInv, WindowInv, Live, Held
<1>7. CASE FreeUnhash
  BY <1>0, <1>7, WindowKept DEF FreeUnhash, Held
<1>8. CASE FreeCancel \/ FreeFlush
  BY <1>8, NotHeld DEF FreeCancel, FreeFlush, Held
<1>9. CASE Stop
  BY <1>0, <1>9, WindowKept DEF Stop, Held
<1>10. CASE SenderAdvance
  BY <1>0, <1>10, WindowKept DEF SenderAdvance, Held
<1> QED BY <1>1, <1>2, <1>3, <1>4, <1>5, <1>6, <1>7, <1>8, <1>9, <1>10 DEF Session, Free

\* Every step preserves the invariant.
LEMMA SessionStep ==
    ASSUME SessionInv, [Next]_vars
    PROVE  SessionInv'
<1>1. OrderInv'
  BY OrderStep DEF SessionInv
<1>2. CASE RxAfter \/ RxCancel \/ Session \/ Free \/ Stop \/ SenderAdvance
  BY <1>1, <1>2, WindowOther DEF SessionInv
<1>3. CASE RxBelowWindow \/ RxInBuffer \/ RxInsert
  BY <1>1, <1>3, WindowLocked DEF SessionInv
<1>4. ASSUME NEW n \in First .. MaxFrame, RxFrame(n) PROVE SessionInv'
  BY <1>1, <1>4, WindowRxFrame DEF SessionInv
<1>5. CASE Timer
  BY <1>1, <1>5, WindowTimer DEF SessionInv
<1>6. CASE Bar
  BY <1>1, <1>6, WindowBar DEF SessionInv
<1>7. CASE UNCHANGED vars
  <2>1. lo \in Int
    BY DEF SessionInv, OrderInv, TypeOK
  <2> QED BY <1>1, <1>7, <2>1, WindowKept DEF SessionInv, vars, ctrl, life, air, Held
<1> QED BY <1>2, <1>3, <1>4, <1>5, <1>6, <1>7 DEF Next, Rx, RxContinue

\* The invariant always holds.
LEMMA SessionAlways == Spec => []SessionInv
BY SessionInit, SessionStep, PTL DEF Spec

\* What is buffered is in the sender's order, without a duplicate; in a session it
\* is not beyond the end of the window, and less than a window of frames.
THEOREM BufferStaysInWindow == Spec => []BufferInWindow
<1>1. ASSUME SessionInv PROVE BufferInWindow
  <2>1. pend \in Seq(Numbers) /\ Sorted(pend)
    BY <1>1 DEF SessionInv, OrderInv, TypeOK, SpanInv, Numbers
  <2>2. \A i, j \in 1 .. Len(pend) : i < j => pend[i] < pend[j]
    BY <2>1 DEF Sorted
  <2>3. ASSUME InSession
        PROVE  /\ Len(pend) < WSize
               /\ \A k \in 1 .. Len(pend) : ~SnLess(WinEnd(iseq), Seq12(pend[k]))
    <3>1. Live /\ Spread(pend)
      BY <1>1, <2>3 DEF InSession, Live, SessionInv, SessInv
    <3>2. PICK w \in Int : WindowAt(w)
      BY <1>1, <3>1 DEF SessionInv, WindowInv
    <3>3. Len(pend) <= WSize - 1 /\ Len(pend) \in Nat
      <4>1. WSize - 1 \in Nat
        BY Sizes
      <4>2. \A x, y \in Elems(pend) : x - y < WSize - 1
        BY <3>1 DEF Spread
      <4> QED BY <2>1, <4>1, <4>2, SpanBoundsLength, NumbersAreInts
    <3>4. ASSUME NEW k \in 1 .. Len(pend) PROVE ~SnLess(WinEnd(iseq), Seq12(pend[k]))
      <4>1. pend[k] \in Int /\ pend[k] \in Elems(pend)
        BY <2>1, NumbersAreInts
      <4>2. pend[k] < w + WSize /\ w + WSize - 1 - pend[k] < Half
        BY <3>2, <4>1 DEF WindowAt, Around
      <4>3. WinEnd(iseq) = Seq12(w + WSize - 1)
        BY <3>2, SeqFacts DEF WindowAt
      <4>4. /\ w + WSize - 1 \in Int /\ (w + WSize - 1) - pend[k] < Half
            /\ pend[k] - (w + WSize - 1) <= Half /\ ~(w + WSize - 1 < pend[k])
        BY <4>1, <4>2, Sizes
      <4> QED BY <4>1, <4>3, <4>4, LessDecodes
    <3> QED BY <3>3, <3>4, Sizes
  <2> QED BY <2>2, <2>3 DEF BufferInWindow
<1> QED BY <1>1, SessionAlways, PTL

\* Only sections under the lock hand several frames up, and they keep the order.
LEMMA UpInOrder ==
    ASSUME SessionInv, Next
    PROVE  Sorted(up')
<1>0. OrderInv /\ TypeOK /\ pend \in Seq(Numbers) /\ Sorted(pend) /\ Sorted(<<>>)
  BY EmptyFacts DEF SessionInv, OrderInv, SpanInv, TypeOK, Numbers
<1>1. CASE RxInsert
  <2> DEFINE s == Seq12(frame)
             q == enqueue_reorder_recvframe(pend, frame)
             r == recv_indicatepkts_in_order(q, check_indicate_seq(WinStart(s), s))
  <2>1. rx = "lock" /\ ~IsDuplicate(pend, s) /\ up' = r.up
    BY <1>1, Zenon DEF RxInsert, RxLock, HandUp
  <2>2. /\ frame \in Numbers
        /\ \A x \in Elems(pend) : x - frame < Half /\ frame - x < Half
    BY <1>0, <2>1, LockedNear, Sizes
  <2>3. q \in Seq(Numbers) /\ Sorted(q)
    BY <1>0, <2>1, <2>2, EnqueueAdds
  <2>4. check_indicate_seq(WinStart(s), s) \in SeqNums
    BY <1>0, <2>1, <2>2, WindowTypes
  <2> HIDE DEF q
  <2>5. Parts(q, r)
    BY <2>3, <2>4, IndicateParts
  <2> QED BY <2>1, <2>5 DEF Parts
<1>2. CASE TimerLocked
  <2> DEFINE r == recv_indicatepkts_in_order(pend, Seq12(Head(pend)))
  <2>1. CASE pend = <<>>
    BY <1>0, <1>2, <2>1, Zenon DEF TimerLocked, HandUp
  <2>2. CASE pend # <<>>
    <3>1. up' = r.up
      BY <1>2, <2>2, Zenon DEF TimerLocked, HandUp
    <3>2. Head(pend) \in Int
      BY <1>0, <2>2, NumbersPositive
    <3>3. Seq12(Head(pend)) \in SeqNums
      BY <3>2, SeqFacts DEF SeqNums
    <3>4. Parts(pend, r)
      BY <1>0, <3>3, IndicateParts
    <3> QED BY <3>1, <3>4 DEF Parts
  <2> QED BY <2>1, <2>2
<1>3. ASSUME NEW n \in First .. MaxFrame, RxFrame(n) PROVE Sorted(up')
  <2>1. up' = <<>> \/ up' = <<n>>
    BY <1>3 DEF RxFrame
  <2>2. Sorted(<<n>>)
    BY DEF Sorted
  <2> QED BY <1>0, <2>1, <2>2
<1>4. CASE \/ RxAfter \/ RxBelowWindow \/ RxInBuffer \/ RxCancel \/ Bar \/ TimerFires
           \/ Session \/ Free \/ Stop \/ SenderAdvance
  <2>1. up' = <<>>
    BY <1>4, Zenon
       DEF RxAfter, RxBelowWindow, RxInBuffer, RxCancel, Bar, TimerFires, HandUp, Session,
           AddBaRsp, AddBaRspAcked, DelBa, JoinReset, Free, FreeUnhash, FreeCancel, FreeFlush,
           Stop, SenderAdvance
  <2> QED BY <1>0, <2>1
<1> QED BY <1>1, <1>2, <1>3, <1>4 DEF Next, Rx, RxContinue, Timer

\* In a session what goes up was sent after what went up before.
LEMMA UpAfterTop ==
    ASSUME SessionInv, Next, up' # <<>>, InSession, ~back
    PROVE  up'[1] > top
<1>1. Held /\ Live /\ OrderInv /\ SessInv /\ WindowInv
  BY DEF SessionInv, SessInv, InSession, Live
<1>2. CASE RxInsert
  <2>1. PICK w \in Int : Effect(w)
    BY <1>1, <1>2, InsertEffect
  <2> QED BY <1>1, <2>1 DEF Effect
<1>3. CASE TimerLocked
  <2>1. pend # <<>>
    BY <1>3, Zenon DEF TimerLocked, HandUp
  <2>2. PICK w \in Int : Effect(w)
    BY <1>1, <1>3, <2>1, TimerEffect
  <2> QED BY <1>1, <2>2 DEF Effect
<1>4. ASSUME NEW n \in First .. MaxFrame, RxFrame(n) PROVE FALSE
  BY <1>4 DEF RxFrame, InSession
<1>5. CASE \/ RxAfter \/ RxBelowWindow \/ RxInBuffer \/ RxCancel \/ Bar \/ TimerFires
           \/ Session \/ Free \/ Stop \/ SenderAdvance
  BY <1>5, Zenon
     DEF RxAfter, RxBelowWindow, RxInBuffer, RxCancel, Bar, TimerFires, HandUp, Session,
         AddBaRsp, AddBaRspAcked, DelBa, JoinReset, Free, FreeUnhash, FreeCancel, FreeFlush,
         Stop, SenderAdvance
<1> QED BY <1>2, <1>3, <1>4, <1>5 DEF Next, Rx, RxContinue, Timer

\* Within a session frames go up in the sender's order, each at most once, whoever
\* of recv_indicatepkt_reorder and the timer handler hands them up.
THEOREM AlwaysInOrder == Spec => InOrder
<1>1. ASSUME SessionInv, [Next]_vars PROVE [GoesUpInOrder]_vars
  <2>1. CASE Next
    BY <1>1, <2>1, UpInOrder, UpAfterTop DEF GoesUpInOrder, Sorted
  <2>2. CASE UNCHANGED vars
    BY <2>2
  <2> QED BY <1>1, <2>1, <2>2
<1> QED BY <1>1, SessionAlways, PTL DEF Spec, InOrder
=============================================================================
