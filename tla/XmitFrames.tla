----------------------------- MODULE XmitFrames -----------------------------
(***************************************************************************)
(* Proofs about the frames of the transmit path, for any number of queues, *)
(* stations, frames and buffers: types, conservation of frames, agreement  *)
(* of the pending lists and their counts, and the network queues, which    *)
(* are stopped in time and always going to be woken.                       *)
(*                                                                         *)
(* What the steps of Xmit do to frames is first said in sixteen kinds of   *)
(* moves; every invariant is then shown for the kinds.                     *)
(***************************************************************************)
EXTENDS XmitProofs, DataTheorems

frameVars == <<free, netq, qcnt, sta_queue, accnt, misled>>

Roaming == {"idle", "loop", "dequeue", "release"}
Carrying == {"first", "agg", "write", "free", "dropFree"}
Waking == tsk.pc \in {"wake", "dropWake", "aggWake"}

-----------------------------------------------------------------------------
(* Moves of a sender *)

(* Sender q goes from one of the control points in from to one in to. *)
Moves(q, from, to) ==
  /\ snd[q].pc \in from /\ snd'[q].pc \in to
  /\ \A p \in Queues \ {q} : snd'[p] = snd[p]

(* A frame is taken; the freed frame of somebody else may be the one. *)
Takes(q) ==
  /\ netq[q] = "on" /\ free > 0 /\ free' = free - 1
  /\ UNCHANGED <<netq, qcnt, sta_queue, accnt>>
  /\ snd[q].pc = "idle" /\ snd'[q].pc = "count"
  /\ \A p \in Queues \ {q} : snd'[p].pc = snd[p].pc /\ snd'[p].os_qid \in {snd[p].os_qid, q}
  /\ tsk'.pc = tsk.pc /\ tsk'.sta = tsk.sta /\ tsk'.q = tsk.q /\ tsk'.os_qid \in {tsk.os_qid, q}
  /\ \/ misled' = TRUE
     \/ misled' = misled /\ tsk' = tsk /\ \A p \in Queues \ {q} : snd'[p] = snd[p]

Checks(q) ==
  /\ Moves(q, {"count"}, {"stop", "pre", "free"})
  /\ snd'[q].pc # "stop" => ~(free <= StopAt)
  /\ UNCHANGED <<frameVars, tsk>>

Stops(q) ==
  /\ Moves(q, {"stop"}, {"pre", "free"})
  /\ netq' = [netq EXCEPT ![q] = "stopped"]
  /\ UNCHANGED <<free, qcnt, sta_queue, accnt, misled, tsk>>

Holds(q) ==
  /\ Moves(q, {"pre", "direct"}, {"direct", "free"})
  /\ UNCHANGED <<frameVars, tsk>>

Enqueues(q, s) ==
  /\ ~Locked /\ Moves(q, {"pre"}, {"idle"})
  /\ qcnt' = [qcnt EXCEPT ![s][q] = @ + 1]
  /\ accnt' = [accnt EXCEPT ![q] = @ + 1]
  /\ sta_queue' = [sta_queue EXCEPT ![q] = IF qcnt[s][q] = 0 THEN Append(@, s) ELSE @]
  /\ UNCHANGED <<free, netq, misled, tsk>>

Frees(q) ==
  /\ Moves(q, {"free"}, {"wake"}) /\ snd'[q].os_qid = q
  /\ free' = free + 1
  /\ UNCHANGED <<netq, qcnt, sta_queue, accnt, misled, tsk>>

Wakes(q) ==
  /\ Moves(q, {"wake"}, {"idle"})
  /\ netq' = [netq EXCEPT ![snd[q].os_qid] = "on"]
  /\ UNCHANGED <<free, qcnt, sta_queue, accnt, misled, tsk>>

(* Moves of the tasklet and of the environment *)

Roams ==
  /\ tsk.pc \in Roaming /\ tsk'.pc \in Roaming /\ tsk'.q \in {0, tsk.q}
  /\ UNCHANGED <<frameVars, snd>>

TaskletDequeues(s, q) ==
  /\ tsk.pc = "dequeue" /\ Dequeues(s, q)
  /\ UNCHANGED <<free, netq, misled, snd>>

Carries ==
  /\ tsk.pc \in Carrying \ {"agg"} /\ \E pc \in Carrying : tsk' = [tsk EXCEPT !.pc = pc]
  /\ UNCHANGED <<frameVars, snd>>

Aggregates ==
  /\ tsk.pc = "agg" /\ qcnt[tsk.sta][tsk.q] > 0
  /\ TakeHead(tsk.sta, tsk.q)
  /\ free' = free + 1
  /\ tsk' = [tsk EXCEPT !.pc = "aggWake", !.os_qid = tsk.q]
  /\ UNCHANGED <<netq, sta_queue, misled, snd>>

AggregateWakes ==
  /\ tsk.pc = "aggWake"
  /\ netq' = [netq EXCEPT ![tsk.os_qid] = "on"]
  /\ tsk' = [tsk EXCEPT !.pc = "agg", !.os_qid = 0]
  /\ UNCHANGED <<free, qcnt, sta_queue, accnt, misled, snd>>

AggregateEnds ==
  /\ tsk.pc = "agg" /\ tsk' = [tsk EXCEPT !.pc = "write"]
  /\ sta_queue' = [sta_queue EXCEPT ![tsk.q] =
                     IF qcnt[tsk.sta][tsk.q] = 0 THEN Without(@, tsk.sta)
                     ELSE IF Len(@) > 1 THEN Append(Without(@, tsk.sta), tsk.sta) ELSE @]
  /\ UNCHANGED <<free, netq, qcnt, accnt, misled, snd>>

TaskletFrees ==
  /\ tsk.pc \in {"free", "dropFree"}
  /\ \E pc \in {"wake", "dropWake"} : tsk' = [tsk EXCEPT !.pc = pc, !.os_qid = tsk.q]
  /\ free' = free + 1
  /\ UNCHANGED <<netq, qcnt, sta_queue, accnt, misled, snd>>

TaskletWakes ==
  /\ tsk.pc \in {"wake", "dropWake"}
  /\ netq' = [netq EXCEPT ![tsk.os_qid] = "on"]
  /\ tsk'.pc \in Roaming /\ tsk'.q = 0
  /\ UNCHANGED <<free, qcnt, sta_queue, accnt, misled, snd>>

Flushes(s) ==
  /\ ~Locked
  /\ free' = free + Total(qcnt[s], Queues)
  /\ netq' = [q \in Queues |-> IF qcnt[s][q] > 0 THEN "on" ELSE netq[q]]
  /\ accnt' = [q \in Queues |-> accnt[q] - qcnt[s][q]]
  /\ qcnt' = [qcnt EXCEPT ![s] = [q \in Queues |-> 0]]
  /\ sta_queue' = [q \in Queues |-> Without(sta_queue[q], s)]
  /\ UNCHANGED <<misled, snd, tsk>>

SenderMoves(q) ==
  \/ Takes(q) \/ Checks(q) \/ Stops(q) \/ Holds(q) \/ (\E s \in Stas : Enqueues(q, s))
  \/ Frees(q) \/ Wakes(q)

TaskletMoves ==
  \/ Roams \/ (\E s \in Stas, q \in Queues : TaskletDequeues(s, q)) \/ Carries
  \/ Aggregates \/ AggregateWakes \/ AggregateEnds \/ TaskletFrees \/ TaskletWakes

(* Every step is a move of one of the kinds, or leaves the frames alone. *)
Move ==
  \/ \E q \in Queues : SenderMoves(q)
  \/ TaskletMoves
  \/ \E s \in Stas : Flushes(s)
  \/ UNCHANGED <<frameVars, snd, tsk>>

(* Every step of a sender is one of its moves. *)
LEMMA SenderIsMove ==
  ASSUME PathTypes, NEW q \in Queues, rtw_alloc_xmitframe(q) \/ Sender(q)
  PROVE  SenderMoves(q)
<1> USE DEF SenderMoves, frameVars, queueVars, bufVars, envVars, history
<1>0. snd \in [Queues -> SndRec] /\ tsk \in TskRec
  BY DEF PathTypes
<1>1. CASE rtw_alloc_xmitframe(q)
  <2>1. Takes(q)
    BY <1>0, <1>1 DEF rtw_alloc_xmitframe, Takes, SndRec, TskRec
  <2> QED BY <2>1
<1>2. CASE CheckStop(q)
  <2>1. Checks(q)
    BY <1>0, <1>2, SizeAssumption DEF CheckStop, update_attrib, Goto, Checks, Moves, SndRec
  <2> QED BY <2>1
<1>3. CASE StopQueue(q)
  <2>1. Stops(q)
    BY <1>0, <1>3 DEF StopQueue, update_attrib, Goto, Stops, Moves, SndRec
  <2> QED BY <2>1
<1>4. CASE PreDirect(q)
  <2>1. Holds(q)
    BY <1>0, <1>4 DEF PreDirect, Goto, Holds, Moves, SndRec
  <2> QED BY <2>1
<1>5. CASE PreEnqueue(q)
  <2>1. snd[q].sta \in Stas
    BY <1>0, <1>5 DEF PreEnqueue, SndRec
  <2>2. CASE sta[snd[q].sta] = "assoc"
    <3>1. Enqueues(q, snd[q].sta)
      BY <1>0, <1>5, <2>2 DEF PreEnqueue, Enqueues, Moves, SndRec, Resting
    <3> QED BY <2>1, <3>1
  <2>3. CASE sta[snd[q].sta] # "assoc"
    <3>1. Holds(q)
      BY <1>0, <1>5, <2>3 DEF PreEnqueue, Holds, Moves, SndRec, Resting
    <3> QED BY <3>1
  <2> QED BY <2>2, <2>3
<1>6. CASE Direct(q)
  <2>1. Holds(q)
    BY <1>0, <1>6 DEF Direct, Holds, Moves, SndRec, Resting
  <2> QED BY <2>1
<1>7. CASE SenderFree(q)
  <2>1. Frees(q)
    BY <1>0, <1>7 DEF SenderFree, Frees, Moves, SndRec
  <2> QED BY <2>1
<1>8. CASE SenderWake(q)
  <2>1. Wakes(q)
    BY <1>0, <1>8 DEF SenderWake, Wakes, Moves, SndRec, Resting, rtw_os_check_wakup_queue
  <2> QED BY <2>1
<1> QED BY <1>1, <1>2, <1>3, <1>4, <1>5, <1>6, <1>7, <1>8 DEF Sender

(* Every step of the tasklet is one of its moves. *)
LEMMA TaskletIsMove ==
  ASSUME PathTypes, Tasklet
  PROVE  TaskletMoves
<1> USE DEF TaskletMoves, frameVars, queueVars, bufVars, envVars, history, At, TaskletTo
<1>0. tsk \in TskRec
  BY DEF PathTypes
<1>1. CASE TaskletRun \/ TaskletAlloc \/ DequeueNothing \/ Release
  <2>1. Roams
    BY <1>0, <1>1 DEF TaskletRun, TaskletAlloc, DequeueNothing, Release, Roams, Roaming, TskRec, Resting
  <2> QED BY <2>1
<1>2. CASE rtw_dequeue_xframe
  <2> PICK s \in Stas, q \in Queues : Dequeues(s, q)
    BY <1>2, DequeuesSome DEF PathTypes
  <2>1. TaskletDequeues(s, q)
    BY <1>2 DEF rtw_dequeue_xframe, TaskletDequeues
  <2> QED BY <2>1
<1>3. CASE CoalesceFirst \/ TaskletWrite
  <2>1. Carries
    BY <1>0, <1>3 DEF CoalesceFirst, TaskletWrite, Carries, Carrying
  <2> QED BY <2>1
<1>4. CASE Aggregate
  <2>1. Aggregates
    BY <1>4 DEF Aggregate, Aggregates
  <2> QED BY <2>1
<1>5. CASE AggregateWake
  <2>1. AggregateWakes
    BY <1>5 DEF AggregateWake, AggregateWakes, rtw_os_check_wakup_queue
  <2> QED BY <2>1
<1>6. CASE AggregateDone
  <2>1. AggregateEnds
    BY <1>6 DEF AggregateDone, AggregateEnds
  <2> QED BY <2>1
<1>7. CASE TaskletFree
  <2>1. TaskletFrees
    BY <1>7 DEF TaskletFree, TaskletFrees
  <2> QED BY <2>1
<1>8. CASE TaskletWake
  <2>1. TaskletWakes
    BY <1>0, <1>8 DEF TaskletWake, TaskletWakes, rtw_os_check_wakup_queue, Resting, Roaming
  <2> QED BY <2>1
<1> QED BY <1>1, <1>2, <1>3, <1>4, <1>5, <1>6, <1>7, <1>8 DEF Tasklet

(* Every step of the transmit path is a move, or leaves the frames alone. *)
LEMMA StepIsMove ==
  ASSUME PathTypes, [Next]_vars
  PROVE  Move
<1> USE DEF Move
<1>1. CASE \E q \in Queues : rtw_alloc_xmitframe(q) \/ Sender(q)
  BY <1>1, SenderIsMove
<1>2. CASE Tasklet
  BY <1>2, TaskletIsMove
<1>3. CASE \E s \in Stas : StaFlush(s)
  BY <1>3 DEF StaFlush, Flushes, history
<1>4. CASE \/ UrbComplete \/ UrbSchedule \/ (\E why \in {"scan", "link"} : HoldUp(why))
           \/ HoldOver \/ rtw_os_xmit_schedule \/ (\E s \in Stas : StaLeaves(s) \/ StaJoins(s))
           \/ SetDrvStopped \/ UNCHANGED vars
  BY <1>4 DEF UrbComplete, UrbSchedule, HoldUp, HoldOver, rtw_os_xmit_schedule, StaLeaves, StaJoins,
     SetDrvStopped, vars, frameVars, queueVars, history
<1> QED BY <1>1, <1>2, <1>3, <1>4 DEF Next

-----------------------------------------------------------------------------
(* Service lists and the numbers of pending frames *)

(* No station is on the list twice. *)
Once(list) == \A i, j \in DOMAIN list : list[i] = list[j] => i = j

(* Unlinking a station that is on the list once removes it and nothing else. *)
LEMMA WithoutOnce ==
  ASSUME NEW S, NEW list \in Seq(S), NEW x, Once(list)
  PROVE  /\ Once(Without(list, x)) /\ ~In(x, Without(list, x))
         /\ \A y \in S : In(y, Without(list, x)) => In(y, list)
<1>1. CASE ~In(x, list)
  BY <1>1 DEF Without, In
<1>2. CASE In(x, list)
  <2> DEFINE k == CHOOSE j \in DOMAIN list : list[j] = x
             w == [j \in 1 .. Len(list) - 1 |-> list[IF j < k THEN j ELSE j + 1]]
  <2>1. k \in 1 .. Len(list) /\ list[k] = x /\ Len(list) \in Nat /\ DOMAIN list = 1 .. Len(list)
    BY <1>2 DEF In
  <2>2. Without(list, x) = w
    BY <1>2 DEF Without, In
  <2> HIDE DEF k
  <2>3. ASSUME NEW j \in DOMAIN w
        PROVE  \E i \in 1 .. Len(list) : w[j] = list[i] /\ i = (IF j < k THEN j ELSE j + 1) /\ i # k
    BY <2>1
  <2>4. DOMAIN w = 1 .. Len(list) - 1
    OBVIOUS
  <2> HIDE DEF w
  <2>5. Once(w)
    <3> SUFFICES ASSUME NEW i \in DOMAIN w, NEW j \in DOMAIN w, w[i] = w[j] PROVE i = j
      BY DEF Once
    <3>1. PICK a \in 1 .. Len(list) : w[i] = list[a] /\ a = IF i < k THEN i ELSE i + 1
      BY <2>3
    <3>2. PICK b \in 1 .. Len(list) : w[j] = list[b] /\ b = IF j < k THEN j ELSE j + 1
      BY <2>3
    <3>3. a = b
      BY <3>1, <3>2, <2>1 DEF Once
    <3> QED BY <3>1, <3>2, <3>3, <2>1, <2>4
  <2>6. ~In(x, w)
    BY <2>1, <2>3 DEF Once, In
  <2>7. ASSUME NEW y \in S, In(y, w) PROVE In(y, list)
    BY <2>1, <2>3, <2>7 DEF In
  <2> QED BY <2>2, <2>5, <2>6, <2>7
<1> QED BY <1>1, <1>2

(* Appending a station that is not on the list adds it and nothing else. *)
LEMMA AppendOnce ==
  ASSUME NEW S, NEW list \in Seq(S), NEW x \in S, Once(list), ~In(x, list)
  PROVE  /\ Once(Append(list, x))
         /\ \A y \in S : In(y, Append(list, x)) => y = x \/ In(y, list)
<1>1. /\ DOMAIN Append(list, x) = 1 .. Len(list) + 1 /\ Append(list, x)[Len(list) + 1] = x
      /\ Len(list) \in Nat /\ DOMAIN list = 1 .. Len(list)
  OBVIOUS
<1>2. ASSUME NEW i \in DOMAIN Append(list, x)
      PROVE  i = Len(list) + 1 \/ (i \in DOMAIN list /\ Append(list, x)[i] = list[i])
  <2>1. i = Len(list) + 1 \/ i \in 1 .. Len(list)
    BY <1>1
  <2> QED BY <2>1, <1>1
<1>3. Once(Append(list, x))
  BY <1>1, <1>2 DEF Once, In
<1>4. \A y \in S : In(y, Append(list, x)) => y = x \/ In(y, list)
  BY <1>1, <1>2 DEF In
<1> QED BY <1>3, <1>4

(* The tasklet has taken the last frame of a station and not yet unlinked it. *)
Emptied(s, q) == Locked /\ s = tsk.sta /\ q = tsk.q

(* A station is on the service list exactly when it has frames, but for one whose frames *)
(* are being aggregated; rtl8723du_xmitframe_complete unlinks it before it unlocks.      *)
ListInv ==
  /\ \A q \in Queues : Once(sta_queue[q])
  /\ \A s \in Stas, q \in Queues :
       /\ qcnt[s][q] > 0 => In(s, sta_queue[q])
       /\ In(s, sta_queue[q]) => qcnt[s][q] > 0 \/ Emptied(s, q)

(* A move that leaves the pending frames alone *)
ListsAlone ==
  /\ UNCHANGED <<qcnt, sta_queue, accnt>>
  /\ Locked => Locked' /\ tsk'.sta = tsk.sta /\ tsk'.q = tsk.q

(* What a move does to the pending frames *)
LEMMA ListMoves ==
  ASSUME PathTypes, Move
  PROVE  \/ ListsAlone \/ (\E s \in Stas, q \in Queues : Enqueues(q, s) \/ TaskletDequeues(s, q))
         \/ Aggregates \/ AggregateEnds \/ (\E s \in Stas : Flushes(s))
<1>0. tsk \in TskRec
  BY DEF PathTypes
<1>1. ASSUME NEW q \in Queues, Takes(q) \/ Checks(q) \/ Stops(q) \/ Holds(q) \/ Frees(q) \/ Wakes(q)
      PROVE  ListsAlone
  BY <1>1 DEF Takes, Checks, Stops, Holds, Frees, Wakes, frameVars, ListsAlone, Locked
<1>2. ASSUME Roams \/ Carries \/ AggregateWakes \/ TaskletFrees \/ TaskletWakes
      PROVE  ListsAlone
  BY <1>0, <1>2 DEF Roams, Carries, AggregateWakes, TaskletFrees, TaskletWakes, frameVars, ListsAlone,
     Locked, Roaming, Carrying, TskRec
<1>3. ASSUME UNCHANGED <<frameVars, snd, tsk>> PROVE ListsAlone
  BY <1>3 DEF frameVars, ListsAlone, Locked
<1> QED BY <1>1, <1>2, <1>3 DEF Move, SenderMoves, TaskletMoves

(* Every move keeps the service lists in step. *)
LEMMA ListKept ==
  ASSUME PathTypes, ListInv, Move
  PROVE  ListInv'
<1> USE DEF PathTypes
<1>agree. ASSUME \A p \in Queues : Once(sta_queue'[p]),
                 \A z \in Stas, p \in Queues : In(z, sta_queue'[p]) <=> qcnt'[z][p] > 0
          PROVE  ListInv'
  BY <1>agree DEF ListInv
<1>1. CASE ListsAlone
  BY <1>1 DEF ListsAlone, ListInv, Emptied
<1>2. ASSUME NEW s \in Stas, NEW q \in Queues, Enqueues(q, s) PROVE ListInv'
  <2>1. /\ qcnt' = [qcnt EXCEPT ![s][q] = @ + 1] /\ ~Locked /\ tsk' = tsk
        /\ sta_queue' = [sta_queue EXCEPT ![q] = IF qcnt[s][q] = 0 THEN Append(@, s) ELSE @]
    BY <1>2 DEF Enqueues
  <2>2. \A z \in Stas, p \in Queues : In(z, sta_queue[p]) <=> qcnt[z][p] > 0
    BY <2>1 DEF ListInv, Emptied
  <2>3. \A p \in Queues \ {q} : sta_queue'[p] = sta_queue[p] /\ \A z \in Stas : qcnt'[z][p] = qcnt[z][p]
    BY <2>1
  <2>4. \A z \in Stas \ {s} : qcnt'[z][q] = qcnt[z][q]
    BY <2>1
  <2>5. qcnt'[s][q] > 0
    BY <2>1
  <2>6. CASE qcnt[s][q] = 0
    <3>1. sta_queue'[q] = Append(sta_queue[q], s) /\ ~In(s, sta_queue[q])
      BY <2>1, <2>2, <2>6
    <3>2. /\ Once(sta_queue'[q]) /\ In(s, sta_queue'[q])
          /\ \A z \in Stas \ {s} : In(z, sta_queue'[q]) <=> In(z, sta_queue[q])
      BY <3>1, AppendOnce, InAppend DEF ListInv
    <3> QED BY <2>2, <2>3, <2>4, <2>5, <3>2 DEF ListInv
  <2>7. CASE qcnt[s][q] # 0
    <3>1. sta_queue'[q] = sta_queue[q] /\ qcnt[s][q] > 0
      BY <2>1, <2>7
    <3> QED BY <2>2, <2>3, <2>4, <2>5, <3>1 DEF ListInv
  <2> QED BY <2>6, <2>7
<1>3. ASSUME NEW s \in Stas, NEW q \in Queues, TaskletDequeues(s, q) PROVE ListInv'
  <2>1. /\ qcnt' = [qcnt EXCEPT ![s][q] = @ - 1] /\ ~Locked /\ qcnt[s][q] > 0
        /\ sta_queue' = IF qcnt[s][q] = 1 THEN [sta_queue EXCEPT ![q] = Without(@, s)] ELSE sta_queue
    BY <1>3 DEF TaskletDequeues, Dequeues, TakeHead, Locked
  <2>2. \A z \in Stas, p \in Queues : In(z, sta_queue[p]) <=> qcnt[z][p] > 0
    BY <2>1 DEF ListInv, Emptied
  <2>3. \A p \in Queues \ {q} : sta_queue'[p] = sta_queue[p] /\ \A z \in Stas : qcnt'[z][p] = qcnt[z][p]
    BY <2>1
  <2>4. \A z \in Stas \ {s} : qcnt'[z][q] = qcnt[z][q]
    BY <2>1
  <2>5. qcnt'[s][q] > 0 <=> qcnt[s][q] # 1
    BY <2>1
  <2>6. CASE qcnt[s][q] = 1
    <3>1. sta_queue'[q] = Without(sta_queue[q], s)
      BY <2>1, <2>6
    <3>2. /\ Once(sta_queue'[q]) /\ ~In(s, sta_queue'[q])
          /\ \A z \in Stas \ {s} : In(z, sta_queue'[q]) <=> In(z, sta_queue[q])
      BY <3>1, WithoutOnce, InWithout DEF ListInv
    <3>3. \A p \in Queues : Once(sta_queue'[p])
      BY <2>3, <3>2 DEF ListInv
    <3>4. \A z \in Stas, p \in Queues : In(z, sta_queue'[p]) <=> qcnt'[z][p] > 0
      BY <2>2, <2>3, <2>4, <2>5, <2>6, <3>2
    <3> QED BY <3>3, <3>4, <1>agree
  <2>7. CASE qcnt[s][q] # 1
    <3>1. sta_queue'[q] = sta_queue[q]
      BY <2>1, <2>7
    <3> QED BY <2>1, <2>2, <2>3, <2>4, <2>5, <2>7, <3>1 DEF ListInv
  <2> QED BY <2>6, <2>7
<1>4. CASE Aggregates
  <2>1. tsk.sta \in Stas /\ tsk.q \in Queues /\ Locked
    BY <1>4 DEF Aggregates, TskRec, Serving, Locked
  <2>2. /\ qcnt' = [qcnt EXCEPT ![tsk.sta][tsk.q] = @ - 1] /\ sta_queue' = sta_queue
        /\ qcnt[tsk.sta][tsk.q] > 0
    BY <1>4 DEF Aggregates, TakeHead
  <2>3. Locked' /\ tsk'.sta = tsk.sta /\ tsk'.q = tsk.q
    BY <1>4 DEF Aggregates, TskRec, Locked
  <2>4. \A z \in Stas, p \in Queues :
          ~(z = tsk.sta /\ p = tsk.q) => qcnt'[z][p] = qcnt[z][p]
    BY <2>1, <2>2
  <2>5. \A z \in Stas, p \in Queues : In(z, sta_queue'[p]) <=> In(z, sta_queue[p])
    BY <2>2
  <2>6. \A z \in Stas, p \in Queues : z = tsk.sta /\ p = tsk.q => Emptied(z, p)'
    BY <2>3 DEF Emptied
  <2> QED BY <2>1, <2>2, <2>4, <2>5, <2>6 DEF ListInv, Emptied
<1>5. CASE AggregateEnds
  <2> DEFINE s == tsk.sta
             q == tsk.q
             old == sta_queue[q]
  <2>1. s \in Stas /\ q \in Queues /\ Locked
    BY <1>5 DEF AggregateEnds, TskRec, Serving, Locked
  <2>2. /\ sta_queue' = [sta_queue EXCEPT ![q] =
             IF qcnt[s][q] = 0 THEN Without(old, s)
             ELSE IF Len(old) > 1 THEN Append(Without(old, s), s) ELSE old]
        /\ qcnt' = qcnt
    BY <1>5 DEF AggregateEnds
  <2> HIDE DEF s, q
  <2>3. \A p \in Queues \ {q} : sta_queue'[p] = sta_queue[p]
    BY <2>1, <2>2
  <2>4. \A z \in Stas, p \in Queues :
          z # s \/ p # q => (In(z, sta_queue[p]) <=> qcnt[z][p] > 0)
    BY DEF ListInv, Emptied, s, q
  <2>5. Once(old) /\ old \in Seq(Stas)
    BY <2>1 DEF ListInv
  <2>6. /\ Once(sta_queue'[q]) /\ (In(s, sta_queue'[q]) <=> qcnt[s][q] > 0)
        /\ \A z \in Stas \ {s} : In(z, sta_queue'[q]) <=> In(z, sta_queue[q])
    <3>1. /\ Without(old, s) \in Seq(Stas) /\ Once(Without(old, s)) /\ ~In(s, Without(old, s))
          /\ \A z \in Stas \ {s} : In(z, Without(old, s)) <=> In(z, old)
      BY <2>5, WithoutOnce, WithoutKeeps, InWithout
    <3>2. CASE qcnt[s][q] = 0
      BY <2>1, <2>2, <3>1, <3>2
    <3>3. CASE qcnt[s][q] # 0 /\ Len(old) > 1
      <4>1. sta_queue'[q] = Append(Without(old, s), s) /\ qcnt[s][q] > 0
        BY <2>1, <2>2, <3>3
      <4> HIDE DEF old
      <4>2. /\ Once(sta_queue'[q]) /\ In(s, sta_queue'[q])
            /\ \A z \in Stas \ {s} : In(z, sta_queue'[q]) <=> In(z, Without(old, s))
        BY <2>1, <3>1, <4>1, AppendOnce, InAppend
      <4> QED BY <3>1, <4>1, <4>2 DEF old
    <3>4. CASE qcnt[s][q] # 0 /\ ~(Len(old) > 1)
      <4>1. sta_queue'[q] = old /\ qcnt[s][q] > 0
        BY <2>1, <2>2, <3>4
      <4> QED BY <2>1, <2>5, <4>1 DEF ListInv
    <3> QED BY <3>2, <3>3, <3>4
  <2>7. \A p \in Queues : Once(sta_queue'[p])
    BY <2>3, <2>6 DEF ListInv
  <2>8. \A z \in Stas, p \in Queues : In(z, sta_queue'[p]) <=> qcnt'[z][p] > 0
    BY <2>2, <2>3, <2>4, <2>6
  <2> QED BY <2>7, <2>8, <1>agree
<1>6. ASSUME NEW s \in Stas, Flushes(s) PROVE ListInv'
  <2>1. /\ qcnt' = [qcnt EXCEPT ![s] = [q \in Queues |-> 0]] /\ ~Locked
        /\ sta_queue' = [q \in Queues |-> Without(sta_queue[q], s)]
    BY <1>6 DEF Flushes
  <2>2. \A z \in Stas, p \in Queues : In(z, sta_queue[p]) <=> qcnt[z][p] > 0
    BY <2>1 DEF ListInv, Emptied
  <2>3. \A p \in Queues : qcnt'[s][p] = 0 /\ \A z \in Stas \ {s} : qcnt'[z][p] = qcnt[z][p]
    BY <2>1
  <2>4. ASSUME NEW p \in Queues
        PROVE  /\ Once(sta_queue'[p]) /\ ~In(s, sta_queue'[p])
               /\ \A z \in Stas \ {s} : In(z, sta_queue'[p]) <=> In(z, sta_queue[p])
    <3>1. sta_queue'[p] = Without(sta_queue[p], s)
      BY <2>1
    <3> QED BY <3>1, WithoutOnce, InWithout DEF ListInv
  <2>5. \A z \in Stas, p \in Queues : In(z, sta_queue'[p]) <=> qcnt'[z][p] > 0
    <3> SUFFICES ASSUME NEW z \in Stas, NEW p \in Queues
                 PROVE  In(z, sta_queue'[p]) <=> qcnt'[z][p] > 0
      OBVIOUS
    <3>1. CASE z = s
      BY <2>3, <2>4, <3>1
    <3>2. CASE z # s
      BY <2>2, <2>3, <2>4, <3>2
    <3> QED BY <3>1, <3>2
  <2> QED BY <2>4, <2>5, <1>agree
<1> QED BY <1>1, <1>2, <1>3, <1>4, <1>5, <1>6, ListMoves

(* The pending frames of one queue, station by station *)
Row(q) == [s \in Stas |-> qcnt[s][q]]
AccAt(q) == accnt[q] = Total(Row(q), Stas)

(* hwxmits[].accnt is the number of pending frames of its queue. *)
AccInv == accnt \in [Queues -> Nat] /\ \A q \in Queues : AccAt(q)

(* Changing the count of one station and accnt alike *)
LEMMA AccStep ==
  ASSUME NEW q \in Queues, NEW s \in Stas, NEW d \in Int,
         qcnt \in [Stas -> [Queues -> Nat]], qcnt' \in [Stas -> [Queues -> Nat]],
         qcnt'[s][q] = qcnt[s][q] + d, \A z \in Stas \ {s} : qcnt'[z][q] = qcnt[z][q],
         AccAt(q), accnt'[q] = accnt[q] + d
  PROVE  AccAt(q)' /\ accnt'[q] \in Nat
<1> DEFINE new == [z \in Stas |-> qcnt'[z][q]]
<1>1. Row(q) \in [Stas -> Int] /\ new \in [Stas -> Int] /\ new \in [Stas -> Nat]
  BY DEF Row
<1>2. new[s] = Row(q)[s] + d /\ \A z \in Stas \ {s} : new[z] = Row(q)[z]
  BY DEF Row
<1>3. Row(q)' = new
  BY DEF Row
<1> HIDE DEF new
<1>4. IsFiniteSet(Stas)
  BY SizeAssumption
<1>5. ASSUME NEW o \in [Stas -> Int], NEW n \in [Stas -> Int], n[s] = o[s] + d,
             \A z \in Stas \ {s} : n[z] = o[z]
      PROVE  Total(n, Stas) = Total(o, Stas) + d
  BY <1>4, <1>5, SumPlus
<1>6. Total(new, Stas) \in Nat
  BY <1>1, <1>4, SumNat
<1>8. Total(new, Stas) = Total(Row(q), Stas) + d
  BY <1>1, <1>2, <1>5
<1> QED BY <1>3, <1>6, <1>8 DEF AccAt

(* One station and its queue gain d frames. *)
Gains(s, q, d) ==
  /\ qcnt'[s][q] = qcnt[s][q] + d
  /\ \A z \in Stas, p \in Queues : z # s \/ p # q => qcnt'[z][p] = qcnt[z][p]
  /\ accnt'[q] = accnt[q] + d /\ \A p \in Queues \ {q} : accnt'[p] = accnt[p]
  /\ accnt' = [p \in Queues |-> accnt'[p]]

(* rtw_xmit_classifier adds a frame to one queue of one station. *)
LEMMA EnqueueGains ==
  ASSUME PathTypes, accnt \in [Queues -> Nat], NEW s \in Stas, NEW q \in Queues, Enqueues(q, s)
  PROVE  Gains(s, q, 1)
<1>1. qcnt' = [qcnt EXCEPT ![s][q] = @ + 1] /\ accnt' = [accnt EXCEPT ![q] = @ + 1]
  BY DEF Enqueues
<1> QED BY <1>1 DEF PathTypes, Gains

(* Dequeuing takes one away. *)
LEMMA TakeHeadGains ==
  ASSUME PathTypes, accnt \in [Queues -> Nat], NEW s \in Stas, NEW q \in Queues, TakeHead(s, q)
  PROVE  Gains(s, q, -1)
<1>1. qcnt' = [qcnt EXCEPT ![s][q] = @ - 1] /\ accnt' = [accnt EXCEPT ![q] = @ - 1]
  BY DEF TakeHead
<1> QED BY <1>1 DEF PathTypes, Gains

(* Every move keeps the counts equal to the sums. *)
LEMMA AccKept ==
  ASSUME PathTypes, PathTypes', AccInv, Move
  PROVE  AccInv'
<1>0. /\ qcnt \in [Stas -> [Queues -> Nat]] /\ qcnt' \in [Stas -> [Queues -> Nat]]
      /\ accnt \in [Queues -> Nat]
  BY DEF PathTypes, AccInv
<1>same. ASSUME NEW q \in Queues, \A z \in Stas : qcnt'[z][q] = qcnt[z][q], accnt'[q] = accnt[q]
         PROVE  AccAt(q)' /\ accnt'[q] \in Nat
  <2>1. Row(q)' = Row(q)
    BY <1>same DEF Row
  <2> QED BY <1>0, <1>same, <2>1 DEF AccAt, AccInv
<1>all. ASSUME accnt' = [q \in Queues |-> accnt'[q]],
               \A q \in Queues : AccAt(q)' /\ accnt'[q] \in Nat
        PROVE  AccInv'
  BY <1>all DEF AccInv
<1>one. ASSUME NEW s \in Stas, NEW q \in Queues, NEW d \in Int, Gains(s, q, d)
        PROVE  AccInv'
  <2>1. AccAt(q)' /\ accnt'[q] \in Nat
    BY <1>0, <1>one, AccStep DEF AccInv, Gains
  <2>2. ASSUME NEW p \in Queues \ {q} PROVE AccAt(p)' /\ accnt'[p] \in Nat
    BY <1>same, <1>one DEF Gains
  <2> QED BY <1>all, <1>one, <2>1, <2>2 DEF Gains
<1>1. CASE ListsAlone
  BY <1>1, <1>same, <1>0, <1>all DEF ListsAlone
<1>2. ASSUME NEW s \in Stas, NEW q \in Queues, Enqueues(q, s) PROVE AccInv'
  <2>1. Gains(s, q, 1)
    BY <1>0, <1>2, EnqueueGains
  <2> QED BY <2>1, <1>one
<1>take. ASSUME NEW s \in Stas, NEW q \in Queues, TakeHead(s, q) PROVE AccInv'
  <2>1. Gains(s, q, -1)
    BY <1>0, <1>take, TakeHeadGains
  <2> QED BY <2>1, <1>one
<1>3. ASSUME NEW s \in Stas, NEW q \in Queues, TaskletDequeues(s, q) PROVE AccInv'
  BY <1>3, <1>take DEF TaskletDequeues, Dequeues
<1>4. CASE Aggregates
  <2>1. tsk.sta \in Stas /\ tsk.q \in Queues
    BY <1>4 DEF Aggregates, PathTypes, TskRec, Serving
  <2> QED BY <1>4, <2>1, <1>take DEF Aggregates
<1>5. CASE AggregateEnds
  BY <1>5, <1>same, <1>0, <1>all DEF AggregateEnds
<1>6. ASSUME NEW s \in Stas, Flushes(s) PROVE AccInv'
  <2>1. /\ qcnt' = [qcnt EXCEPT ![s] = [q \in Queues |-> 0]]
        /\ accnt' = [q \in Queues |-> accnt[q] - qcnt[s][q]]
    BY <1>6 DEF Flushes
  <2>2. ASSUME NEW q \in Queues PROVE AccAt(q)' /\ accnt'[q] \in Nat
    <3> DEFINE d == 0 - qcnt[s][q]
    <3>1. /\ d \in Int /\ qcnt'[s][q] = qcnt[s][q] + d /\ accnt'[q] = accnt[q] + d
          /\ \A z \in Stas \ {s} : qcnt'[z][q] = qcnt[z][q]
      BY <1>0, <2>1
    <3> HIDE DEF d
    <3> QED BY <1>0, <3>1, AccStep DEF AccInv
  <2> QED BY <2>1, <2>2, <1>all
<1> QED BY <1>1, <1>2, <1>3, <1>4, <1>5, <1>6, ListMoves

-----------------------------------------------------------------------------
(* Frames are conserved *)

(* Numbers of sets of queues *)
LEMMA QueueSets ==
  ASSUME NEW A \in SUBSET Queues
  PROVE  /\ IsFiniteSet(A) /\ Cardinality(A) \in Nat
         /\ \A q \in Queues \ A : Cardinality(A \cup {q}) = Cardinality(A) + 1
         /\ \A q \in A : Cardinality(A \ {q}) = Cardinality(A) - 1
<1>1. IsFiniteSet(Queues)
  BY SizeAssumption, FS_Interval DEF Queues
<1>2. IsFiniteSet(A)
  BY <1>1, FS_Subset
<1> QED BY <1>2, FS_CardinalityType, FS_AddElement, FS_RemoveElement

(* One process has one thing more, or one less. *)
LEMMA CountMore ==
  ASSUME NEW A \in SUBSET Queues, NEW B \in SUBSET Queues, NEW q \in Queues, q \notin A, q \in B,
         \A p \in Queues \ {q} : p \in A <=> p \in B
  PROVE  Cardinality(B) = Cardinality(A) + 1
<1>1. B = A \cup {q}
  OBVIOUS
<1> QED BY <1>1, QueueSets

(* A pending frame more or less of one queue *)
LEMMA AccTotal ==
  ASSUME accnt \in [Queues -> Nat], accnt' \in [Queues -> Nat],
         NEW s \in Stas, NEW q \in Queues, NEW d \in Int, Gains(s, q, d)
  PROVE  Total(accnt', Queues) = Total(accnt, Queues) + d
<1>1. IsFiniteSet(Queues)
  BY SizeAssumption, FS_Interval DEF Queues
<1>2. ASSUME NEW o \in [Queues -> Int], NEW n \in [Queues -> Int], n[q] = o[q] + d,
             \A p \in Queues \ {q} : n[p] = o[p]
      PROVE  Total(n, Queues) = Total(o, Queues) + d
  BY <1>1, <1>2, SumPlus
<1>3. accnt \in [Queues -> Int] /\ accnt' \in [Queues -> Int]
  OBVIOUS
<1> QED BY <1>2, <1>3 DEF Gains

FrameInv == free \in Nat /\ FramesConserved

(* Every move keeps the number of frames. *)
LEMMA FramesKept ==
  ASSUME PathTypes, PathTypes', AccInv, AccInv', FrameInv, Move
  PROVE  FrameInv'
<1> DEFINE A == SendersWithFrame
           B == SendersWithFrame'
           m == Total(accnt, Queues)
           n == Total(accnt', Queues)
<1>fin. IsFiniteSet(Queues)
  BY SizeAssumption, FS_Interval DEF Queues
<1>acc. accnt \in [Queues -> Nat] /\ accnt' \in [Queues -> Nat]
  BY DEF AccInv
<1>0. /\ A \in SUBSET Queues /\ B \in SUBSET Queues
      /\ Cardinality(A) \in Nat /\ Cardinality(B) \in Nat /\ m \in Nat /\ n \in Nat
  <2>1. A \in SUBSET Queues /\ B \in SUBSET Queues
    BY DEF SendersWithFrame, Queues
  <2>2. m \in Nat /\ n \in Nat
    BY <1>acc, <1>fin, SumNat
  <2> QED BY <2>1, <2>2, QueueSets
<1>in. \A p \in Queues : /\ p \in A <=> snd[p].pc \notin {"idle", "wake"}
                         /\ p \in B <=> snd'[p].pc \notin {"idle", "wake"}
  BY DEF SendersWithFrame, Queues
<1>fr. free \in Nat /\ free + m + Cardinality(A) + One(TaskletWithFrame) = NFrames /\ NFrames \in Nat
  BY SizeAssumption DEF FrameInv, FramesConserved
<1>con. FramesConserved' <=> free' + n + Cardinality(B) + One(TaskletWithFrame') = NFrames
  BY DEF FramesConserved
<1>more. ASSUME NEW q \in Queues, q \notin A, q \in B, \A p \in Queues \ {q} : snd'[p].pc = snd[p].pc
         PROVE  Cardinality(B) = Cardinality(A) + 1
  <2>1. \A p \in Queues \ {q} : p \in A <=> p \in B
    BY <1>in, <1>more
  <2> QED BY <1>0, <1>more, <2>1, CountMore
<1>less. ASSUME NEW q \in Queues, q \in A, q \notin B, \A p \in Queues \ {q} : snd'[p].pc = snd[p].pc
         PROVE  Cardinality(A) = Cardinality(B) + 1
  <2>1. \A p \in Queues \ {q} : p \in A <=> p \in B
    BY <1>in, <1>less
  <2> QED BY <1>0, <1>less, <2>1, CountMore
<1>same. ASSUME NEW q \in Queues, q \in A <=> q \in B, \A p \in Queues \ {q} : snd'[p].pc = snd[p].pc
         PROVE  B = A
  <2>1. \A p \in Queues : p \in A <=> p \in B
    BY <1>in, <1>same
  <2> QED BY <1>0, <2>1
<1>idle. snd' = snd => B = A
  BY DEF SendersWithFrame
<1>tsk. tsk' = tsk => TaskletWithFrame' = TaskletWithFrame
  BY DEF TaskletWithFrame
<1> HIDE DEF A, B, m, n
<1> USE DEF FrameInv
<1>1. ASSUME NEW q \in Queues, Takes(q) PROVE FrameInv'
  <2>1. Cardinality(B) = Cardinality(A) + 1
    BY <1>1, <1>in, <1>more DEF Takes
  <2>2. TaskletWithFrame' = TaskletWithFrame
    BY <1>1 DEF Takes, TaskletWithFrame
  <2>3. n = m /\ free > 0 /\ free' = free - 1
    BY <1>1 DEF Takes, m, n
  <2> QED BY <1>0, <1>fr, <1>con, <2>1, <2>2, <2>3
<1>2. ASSUME NEW q \in Queues, Checks(q) \/ Stops(q) \/ Holds(q) PROVE FrameInv'
  <2>1. B = A
    BY <1>2, <1>in, <1>same DEF Checks, Stops, Holds, Moves
  <2>2. TaskletWithFrame' = TaskletWithFrame /\ n = m /\ free' = free
    BY <1>2, <1>tsk DEF Checks, Stops, Holds, frameVars, m, n
  <2> QED BY <1>fr, <1>con, <2>1, <2>2
<1>3. ASSUME NEW q \in Queues, NEW s \in Stas, Enqueues(q, s) PROVE FrameInv'
  <2>1. Cardinality(A) = Cardinality(B) + 1
    BY <1>3, <1>in, <1>less DEF Enqueues, Moves
  <2>2. TaskletWithFrame' = TaskletWithFrame /\ free' = free
    BY <1>3, <1>tsk DEF Enqueues
  <2>3. n = m + 1
    BY <1>3, <1>acc, EnqueueGains, AccTotal DEF m, n
  <2> QED BY <1>0, <1>fr, <1>con, <2>1, <2>2, <2>3
<1>4. ASSUME NEW q \in Queues, Frees(q) PROVE FrameInv'
  <2>1. Cardinality(A) = Cardinality(B) + 1
    BY <1>4, <1>in, <1>less DEF Frees, Moves
  <2>2. TaskletWithFrame' = TaskletWithFrame /\ n = m /\ free' = free + 1
    BY <1>4, <1>tsk DEF Frees, m, n
  <2> QED BY <1>0, <1>fr, <1>con, <2>1, <2>2
<1>5. ASSUME NEW q \in Queues, Wakes(q) PROVE FrameInv'
  <2>1. B = A
    BY <1>5, <1>in, <1>same DEF Wakes, Moves
  <2>2. TaskletWithFrame' = TaskletWithFrame /\ n = m /\ free' = free
    BY <1>5, <1>tsk DEF Wakes, m, n
  <2> QED BY <1>fr, <1>con, <2>1, <2>2
<1>6. CASE Roams \/ Carries \/ AggregateWakes \/ AggregateEnds \/ TaskletWakes
  <2>1. B = A /\ n = m /\ free' = free
    BY <1>6, <1>idle DEF Roams, Carries, AggregateWakes, AggregateEnds, TaskletWakes, frameVars, m, n
  <2>2. TaskletWithFrame' <=> TaskletWithFrame
    BY <1>6 DEF Roams, Carries, AggregateWakes, AggregateEnds, TaskletWakes, TaskletWithFrame,
       Roaming, Carrying, PathTypes, TskRec
  <2> QED BY <1>fr, <1>con, <2>1, <2>2 DEF One
<1>7. ASSUME NEW s \in Stas, NEW q \in Queues, TaskletDequeues(s, q) PROVE FrameInv'
  <2>1. B = A /\ free' = free
    BY <1>7, <1>idle DEF TaskletDequeues
  <2>2. ~TaskletWithFrame /\ TaskletWithFrame'
    BY <1>7 DEF TaskletDequeues, Dequeues, TaskletWithFrame, Resting
  <2>3. n = m + (-1)
    BY <1>7, <1>acc, TakeHeadGains, AccTotal DEF TaskletDequeues, Dequeues, m, n
  <2> QED BY <1>0, <1>fr, <1>con, <2>1, <2>2, <2>3 DEF One
<1>8. CASE Aggregates
  <2>1. B = A /\ free' = free + 1
    BY <1>8, <1>idle DEF Aggregates
  <2>2. TaskletWithFrame' /\ TaskletWithFrame
    BY <1>8 DEF Aggregates, TaskletWithFrame, PathTypes, TskRec
  <2>3. tsk.sta \in Stas /\ tsk.q \in Queues
    BY <1>8 DEF Aggregates, PathTypes, TskRec, Serving
  <2>4. Gains(tsk.sta, tsk.q, -1)
    BY <1>8, <1>acc, <2>3, TakeHeadGains DEF Aggregates
  <2>5. n = m + (-1)
    BY <1>acc, <2>3, <2>4, AccTotal DEF m, n
  <2> QED BY <1>0, <1>fr, <1>con, <2>1, <2>2, <2>5 DEF One
<1>9. CASE TaskletFrees
  <2>1. B = A /\ n = m /\ free' = free + 1
    BY <1>9, <1>idle DEF TaskletFrees, m, n
  <2>2. TaskletWithFrame /\ ~TaskletWithFrame'
    BY <1>9 DEF TaskletFrees, TaskletWithFrame, PathTypes, TskRec
  <2> QED BY <1>0, <1>fr, <1>con, <2>1, <2>2 DEF One
<1>10. ASSUME NEW s \in Stas, Flushes(s) PROVE FrameInv'
  <2> DEFINE t == Total(qcnt[s], Queues)
  <2>1. B = A /\ TaskletWithFrame' = TaskletWithFrame /\ free' = free + t
    BY <1>10, <1>idle, <1>tsk DEF Flushes
  <2>2. qcnt[s] \in [Queues -> Nat]
    BY DEF PathTypes
  <2>3. t \in Nat
    BY <1>fin, <2>2, SumNat
  <2>4. m = n + t
    <3>1. ASSUME NEW a \in [Queues -> Int], NEW b \in [Queues -> Int], NEW c \in [Queues -> Int],
                 \A q \in Queues : c[q] = a[q] + b[q]
          PROVE  Total(c, Queues) = Total(a, Queues) + Total(b, Queues)
      BY <1>fin, <3>1, SumAdd
    <3>2. /\ accnt \in [Queues -> Int] /\ accnt' \in [Queues -> Int] /\ qcnt[s] \in [Queues -> Int]
          /\ \A q \in Queues : accnt[q] = accnt'[q] + qcnt[s][q]
      BY <1>10, <1>acc, <2>2 DEF Flushes
    <3> QED BY <3>1, <3>2 DEF m, n
  <2> HIDE DEF t
  <2> QED BY <1>0, <1>fr, <1>con, <2>1, <2>3, <2>4
<1>11. CASE UNCHANGED <<frameVars, snd, tsk>>
  BY <1>11, <1>idle, <1>tsk, <1>fr, <1>con DEF frameVars, m, n
<1> QED BY <1>1, <1>2, <1>3, <1>4, <1>5, <1>6, <1>7, <1>8, <1>9, <1>10, <1>11
        DEF Move, SenderMoves, TaskletMoves

-----------------------------------------------------------------------------
(* The network queues *)

(* The os_qid of a freed frame is that of a queue and, while no wake-up is misled, that of *)
(* the queue the frame came from.                                                          *)
QidInv ==
  /\ Waking => tsk.os_qid \in Queues
  /\ \A q \in Queues : snd[q].pc = "wake" => snd[q].os_qid \in Queues
  /\ ~misled => /\ Waking => tsk.os_qid = tsk.q
                /\ \A q \in Queues : snd[q].pc = "wake" => snd[q].os_qid = q

(* With no frame in hand the tasklet serves no queue. *)
RestInv == tsk.pc \in Roaming => tsk.q = 0

NetInv ==
  /\ netq \in [Queues -> {"on", "stopped"}] /\ misled \in BOOLEAN
  /\ QidInv /\ RestInv

(* Every move keeps the wake-ups directed. *)
LEMMA NetKept ==
  ASSUME PathTypes, NetInv, Move
  PROVE  NetInv'
<1>0. snd \in [Queues -> SndRec] /\ tsk \in TskRec
  BY DEF PathTypes
<1>q. Waking => tsk.os_qid \in Queues
  BY DEF NetInv, QidInv
<1> USE DEF NetInv, QidInv, RestInv
<1>1. ASSUME NEW q \in Queues, Takes(q) PROVE NetInv'
  <2>1. netq' = netq /\ misled' \in BOOLEAN /\ (misled \/ misled' = TRUE \/ (tsk' = tsk /\ misled' = FALSE))
    BY <1>1 DEF Takes
  <2>2. Waking' <=> Waking
    BY <1>1 DEF Takes, Waking
  <2>3. RestInv' /\ (Waking' => tsk'.os_qid \in Queues)
    BY <1>1, <2>2 DEF Takes
  <2>4. \A p \in Queues : snd'[p].pc = "wake" => snd[p].pc = "wake" /\ snd'[p].os_qid \in Queues
    BY <1>1 DEF Takes
  <2>5. ~misled' => ~misled /\ tsk' = tsk /\ \A p \in Queues : snd'[p].pc = "wake" => snd'[p] = snd[p]
    BY <1>1 DEF Takes
  <2> QED BY <2>1, <2>2, <2>3, <2>4, <2>5
<1>2. ASSUME NEW q \in Queues,
             Checks(q) \/ Stops(q) \/ Holds(q) \/ (\E s \in Stas : Enqueues(q, s)) \/ Frees(q) \/ Wakes(q)
      PROVE  NetInv'
  <2>1. tsk' = tsk /\ misled' = misled /\ netq' \in [Queues -> {"on", "stopped"}]
    BY <1>2 DEF Checks, Stops, Holds, Enqueues, Frees, Wakes, frameVars
  <2>2. \A p \in Queues : snd'[p].pc = "wake" => (snd[p].pc = "wake" /\ snd'[p] = snd[p]) \/ snd'[p].os_qid = p
    BY <1>2 DEF Checks, Stops, Holds, Enqueues, Frees, Wakes, Moves
  <2> QED BY <2>1, <2>2 DEF Waking
<1>3. CASE TaskletMoves
  <2>1. snd' = snd /\ misled' = misled
    BY <1>3 DEF TaskletMoves, Roams, TaskletDequeues, Carries, Aggregates, AggregateWakes, AggregateEnds,
       TaskletFrees, TaskletWakes, frameVars
  <2>2. netq' \in [Queues -> {"on", "stopped"}]
    BY <1>3, <1>q DEF TaskletMoves, Roams, TaskletDequeues, Carries, Aggregates, AggregateWakes, AggregateEnds,
       TaskletFrees, TaskletWakes, frameVars
  <2>3. Waking' => tsk'.os_qid = tsk'.q /\ tsk'.q \in Queues
    <3>1. CASE Roams \/ Carries \/ AggregateWakes \/ AggregateEnds \/ TaskletWakes
               \/ \E s \in Stas, q \in Queues : TaskletDequeues(s, q)
      BY <1>0, <3>1 DEF Roams, TaskletDequeues, Dequeues, Carries, AggregateWakes, AggregateEnds,
         TaskletWakes, Waking, Roaming, Carrying, TskRec, Resting
    <3>2. CASE Aggregates \/ TaskletFrees
      BY <1>0, <3>2 DEF Aggregates, TaskletFrees, Waking, TskRec, Serving
    <3> QED BY <1>3, <3>1, <3>2 DEF TaskletMoves
  <2>4. RestInv'
    <3>1. CASE Roams \/ TaskletWakes
      BY <3>1 DEF Roams, TaskletWakes
    <3>2. CASE Carries \/ AggregateWakes \/ AggregateEnds \/ Aggregates \/ TaskletFrees
               \/ \E s \in Stas, q \in Queues : TaskletDequeues(s, q)
      BY <1>0, <3>2 DEF TaskletDequeues, Dequeues, Carries, AggregateWakes, AggregateEnds, Aggregates,
         TaskletFrees, Roaming, Carrying, TskRec, Resting
    <3> QED BY <1>3, <3>1, <3>2 DEF TaskletMoves
  <2> QED BY <2>1, <2>2, <2>3, <2>4
<1>4. ASSUME NEW s \in Stas, Flushes(s) PROVE NetInv'
  <2>1. netq' = [q \in Queues |-> IF qcnt[s][q] > 0 THEN "on" ELSE netq[q]] /\ UNCHANGED <<misled, snd, tsk>>
    BY <1>4 DEF Flushes
  <2> QED BY <2>1 DEF Waking
<1>5. CASE UNCHANGED <<frameVars, snd, tsk>>
  BY <1>5 DEF frameVars, Waking
<1> QED BY <1>1, <1>2, <1>3, <1>4, <1>5 DEF Move, SenderMoves

(* Somebody is still going to wake queue q. *)
Awaited(q) ==
  accnt[q] > 0 \/ snd[q].pc # "idle" \/ (tsk.q = q /\ tsk.pc \notin {"idle", "loop"})

(* Every move keeps the waker of a stopped queue: it passes from the sender to the pending *)
(* frames, from there to the tasklet, and ends with the wake-up.                           *)
LEMMA WakerKept ==
  ASSUME PathTypes, AccInv, AccInv', NetInv, StoppedWillWake, Move
  PROVE  StoppedWillWake'
<1>0. snd \in [Queues -> SndRec] /\ tsk \in TskRec /\ qcnt \in [Stas -> [Queues -> Nat]]
  BY DEF PathTypes
<1>net. /\ netq \in [Queues -> {"on", "stopped"}] /\ accnt \in [Queues -> Nat]
        /\ accnt' \in [Queues -> Nat]
  BY DEF NetInv, AccInv
<1>rest. tsk.pc \in Roaming => \A q \in Queues : tsk.q # q
  BY SizeAssumption DEF NetInv, RestInv, Queues
<1> SUFFICES ASSUME NEW p \in Queues, netq'[p] = "stopped", ~misled' PROVE Awaited(p)'
  BY DEF StoppedWillWake, Awaited
<1>pre. ASSUME netq[p] = "stopped", ~misled PROVE Awaited(p)
  BY <1>pre DEF StoppedWillWake, Awaited
<1>1. ASSUME NEW q \in Queues, Takes(q) PROVE Awaited(p)'
  <2>1. netq[p] = "stopped" /\ ~misled /\ accnt'[p] = accnt[p] /\ tsk' = tsk
        /\ (p # q => snd'[p] = snd[p]) /\ snd'[q].pc = "count"
    BY <1>1 DEF Takes
  <2> QED BY <1>pre, <2>1 DEF Awaited
<1>2. ASSUME NEW q \in Queues, Checks(q) \/ Stops(q) \/ Holds(q) \/ Frees(q) PROVE Awaited(p)'
  <2>1. accnt'[p] = accnt[p] /\ tsk' = tsk /\ misled' = misled
    BY <1>2 DEF Checks, Stops, Holds, Frees, frameVars
  <2>2. p # q => snd'[p] = snd[p] /\ netq'[p] = netq[p]
    BY <1>2, <1>net DEF Checks, Stops, Holds, Frees, Moves, frameVars
  <2>3. snd'[q].pc # "idle"
    BY <1>2 DEF Checks, Stops, Holds, Frees, Moves
  <2> QED BY <1>pre, <2>1, <2>2, <2>3 DEF Awaited
<1>3. ASSUME NEW q \in Queues, NEW s \in Stas, Enqueues(q, s) PROVE Awaited(p)'
  <2>1. netq[p] = "stopped" /\ ~misled /\ tsk' = tsk
    BY <1>3 DEF Enqueues
  <2>2. CASE p = q
    <3>1. accnt'[q] = accnt[q] + 1
      BY <1>3, <1>net DEF Enqueues
    <3> QED BY <1>net, <2>2, <3>1 DEF Awaited
  <2>3. CASE p # q
    <3>1. accnt'[p] = accnt[p] /\ snd'[p] = snd[p]
      BY <1>3, <1>net, <2>3 DEF Enqueues, Moves
    <3> QED BY <1>pre, <2>1, <3>1 DEF Awaited
  <2> QED BY <2>2, <2>3
<1>4. ASSUME NEW q \in Queues, Wakes(q) PROVE Awaited(p)'
  <2>1. ~misled /\ tsk' = tsk /\ accnt' = accnt /\ snd[q].os_qid = q
    BY <1>4 DEF Wakes, Moves, NetInv, QidInv
  <2>2. netq'[q] = "on" /\ (p # q => netq'[p] = netq[p] /\ snd'[p] = snd[p])
    BY <1>4, <1>net, <2>1 DEF Wakes, Moves
  <2> QED BY <1>pre, <2>1, <2>2 DEF Awaited
<1>5. CASE Roams
  <2>1. netq' = netq /\ accnt' = accnt /\ snd' = snd /\ ~misled /\ tsk.q # p
    BY <1>5, <1>rest DEF Roams, frameVars
  <2> QED BY <1>pre, <2>1 DEF Awaited
<1>6. ASSUME NEW s \in Stas, NEW q \in Queues, TaskletDequeues(s, q) PROVE Awaited(p)'
  <2>1. netq' = netq /\ snd' = snd /\ ~misled /\ tsk.q # p
    BY <1>6, <1>rest DEF TaskletDequeues, Roaming
  <2>2. tsk'.q = q /\ tsk'.pc = "first" /\ (p # q => accnt'[p] = accnt[p])
    BY <1>6, <1>net DEF TaskletDequeues, Dequeues, TakeHead, Resting
  <2> QED BY <1>pre, <2>1, <2>2 DEF Awaited
<1>7. CASE Carries \/ AggregateEnds \/ TaskletFrees
  <2>1. netq' = netq /\ snd' = snd /\ ~misled /\ accnt' = accnt
    BY <1>7 DEF Carries, AggregateEnds, TaskletFrees, frameVars
  <2>2. tsk'.q = tsk.q /\ tsk'.pc \notin {"idle", "loop"}
    BY <1>7, <1>0 DEF Carries, AggregateEnds, TaskletFrees, TskRec, Carrying
  <2> QED BY <1>pre, <2>1, <2>2 DEF Awaited
<1>8. CASE Aggregates
  <2>1. netq' = netq /\ snd' = snd /\ ~misled
    BY <1>8 DEF Aggregates
  <2>2. tsk'.q = tsk.q /\ tsk'.pc = "aggWake" /\ (p # tsk.q => accnt'[p] = accnt[p])
    BY <1>8, <1>0, <1>net DEF Aggregates, TakeHead, TskRec
  <2> QED BY <1>pre, <2>1, <2>2 DEF Awaited
<1>9. CASE AggregateWakes \/ TaskletWakes
  <2>1. snd' = snd /\ ~misled /\ accnt' = accnt /\ Waking
    BY <1>9 DEF AggregateWakes, TaskletWakes, Waking
  <2>2. netq' = [netq EXCEPT ![tsk.q] = "on"] /\ tsk.q # p /\ netq[p] = "stopped"
    <3>1. tsk.os_qid = tsk.q
      BY <2>1 DEF NetInv, QidInv
    <3>2. netq' = [netq EXCEPT ![tsk.q] = "on"]
      BY <1>9, <3>1 DEF AggregateWakes, TaskletWakes
    <3> QED BY <1>net, <3>2
  <2> QED BY <1>pre, <2>1, <2>2 DEF Awaited
<1>10. ASSUME NEW s \in Stas, Flushes(s) PROVE Awaited(p)'
  <2>1. ~misled /\ snd' = snd /\ tsk' = tsk
    BY <1>10 DEF Flushes
  <2>2. ~(qcnt[s][p] > 0) /\ netq[p] = "stopped" /\ accnt'[p] = accnt[p] - qcnt[s][p]
    BY <1>10 DEF Flushes
  <2>3. accnt'[p] = accnt[p]
    BY <1>0, <1>net, <2>2
  <2> QED BY <1>pre, <2>1, <2>2, <2>3 DEF Awaited
<1>11. CASE UNCHANGED <<frameVars, snd, tsk>>
  BY <1>11, <1>pre DEF frameVars, Awaited
<1> QED BY <1>1, <1>2, <1>3, <1>4, <1>5, <1>6, <1>7, <1>8, <1>9, <1>10, <1>11
        DEF Move, SenderMoves, TaskletMoves

-----------------------------------------------------------------------------
(* Queues are stopped in time *)

(* Senders that may take a frame before they look at the count again: those whose queue is *)
(* on, and those that are about to turn theirs on.                                         *)
MayTake ==
  {q \in Queues : snd[q].pc = "wake" \/ (netq[q] = "on" /\ snd[q].pc \notin {"count", "stop"})}

(* There is a free frame for each of them, and for the one whose queue the tasklet is      *)
(* about to wake.                                                                          *)
RoomInv == ~misled => free >= Cardinality(MayTake) + One(Waking)

(* A set with one queue more at most *)
LEMMA CountAtMost ==
  ASSUME NEW A \in SUBSET Queues, NEW B \in SUBSET Queues, NEW C \in SUBSET Queues, B \subseteq A \cup C
  PROVE  /\ Cardinality(A) \in Nat /\ Cardinality(B) \in Nat /\ Cardinality(C) \in Nat
         /\ Cardinality(B) <= Cardinality(A) + Cardinality(C)
<1>1. IsFiniteSet(A) /\ IsFiniteSet(B) /\ IsFiniteSet(C)
  BY QueueSets
<1>2. IsFiniteSet(A \cup C) /\ IsFiniteSet(A \cap C)
  BY <1>1, FS_Union, FS_Intersection
<1>3. Cardinality(A \cup C) = Cardinality(A) + Cardinality(C) - Cardinality(A \cap C)
  BY <1>1, FS_Union
<1>4. /\ Cardinality(A) \in Nat /\ Cardinality(B) \in Nat /\ Cardinality(C) \in Nat
      /\ Cardinality(A \cap C) \in Nat /\ Cardinality(A \cup C) \in Nat
  BY <1>1, <1>2, FS_CardinalityType
<1>5. Cardinality(B) <= Cardinality(A \cup C)
  BY <1>2, FS_Subset
<1> QED BY <1>3, <1>4, <1>5

(* There are NQueues queues. *)
LEMMA AllQueues ==
  Cardinality(Queues) = NQueues /\ \A A \in SUBSET Queues : Cardinality(A) <= NQueues
<1>1. IsFiniteSet(Queues) /\ Cardinality(Queues) = NQueues
  BY SizeAssumption, FS_Interval DEF Queues
<1> QED BY <1>1, FS_Subset

(* The frames of a station are at least as many as the queues it has frames in. *)
LEMMA FlushRoom ==
  ASSUME NEW n \in [Queues -> Nat]
  PROVE  /\ Total(n, Queues) \in Nat
         /\ Cardinality({q \in Queues : n[q] > 0}) <= Total(n, Queues)
<1> DEFINE A == {q \in Queues : n[q] > 0}
           e == [q \in Queues |-> IF q \in A THEN 1 ELSE 0]
<1>1. IsFiniteSet(Queues)
  BY SizeAssumption, FS_Interval DEF Queues
<1>2. e \in [Queues -> Int] /\ n \in [Queues -> Int] /\ \A q \in Queues : e[q] <= n[q]
  OBVIOUS
<1>3. A \in SUBSET Queues /\ \A q \in Queues : e[q] = IF q \in A THEN 1 ELSE 0
  OBVIOUS
<1> HIDE DEF A, e
<1>4. Total(e, Queues) = Cardinality(A)
  BY <1>1, <1>2, <1>3, SumCounts
<1>5. Total(e, Queues) <= Total(n, Queues) /\ Total(n, Queues) \in Nat
  BY <1>1, <1>2, SumMono, SumNat
<1> QED BY <1>4, <1>5 DEF A

(* Every move leaves room. *)
LEMMA RoomKept ==
  ASSUME PathTypes, NetInv, free \in Nat, RoomInv, Move
  PROVE  RoomInv'
<1> DEFINE A == MayTake
           B == MayTake'
<1>0. A \in SUBSET Queues /\ B \in SUBSET Queues
  BY DEF MayTake, Queues
<1>in. \A p \in Queues :
         /\ p \in A <=> snd[p].pc = "wake" \/ (netq[p] = "on" /\ snd[p].pc \notin {"count", "stop"})
         /\ p \in B <=> snd'[p].pc = "wake" \/ (netq'[p] = "on" /\ snd'[p].pc \notin {"count", "stop"})
  BY DEF MayTake, Queues
<1>room. RoomInv' <=> (~misled' => free' >= Cardinality(B) + One(Waking'))
  BY DEF RoomInv
<1>pre. ~misled => free >= Cardinality(A) + One(Waking)
  BY DEF RoomInv
<1>card. Cardinality(A) \in Nat /\ Cardinality(B) \in Nat
  BY <1>0, QueueSets
<1>net. netq \in [Queues -> {"on", "stopped"}]
  BY DEF NetInv
<1>1q. \A q \in Queues : Cardinality({q}) = 1
  BY FS_Singleton
<1> HIDE DEF A, B
<1>same. ASSUME B \subseteq A, free' = free, Waking' <=> Waking, misled' = misled PROVE RoomInv'
  <2>1. Cardinality(B) <= Cardinality(A)
    BY <1>0, <1>same, QueueSets, FS_Subset
  <2> QED BY <1>room, <1>pre, <1>card, <1>same, <2>1 DEF One
<1>tsk. tsk' = tsk => (Waking' <=> Waking)
  BY DEF Waking
<1>idle. UNCHANGED <<snd, netq>> => B = A
  BY DEF MayTake, A, B
<1>1. ASSUME NEW q \in Queues, Takes(q) PROVE RoomInv'
  <2> SUFFICES ASSUME ~misled' PROVE free' >= Cardinality(B) + One(Waking')
    BY <1>room
  <2>1. ~misled /\ tsk' = tsk /\ free' = free - 1 /\ \A p \in Queues \ {q} : snd'[p] = snd[p]
    BY <1>1 DEF Takes
  <2>2. q \in A /\ q \notin B
    BY <1>1, <1>in DEF Takes
  <2>3. \A p \in Queues \ {q} : p \in B <=> p \in A
    BY <1>1, <1>in, <2>1 DEF Takes
  <2>4. Cardinality(A) = Cardinality(B) + 1
    BY <1>0, <2>2, <2>3, CountMore
  <2> QED BY <1>pre, <1>card, <1>tsk, <2>1, <2>4 DEF One
<1>2. ASSUME NEW q \in Queues, Checks(q) PROVE RoomInv'
  <2>1. UNCHANGED <<free, netq, tsk, misled>> /\ snd[q].pc = "count"
        /\ \A p \in Queues \ {q} : snd'[p] = snd[p]
    BY <1>2 DEF Checks, frameVars, Moves
  <2>2. CASE snd'[q].pc = "stop"
    <3>1. B \subseteq A
      BY <1>0, <1>in, <2>1, <2>2
    <3> QED BY <1>same, <1>tsk, <2>1, <3>1
  <2>3. CASE snd'[q].pc # "stop"
    <3>1. free > StopAt
      BY <1>2, <2>3, SizeAssumption DEF Checks
    <3>2. Cardinality(B) <= NQueues
      BY <1>0, AllQueues
    <3>3. free' >= Cardinality(B) + 1
      BY <1>card, <2>1, <3>1, <3>2, StopAssumption, SizeAssumption
    <3> QED BY <1>room, <1>card, <2>1, <3>3 DEF One
  <2> QED BY <2>2, <2>3
<1>3. ASSUME NEW q \in Queues, Stops(q) \/ Holds(q) \/ (\E s \in Stas : Enqueues(q, s)) PROVE RoomInv'
  <2>1. UNCHANGED <<free, tsk, misled>>
    BY <1>3 DEF Stops, Holds, Enqueues, frameVars
  <2>2. \A p \in Queues \ {q} : snd'[p] = snd[p] /\ netq'[p] = netq[p]
    BY <1>3, <1>net DEF Stops, Holds, Enqueues, frameVars, Moves
  <2>3. q \in B => q \in A
    BY <1>3, <1>in, <1>net DEF Stops, Holds, Enqueues, frameVars, Moves
  <2>4. B \subseteq A
    BY <1>0, <1>in, <2>2, <2>3
  <2> QED BY <1>same, <1>tsk, <2>1, <2>4
<1>4. ASSUME NEW q \in Queues, Frees(q) PROVE RoomInv'
  <2>1. UNCHANGED <<netq, tsk, misled>> /\ free' = free + 1 /\ \A p \in Queues \ {q} : snd'[p] = snd[p]
    BY <1>4 DEF Frees, Moves
  <2>2. B \subseteq A \cup {q}
    BY <1>0, <1>in, <2>1
  <2>3. Cardinality(B) <= Cardinality(A) + 1
    BY <1>0, <1>1q, <2>2, CountAtMost
  <2> QED BY <1>room, <1>pre, <1>card, <1>tsk, <2>1, <2>3 DEF One
<1>5. ASSUME NEW q \in Queues, Wakes(q) PROVE RoomInv'
  <2> SUFFICES ASSUME ~misled' PROVE RoomInv'
    BY <1>room
  <2>1. UNCHANGED <<free, tsk, misled>> /\ \A p \in Queues \ {q} : snd'[p] = snd[p]
    BY <1>5 DEF Wakes, Moves
  <2>2. q \in A /\ snd[q].os_qid = q
    BY <1>5, <1>in, <2>1 DEF Wakes, Moves, NetInv, QidInv
  <2>3. \A p \in Queues \ {q} : netq'[p] = netq[p]
    BY <1>5, <1>net, <2>2 DEF Wakes
  <2>4. B \subseteq A
    BY <1>0, <1>in, <2>1, <2>2, <2>3
  <2> QED BY <1>same, <1>tsk, <2>1, <2>4
<1>6. CASE Roams \/ Carries \/ AggregateEnds \/ (\E s \in Stas, q \in Queues : TaskletDequeues(s, q))
  <2>1. UNCHANGED <<free, netq, snd, misled>>
    BY <1>6 DEF Roams, Carries, AggregateEnds, TaskletDequeues, frameVars
  <2>2. ~Waking /\ ~Waking'
    BY <1>6 DEF Roams, Carries, AggregateEnds, TaskletDequeues, Dequeues, Waking, Roaming, Carrying,
       PathTypes, TskRec, Resting
  <2> QED BY <1>same, <1>idle, <2>1, <2>2
<1>7. CASE Aggregates \/ TaskletFrees
  <2>1. UNCHANGED <<netq, snd, misled>> /\ free' = free + 1
    BY <1>7 DEF Aggregates, TaskletFrees
  <2>2. ~Waking
    BY <1>7 DEF Aggregates, TaskletFrees, Waking
  <2> QED BY <1>room, <1>pre, <1>card, <1>idle, <2>1, <2>2 DEF One
<1>8. CASE AggregateWakes \/ TaskletWakes
  <2> SUFFICES ASSUME ~misled' PROVE RoomInv'
    BY <1>room
  <2>1. UNCHANGED <<free, snd, misled>> /\ Waking /\ ~Waking'
    BY <1>8 DEF AggregateWakes, TaskletWakes, Waking, Roaming, PathTypes, TskRec
  <2>2. tsk.os_qid \in Queues
    BY <2>1 DEF NetInv, QidInv
  <2>3. \A p \in Queues \ {tsk.os_qid} : netq'[p] = netq[p]
    BY <1>8, <1>net, <2>2 DEF AggregateWakes, TaskletWakes
  <2>4. B \subseteq A \cup {tsk.os_qid}
    BY <1>0, <1>in, <2>1, <2>3
  <2>5. Cardinality(B) <= Cardinality(A) + 1
    BY <1>0, <1>1q, <2>2, <2>4, CountAtMost
  <2> QED BY <1>room, <1>pre, <1>card, <2>1, <2>5 DEF One
<1>9. ASSUME NEW s \in Stas, Flushes(s) PROVE RoomInv'
  <2> DEFINE C == {q \in Queues : qcnt[s][q] > 0}
             t == Total(qcnt[s], Queues)
  <2>1. UNCHANGED <<misled, snd, tsk>> /\ free' = free + t
    BY <1>9 DEF Flushes
  <2>2. qcnt[s] \in [Queues -> Nat]
    BY DEF PathTypes
  <2>3. t \in Nat /\ Cardinality(C) <= t
    BY <2>2, FlushRoom
  <2>4. B \subseteq A \cup C
    BY <1>0, <1>9, <1>in, <2>1 DEF Flushes
  <2>5. C \in SUBSET Queues
    OBVIOUS
  <2> HIDE DEF C, t
  <2>6. Cardinality(C) \in Nat /\ Cardinality(B) <= Cardinality(A) + Cardinality(C)
    BY <1>0, <2>4, <2>5, CountAtMost
  <2> QED BY <1>room, <1>pre, <1>card, <1>tsk, <2>1, <2>3, <2>6 DEF One
<1>10. CASE UNCHANGED <<frameVars, snd, tsk>>
  BY <1>10, <1>same, <1>idle, <1>tsk DEF frameVars
<1> QED BY <1>1, <1>2, <1>3, <1>4, <1>5, <1>6, <1>7, <1>8, <1>9, <1>10
        DEF Move, SenderMoves, TaskletMoves

-----------------------------------------------------------------------------
(* The other variables *)

EnvTypes ==
  /\ hold \in {"none", "scan", "link"} /\ sta \in [Stas -> {"assoc", "leaving", "none"}]
  /\ sched \in BOOLEAN /\ resume \in BOOLEAN /\ stopped \in BOOLEAN /\ ending \in BOOLEAN
  /\ silent \in BOOLEAN /\ events \in 0 .. MaxEvents

(* Events are counted up to the bound. *)
LEMMA EventCounted ==
  ASSUME events \in 0 .. MaxEvents, Event \/ UNCHANGED events
  PROVE  events' \in 0 .. MaxEvents
BY SizeAssumption DEF Event

(* Every step keeps the types of the environment. *)
LEMMA EnvKept ==
  ASSUME EnvTypes, [Next]_vars
  PROVE  EnvTypes'
<1> USE DEF EnvTypes, queueVars, bufVars, envVars, history
<1>ev. Event \/ UNCHANGED events => events' \in 0 .. MaxEvents
  BY EventCounted
<1>1. ASSUME NEW q \in Queues, rtw_alloc_xmitframe(q) PROVE EnvTypes'
  BY <1>1, <1>ev DEF rtw_alloc_xmitframe
<1>2. ASSUME NEW q \in Queues, CheckStop(q) \/ StopQueue(q) \/ PreDirect(q) \/ PreEnqueue(q)
                               \/ SenderFree(q) \/ SenderWake(q)
      PROVE  EnvTypes'
  BY <1>2 DEF CheckStop, StopQueue, PreDirect, PreEnqueue, SenderFree, SenderWake
<1>3. ASSUME NEW q \in Queues, Direct(q) PROVE EnvTypes'
  BY <1>3, <1>ev DEF Direct, Written, NotWritten, SubmitFails
<1>4. CASE TaskletWrite
  BY <1>4, <1>ev DEF TaskletWrite, Written, NotWritten, SubmitFails
<1>5. CASE CoalesceFirst
  BY <1>5, <1>ev DEF CoalesceFirst
<1>6. CASE \/ TaskletRun \/ TaskletAlloc \/ rtw_dequeue_xframe \/ DequeueNothing \/ Release
           \/ Aggregate \/ AggregateWake \/ AggregateDone \/ TaskletFree \/ TaskletWake
  BY <1>6 DEF TaskletRun, TaskletAlloc, rtw_dequeue_xframe, DequeueNothing, Release, Aggregate,
     AggregateWake, AggregateDone, TaskletFree, TaskletWake
<1>7. CASE UrbComplete
  BY <1>7, <1>ev DEF UrbComplete
<1>8. CASE UrbSchedule \/ HoldOver \/ rtw_os_xmit_schedule
  BY <1>8 DEF UrbSchedule, HoldOver, rtw_os_xmit_schedule
<1>9. CASE \E why \in {"scan", "link"} : HoldUp(why)
  BY <1>9, <1>ev DEF HoldUp
<1>10. ASSUME NEW s \in Stas, StaLeaves(s) PROVE EnvTypes'
  BY <1>10, <1>ev DEF StaLeaves
<1>11. ASSUME NEW s \in Stas, StaFlush(s) \/ StaJoins(s) PROVE EnvTypes'
  BY <1>11 DEF StaFlush, StaJoins
<1>12. CASE SetDrvStopped
  BY <1>12, <1>ev DEF SetDrvStopped
<1>13. CASE UNCHANGED vars
  BY <1>13 DEF vars
<1> QED BY <1>1, <1>2, <1>3, <1>4, <1>5, <1>6, <1>7, <1>8, <1>9, <1>10, <1>11, <1>12, <1>13
        DEF Next, Sender, Tasklet

-----------------------------------------------------------------------------
(* The theorems *)

(* The invariant of the frames: ListInv and AccInv tie the lists to the counts, NetInv says   *)
(* whom a wake-up is for, RoomInv keeps a frame for everybody who may take one.               *)
FramesInv ==
  /\ PathTypes /\ EnvTypes /\ ListInv /\ AccInv /\ FrameInv /\ NetInv /\ StoppedWillWake /\ RoomInv

(* The invariant holds initially, ... *)
LEMMA FramesInitially == Init => FramesInv
<1> SUFFICES ASSUME Init PROVE FramesInv
  OBVIOUS
<1>fin. IsFiniteSet(Queues) /\ IsFiniteSet(Stas)
  BY SizeAssumption, FS_Interval DEF Queues
<1>1. PathTypes
  BY Initially
<1>2. EnvTypes
  <2>1. events \in 0 .. MaxEvents
    BY SizeAssumption DEF Init
  <2> QED BY <2>1 DEF Init, EnvTypes
<1>3. ListInv
  BY DEF Init, ListInv, Once, In
<1>4. AccInv
  <2>1. ASSUME NEW q \in Queues PROVE AccAt(q)
    <3>1. Row(q) \in [Stas -> Int] /\ \A s \in Stas : Row(q)[s] = 0
      BY DEF Row, Init
    <3>2. Total(Row(q), Stas) = 0
      BY <1>fin, <3>1, SumZero
    <3> QED BY <3>2 DEF AccAt, Init
  <2> QED BY <2>1 DEF AccInv, Init
<1>5. FrameInv
  <2>1. accnt \in [Queues -> Int] /\ \A q \in Queues : accnt[q] = 0
    BY DEF Init
  <2>2. Total(accnt, Queues) = 0
    BY <1>fin, <2>1, SumZero
  <2>3. SendersWithFrame = {} /\ ~TaskletWithFrame
    BY DEF Init, SendersWithFrame, TaskletWithFrame, Resting
  <2>4. Cardinality(SendersWithFrame) = 0
    BY <2>3, FS_EmptySet
  <2> QED BY <2>2, <2>3, <2>4, SizeAssumption DEF FrameInv, FramesConserved, Init, One
<1>6. NetInv
  BY DEF Init, NetInv, QidInv, RestInv, Waking, Resting
<1>7. StoppedWillWake
  BY DEF Init, StoppedWillWake
<1>8. RoomInv
  <2>1. MayTake = Queues /\ ~Waking
    BY DEF Init, MayTake, Waking, Resting
  <2> QED BY <2>1, AllQueues, StopAssumption, SizeAssumption DEF Init, RoomInv, One
<1> QED BY <1>1, <1>2, <1>3, <1>4, <1>5, <1>6, <1>7, <1>8 DEF FramesInv

(* ... every step keeps it, ... *)
LEMMA FramesStep == FramesInv /\ [Next]_vars => FramesInv'
<1> SUFFICES ASSUME FramesInv, [Next]_vars PROVE FramesInv'
  OBVIOUS
<1> USE DEF FramesInv
<1>1. PathTypes'
  BY TypesKept
<1>2. Move
  BY StepIsMove
<1>3. EnvTypes' /\ ListInv' /\ NetInv'
  BY <1>2, EnvKept, ListKept, NetKept
<1>4. AccInv'
  BY <1>1, <1>2, AccKept
<1>5. FrameInv'
  BY <1>1, <1>2, <1>4, FramesKept
<1>6. StoppedWillWake'
  BY <1>2, <1>4, WakerKept
<1>7. RoomInv'
  BY <1>2, RoomKept DEF FrameInv
<1> QED BY <1>1, <1>3, <1>4, <1>5, <1>6, <1>7

(* ... so that it holds always. *)
LEMMA FramesAlways == Spec => []FramesInv
BY FramesInitially, FramesStep, PTL DEF Spec

(* The places of a station in a list where nobody is twice *)
LEMMA PlacesCount ==
  ASSUME NEW S, NEW list \in Seq(S), NEW s \in S, Once(list)
  PROVE  Cardinality({i \in DOMAIN list : list[i] = s}) = One(In(s, list))
<1> DEFINE P == {i \in DOMAIN list : list[i] = s}
<1>1. CASE ~In(s, list)
  <2>1. P = {}
    BY <1>1 DEF In
  <2> QED BY <1>1, <2>1, FS_EmptySet DEF One
<1>2. CASE In(s, list)
  <2>1. PICK i \in DOMAIN list : list[i] = s
    BY <1>2 DEF In
  <2>2. P = {i}
    BY <2>1 DEF Once
  <2> QED BY <1>2, <2>2, FS_Singleton DEF One
<1> QED BY <1>1, <1>2

(* The transmit path is type correct for any number of queues, stations, frames and buffers:   *)
(* no count of pending frames goes below zero, and every wake-up is for a queue that exists.   *)
THEOREM TypeCorrect == Spec => []TypeOK
<1>1. ASSUME FramesInv PROVE TypeOK
  <2>1. /\ free \in Nat /\ netq \in [Queues -> {"on", "stopped"}]
        /\ qcnt \in [Stas -> [Queues -> Nat]] /\ accnt \in [Queues -> Nat]
        /\ sta_queue \in [Queues -> Seq(Stas)] /\ bufs \in Nat /\ urbs \in Nat /\ misled \in BOOLEAN
    BY <1>1 DEF FramesInv, FrameInv, NetInv, AccInv, PathTypes
  <2>2. ASSUME NEW q \in Queues
        PROVE  /\ snd[q].pc \in {"idle", "count", "stop", "pre", "direct", "free", "wake"}
               /\ snd[q].pc \in {"pre", "direct"} => snd[q].sta \in Stas
               /\ snd[q].pc = "wake" => snd[q].os_qid \in Queues
    BY <1>1 DEF FramesInv, PathTypes, SndRec, SenderPcs, NetInv, QidInv
  <2>3. /\ tsk.pc \in TaskletPcs
        /\ tsk.pc \in Serving => tsk.sta \in Stas /\ tsk.q \in Queues
    BY <1>1 DEF FramesInv, PathTypes, TskRec
  <2> QED BY <1>1, <2>1, <2>2, <2>3 DEF TypeOK, FramesInv, EnvTypes, TaskletPcs, Serving
<1> QED BY <1>1, FramesAlways, PTL

(* No frame is ever lost or freed twice.  The argument is the sum over the queues of accnt,    *)
(* which a departing station changes in every queue at once.                                   *)
THEOREM AllFramesConserved == Spec => []FramesConserved
<1>1. FramesInv => FramesConserved
  BY DEF FramesInv, FrameInv
<1> QED BY <1>1, FramesAlways, PTL

(* A station is on a service list exactly when it has frames there, once, and accnt is their   *)
(* number.                                                                                     *)
THEOREM ListsAlwaysAgree == Spec => []ListsAgree
<1>1. ASSUME FramesInv PROVE ListsAgree
  <2>1. \A q \in Queues : accnt[q] = Total([s \in Stas |-> qcnt[s][q]], Stas)
    BY <1>1 DEF FramesInv, AccInv, AccAt, Row
  <2>2. ASSUME ~Locked, NEW q \in Queues, NEW s \in Stas
        PROVE  Cardinality({i \in DOMAIN sta_queue[q] : sta_queue[q][i] = s}) = One(qcnt[s][q] > 0)
    <3>1. Once(sta_queue[q]) /\ (In(s, sta_queue[q]) <=> qcnt[s][q] > 0)
      BY <1>1, <2>2 DEF FramesInv, ListInv, Emptied
    <3>2. sta_queue[q] \in Seq(Stas)
      BY <1>1 DEF FramesInv, PathTypes
    <3>3. Cardinality({i \in DOMAIN sta_queue[q] : sta_queue[q][i] = s}) = One(In(s, sta_queue[q]))
      BY <3>1, <3>2, PlacesCount
    <3> QED BY <3>1, <3>3 DEF One
  <2> QED BY <2>1, <2>2 DEF ListsAgree
<1> QED BY <1>1, FramesAlways, PTL

(* While no wake-up is misled, a stopped network queue always has a waker.                     *)
THEOREM StoppedQueuesWake == Spec => []StoppedWillWake
<1>1. FramesInv => StoppedWillWake
  BY DEF FramesInv
<1> QED BY <1>1, FramesAlways, PTL

(* While no wake-up is misled, a sender whose queue is on finds a frame, provided queues are   *)
(* stopped while StopAt >= NQueues frames are left.                                            *)
THEOREM FramesNeverOut == Spec => []NeverOutOfFrames
<1>1. ASSUME FramesInv PROVE NeverOutOfFrames
  <2> SUFFICES ASSUME NEW q \in Queues, netq[q] = "on", snd[q].pc = "idle", ~misled PROVE free > 0
    BY DEF NeverOutOfFrames
  <2>1. q \in MayTake /\ MayTake \in SUBSET Queues
    BY DEF MayTake, Queues
  <2>2. Cardinality(MayTake) \in Nat /\ Cardinality(MayTake) > 0
    <3>1. IsFiniteSet(MayTake) /\ Cardinality(MayTake) \in Nat
      BY <2>1, QueueSets
    <3> QED BY <2>1, <3>1, FS_EmptySet
  <2> QED BY <1>1, <2>2 DEF FramesInv, FrameInv, RoomInv, One
<1> QED BY <1>1, FramesAlways, PTL
=============================================================================
