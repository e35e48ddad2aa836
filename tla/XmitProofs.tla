----------------------------- MODULE XmitProofs -----------------------------
(***************************************************************************)
(* Proofs about the transmit path, for any number of queues, stations,     *)
(* frames and (two or more) buffers: transmit buffers are conserved, and   *)
(* pending frames are always going to be looked at.                        *)
(***************************************************************************)
EXTENDS Xmit, FiniteSetTheorems, TLAPS

SenderPcs == {"idle", "count", "stop", "pre", "direct", "free", "wake"}
Serving == {"first", "agg", "aggWake", "write", "free", "wake", "dropFree", "dropWake"}
TaskletPcs == {"idle", "loop", "dequeue", "release"} \cup Serving

(* Types of the variables the proofs are about *)
SndRec ==
  {r \in [pc : SenderPcs, sta : Stas \cup {None}, q : {0}, os_qid : 0 .. NQueues] :
     r.pc \in {"pre", "direct"} => r.sta \in Stas}
TskRec ==
  {r \in [pc : TaskletPcs, sta : Stas \cup {None}, q : 0 .. NQueues, os_qid : 0 .. NQueues] :
     r.pc \in Serving => r.sta \in Stas /\ r.q \in Queues}

PathTypes ==
  /\ bufs \in Nat /\ urbs \in Nat
  /\ snd \in [Queues -> SndRec]
  /\ tsk \in TskRec
  /\ qcnt \in [Stas -> [Queues -> Nat]]
  /\ sta_queue \in [Queues -> Seq(Stas)]

(* Unlinking a node leaves a list of the others. *)
LEMMA WithoutKeeps ==
  ASSUME NEW S, NEW seq \in Seq(S), NEW x
  PROVE  /\ Without(seq, x) \in Seq(S)
         /\ \A y \in S : y # x /\ (\E i \in DOMAIN seq : seq[i] = y) =>
              \E i \in DOMAIN Without(seq, x) : Without(seq, x)[i] = y
<1>1. CASE ~ \E i \in DOMAIN seq : seq[i] = x
  BY <1>1 DEF Without
<1>2. CASE \E i \in DOMAIN seq : seq[i] = x
  <2> DEFINE k == CHOOSE j \in DOMAIN seq : seq[j] = x
             w == [j \in 1 .. Len(seq) - 1 |-> seq[IF j < k THEN j ELSE j + 1]]
  <2>1. k \in 1 .. Len(seq) /\ seq[k] = x /\ Len(seq) \in Nat
    BY <1>2
  <2>2. Without(seq, x) = w
    BY <1>2 DEF Without
  <2> HIDE DEF k
  <2>3. w \in Seq(S) /\ Len(w) = Len(seq) - 1 /\ DOMAIN w = 1 .. Len(seq) - 1
    BY <2>1
  <2>4. ASSUME NEW y \in S, y # x, NEW i \in DOMAIN seq, seq[i] = y
        PROVE  \E j \in DOMAIN w : w[j] = y
    <3>1. i \in 1 .. Len(seq) /\ i # k
      BY <2>1, <2>4
    <3>2. CASE i < k
      <4>1. i \in 1 .. Len(seq) - 1 /\ w[i] = seq[i]
        BY <3>1, <3>2, <2>1
      <4> QED BY <4>1, <2>3, <2>4
    <3>3. CASE i > k
      <4>1. i - 1 \in 1 .. Len(seq) - 1 /\ ~(i - 1 < k) /\ (i - 1) + 1 = i
        BY <3>1, <3>3, <2>1
      <4>2. w[i - 1] = seq[i]
        BY <4>1
      <4> QED BY <4>1, <4>2, <2>3, <2>4
    <3> QED BY <3>1, <3>2, <3>3, <2>1
  <2> HIDE DEF w
  <2> QED BY <2>2, <2>3, <2>4
<1> QED BY <1>1, <1>2

(* What the steps of a sender make of its record *)
LEMMA SndRecSteps ==
  ASSUME NEW r \in SndRec
  PROVE  /\ \A c \in SenderPcs \ {"pre", "direct"} : [r EXCEPT !.pc = c] \in SndRec
         /\ \A s \in Stas : [r EXCEPT !.pc = "pre", !.sta = s] \in SndRec
         /\ r.pc = "pre" => [r EXCEPT !.pc = "direct"] \in SndRec
         /\ \A q \in Queues : [r EXCEPT !.os_qid = q] \in SndRec
         /\ \A q \in Queues : [r EXCEPT !.pc = "wake", !.os_qid = q] \in SndRec
<1> USE SizeAssumption DEF SndRec, SenderPcs, Queues
<1>1. ASSUME NEW c \in SenderPcs \ {"pre", "direct"} PROVE [r EXCEPT !.pc = c] \in SndRec
  OBVIOUS
<1>2. ASSUME NEW s \in Stas PROVE [r EXCEPT !.pc = "pre", !.sta = s] \in SndRec
  OBVIOUS
<1>3. ASSUME r.pc = "pre" PROVE [r EXCEPT !.pc = "direct"] \in SndRec
  BY <1>3
<1>4. ASSUME NEW q \in Queues PROVE [r EXCEPT !.os_qid = q] \in SndRec
  OBVIOUS
<1>5. ASSUME NEW q \in Queues PROVE [r EXCEPT !.pc = "wake", !.os_qid = q] \in SndRec
  <2>1. q \in 0 .. NQueues
    OBVIOUS
  <2> HIDE SizeAssumption DEF Queues
  <2> QED BY <2>1
<1> HIDE DEF SndRec, SenderPcs, Queues
<1> QED BY <1>1, <1>2, <1>3, <1>4, <1>5

LEMMA SndRecNew ==
  Resting \in SndRec /\ [Resting EXCEPT !.pc = "free"] \in SndRec
BY SizeAssumption DEF SndRec, SenderPcs, Resting

(* What the steps of the tasklet make of its record *)
LEMMA TskRecSteps ==
  ASSUME NEW r \in TskRec
  PROVE  /\ \A c \in TaskletPcs \ Serving : [r EXCEPT !.pc = c] \in TskRec
         /\ r.pc \in Serving => \A c \in Serving : [r EXCEPT !.pc = c] \in TskRec
         /\ \A q \in Queues : [r EXCEPT !.os_qid = q] \in TskRec
         /\ r.pc \in Serving => \A c \in Serving, q \in 0 .. NQueues :
              [r EXCEPT !.pc = c, !.os_qid = q] \in TskRec
<1> USE DEF TskRec, TaskletPcs, Serving
<1>1. ASSUME NEW c \in TaskletPcs \ Serving PROVE [r EXCEPT !.pc = c] \in TskRec
  OBVIOUS
<1>2. ASSUME r.pc \in Serving, NEW c \in Serving PROVE [r EXCEPT !.pc = c] \in TskRec
  BY <1>2
<1>3. ASSUME NEW q \in Queues PROVE q \in 0 .. NQueues
  BY SizeAssumption DEF Queues
<1>4. ASSUME NEW q \in 0 .. NQueues PROVE [r EXCEPT !.os_qid = q] \in TskRec
  OBVIOUS
<1>5. ASSUME r.pc \in Serving, NEW c \in Serving, NEW q \in 0 .. NQueues
      PROVE  [r EXCEPT !.pc = c, !.os_qid = q] \in TskRec
  BY <1>5
<1> HIDE DEF TskRec, TaskletPcs, Serving
<1> QED BY <1>1, <1>2, <1>3, <1>4, <1>5

LEMMA TskRecNew ==
  /\ Resting \in TskRec
  /\ \A c \in TaskletPcs \ Serving : [Resting EXCEPT !.pc = c] \in TskRec
  /\ \A s \in Stas, q \in Queues :
       [Resting EXCEPT !.pc = "first", !.sta = s, !.q = q] \in TskRec
<1>1. \A q \in Queues : q \in 0 .. NQueues
  BY SizeAssumption DEF Queues
<1>2. 0 \in 0 .. NQueues
  BY SizeAssumption
<1> USE DEF TskRec, TaskletPcs, Serving, Resting
<1>3. Resting \in TskRec
  BY <1>2
<1>4. ASSUME NEW c \in TaskletPcs \ Serving PROVE [Resting EXCEPT !.pc = c] \in TskRec
  BY <1>2
<1>5. ASSUME NEW s \in Stas, NEW q \in Queues
      PROVE  [Resting EXCEPT !.pc = "first", !.sta = s, !.q = q] \in TskRec
  BY <1>1, <1>2
<1> HIDE DEF TskRec, TaskletPcs, Serving, Resting
<1> QED BY <1>3, <1>4, <1>5

(* rtw_dequeue_xframe takes a frame of some station and queue. *)
Dequeues(s, q) ==
  /\ qcnt[s][q] > 0
  /\ TakeHead(s, q)
  /\ sta_queue' = IF qcnt[s][q] = 1 THEN [sta_queue EXCEPT ![q] = Without(@, s)] ELSE sta_queue
  /\ tsk' = [Resting EXCEPT !.pc = "first", !.sta = s, !.q = q]

LEMMA DequeuesSome ==
  ASSUME sta_queue \in [Queues -> Seq(Stas)], rtw_dequeue_xframe
  PROVE  \E s \in Stas, q \in Queues : Dequeues(s, q)
<1>1. PICK q \in Queues : \E i \in Servable(q) : Dequeues(sta_queue[q][i], q)
  BY DEF rtw_dequeue_xframe, Dequeues, Servable
<1>2. PICK i \in Servable(q) : Dequeues(sta_queue[q][i], q)
  BY <1>1
<1>3. sta_queue[q][i] \in Stas
  BY DEF Servable
<1> QED BY <1>2, <1>3

(* Every step keeps the types. *)
LEMMA TypesKept ==
  ASSUME PathTypes, [Next]_vars PROVE PathTypes'
<1> USE DEF PathTypes, queueVars, bufVars, envVars
<1>1. CASE \E q \in Queues : rtw_alloc_xmitframe(q)
  <2> PICK q \in Queues : rtw_alloc_xmitframe(q)
    BY <1>1
  <2> DEFINE taken == [snd EXCEPT ![q].pc = "count"]
  <2>1. "count" \in SenderPcs \ {"pre", "direct"}
    BY DEF SenderPcs
  <2>2. taken \in [Queues -> SndRec]
    BY <2>1, SndRecSteps
  <2>3. \A p \in Queues : [taken EXCEPT ![p].os_qid = q] \in [Queues -> SndRec]
    <3> HIDE DEF taken
    <3> QED BY <2>2, SndRecSteps
  <2>4. [tsk EXCEPT !.os_qid = q] \in TskRec
    BY TskRecSteps
  <2>5. /\ snd' \in [Queues -> SndRec] /\ tsk' \in TskRec
        /\ UNCHANGED <<bufs, urbs, qcnt, sta_queue>>
    <3>1. snd' = taken \/ \E p \in Queues : snd' = [taken EXCEPT ![p].os_qid = q]
      BY DEF rtw_alloc_xmitframe
    <3>2. tsk' = tsk \/ tsk' = [tsk EXCEPT !.os_qid = q]
      BY DEF rtw_alloc_xmitframe
    <3> HIDE DEF taken
    <3>3. UNCHANGED <<bufs, urbs, qcnt, sta_queue>>
      BY DEF rtw_alloc_xmitframe
    <3> QED BY <3>1, <3>2, <3>3, <2>2, <2>3, <2>4
  <2> QED BY <2>5
<1>2. CASE \E q \in Queues : CheckStop(q)
  <2> PICK q \in Queues : CheckStop(q)
    BY <1>2
  <2>1. snd[q] \in SndRec
    OBVIOUS
  <2>2. snd' \in [Queues -> SndRec]
    <3>2. \A s \in Stas : [snd EXCEPT ![q].pc = "pre", ![q].sta = s] \in [Queues -> SndRec]
      BY <2>1, SndRecSteps
    <3>3. {"stop", "free"} \subseteq SenderPcs \ {"pre", "direct"}
      BY DEF SenderPcs
    <3>4. \/ \E c \in {"stop", "free"} : snd' = [snd EXCEPT ![q].pc = c]
          \/ \E s \in Stas : snd' = [snd EXCEPT ![q].pc = "pre", ![q].sta = s]
      BY DEF CheckStop, update_attrib, Goto
    <3>5. ASSUME NEW c \in {"stop", "free"}, snd' = [snd EXCEPT ![q].pc = c]
          PROVE  snd' \in [Queues -> SndRec]
      <4>1. [snd[q] EXCEPT !.pc = c] \in SndRec
        BY <2>1, <3>3, SndRecSteps
      <4> QED BY <4>1, <3>5
    <3> QED BY <3>2, <3>4, <3>5
  <2> QED BY <2>2 DEF CheckStop
<1>3. CASE \E q \in Queues : StopQueue(q)
  <2> PICK q \in Queues : StopQueue(q)
    BY <1>3
  <2>1. snd[q] \in SndRec
    OBVIOUS
  <2>2. snd' \in [Queues -> SndRec]
    <3>2. \A s \in Stas : [snd EXCEPT ![q].pc = "pre", ![q].sta = s] \in [Queues -> SndRec]
      BY <2>1, SndRecSteps
    <3>3. {"stop", "free"} \subseteq SenderPcs \ {"pre", "direct"}
      BY DEF SenderPcs
    <3>4. \/ \E c \in {"stop", "free"} : snd' = [snd EXCEPT ![q].pc = c]
          \/ \E s \in Stas : snd' = [snd EXCEPT ![q].pc = "pre", ![q].sta = s]
      BY DEF StopQueue, update_attrib, Goto
    <3>5. ASSUME NEW c \in {"stop", "free"}, snd' = [snd EXCEPT ![q].pc = c]
          PROVE  snd' \in [Queues -> SndRec]
      <4>1. [snd[q] EXCEPT !.pc = c] \in SndRec
        BY <2>1, <3>3, SndRecSteps
      <4> QED BY <4>1, <3>5
    <3> QED BY <3>2, <3>4, <3>5
  <2> QED BY <2>2 DEF StopQueue
<1>4. CASE \E q \in Queues : PreDirect(q)
  <2> PICK q \in Queues : PreDirect(q)
    BY <1>4
  <2>1. snd[q] \in SndRec
    OBVIOUS
  <2>2. snd' \in [Queues -> SndRec]
    <3>1. [snd[q] EXCEPT !.pc = "direct"] \in SndRec
      BY <2>1, SndRecSteps DEF PreDirect
    <3> QED BY <3>1 DEF PreDirect, Goto
  <2> QED BY <2>2 DEF PreDirect, MustQueue
<1>5. CASE \E q \in Queues : PreEnqueue(q)
  <2> PICK q \in Queues : PreEnqueue(q)
    BY <1>5
  <2>1. snd[q] \in SndRec /\ snd[q].sta \in Stas
    BY DEF PreEnqueue, SndRec
  <2>2. snd' \in [Queues -> SndRec]
    BY SndRecNew DEF PreEnqueue
  <2>3. CASE sta[snd[q].sta] = "assoc"
    <3>1. qcnt' = [qcnt EXCEPT ![snd[q].sta][q] = @ + 1]
      BY <2>3 DEF PreEnqueue
    <3>2. sta_queue' = [sta_queue EXCEPT ![q] =
                          IF qcnt[snd[q].sta][q] = 0 THEN Append(@, snd[q].sta) ELSE @]
      BY <2>3 DEF PreEnqueue
    <3>3. qcnt' \in [Stas -> [Queues -> Nat]]
      BY <2>1, <3>1
    <3>4. sta_queue' \in [Queues -> Seq(Stas)]
      BY <2>1, <3>2
    <3> QED BY <2>2, <3>3, <3>4 DEF PreEnqueue
  <2>4. CASE sta[snd[q].sta] # "assoc"
    BY <2>2, <2>4 DEF PreEnqueue
  <2> QED BY <2>3, <2>4
<1>6. CASE \E q \in Queues : Direct(q)
  <2> PICK q \in Queues : Direct(q)
    BY <1>6
  <2>1. snd' \in [Queues -> SndRec]
    BY SndRecNew DEF Direct
  <2>2. bufs' \in Nat /\ urbs' \in Nat
    BY DEF Direct, Written, NotWritten
  <2>3. UNCHANGED <<tsk, qcnt, sta_queue>>
    BY DEF Direct
  <2> QED BY <2>1, <2>2, <2>3
<1>7. CASE \E q \in Queues : SenderFree(q)
  <2> PICK q \in Queues : SenderFree(q)
    BY <1>7
  <2>1. snd[q] \in SndRec
    OBVIOUS
  <2>2. snd' \in [Queues -> SndRec]
    <3>1. [snd[q] EXCEPT !.pc = "wake", !.os_qid = q] \in SndRec
      BY <2>1, SndRecSteps
    <3> QED BY <3>1 DEF SenderFree
  <2> QED BY <2>2 DEF SenderFree
<1>8. CASE \E q \in Queues : SenderWake(q)
  BY <1>8, SndRecSteps, SndRecNew
     DEF SenderWake, rtw_os_check_wakup_queue, SenderPcs
<1>9. CASE TaskletRun
  BY <1>9, TskRecSteps, TskRecNew
     DEF TaskletRun, At, TaskletTo, TaskletPcs, Serving
<1>10. CASE TaskletAlloc
  <2>1. tsk' \in TskRec
    <3>1. {"idle", "dequeue"} \subseteq TaskletPcs \ Serving
      BY DEF TaskletPcs, Serving
    <3> QED BY <1>10, <3>1, TskRecSteps DEF TaskletAlloc, TaskletTo
  <2>2. bufs' \in Nat /\ urbs' \in Nat /\ qcnt' \in [Stas -> [Queues -> Nat]]
        /\ sta_queue' \in [Queues -> Seq(Stas)] /\ snd' = snd
    BY <1>10 DEF TaskletAlloc
  <2> QED BY <2>1, <2>2
<1>11. CASE rtw_dequeue_xframe
  <2> PICK s \in Stas, q \in Queues : Dequeues(s, q)
    BY <1>11, DequeuesSome
  <2> USE DEF Dequeues
  <2>1. tsk' \in TskRec
    BY TskRecNew
  <2>2. sta_queue' \in [Queues -> Seq(Stas)]
    BY WithoutKeeps
  <2>3. qcnt' \in [Stas -> [Queues -> Nat]]
    BY DEF TakeHead
  <2>4. UNCHANGED <<bufs, urbs, snd>>
    BY <1>11 DEF rtw_dequeue_xframe
  <2> QED BY <2>1, <2>2, <2>3, <2>4
<1>12. CASE DequeueNothing
  BY <1>12, TskRecSteps, TskRecNew
     DEF DequeueNothing, At, TaskletTo, TaskletPcs, Serving
<1>13. CASE Release
  <2>1. tsk' \in TskRec
    BY <1>13, TskRecNew DEF Release
  <2>2. bufs' \in Nat /\ urbs' \in Nat /\ qcnt' \in [Stas -> [Queues -> Nat]]
        /\ sta_queue' \in [Queues -> Seq(Stas)] /\ snd' = snd
    BY <1>13 DEF Release
  <2> QED BY <2>1, <2>2
<1>14. CASE CoalesceFirst
  BY <1>14, TskRecSteps, TskRecNew
     DEF CoalesceFirst, At, TaskletTo, TaskletPcs, Serving
<1>15. CASE Aggregate
  <2>1. tsk' \in TskRec
    <3>1. tsk.pc \in Serving /\ tsk.q \in 0 .. NQueues
      BY <1>15 DEF Aggregate, At, Serving, TskRec
    <3> QED BY <1>15, <3>1, TskRecSteps DEF Aggregate, Serving
  <2>2. bufs' \in Nat /\ urbs' \in Nat /\ qcnt' \in [Stas -> [Queues -> Nat]]
        /\ sta_queue' \in [Queues -> Seq(Stas)] /\ snd' = snd
    <3>1. tsk.sta \in Stas /\ tsk.q \in Queues
      BY <1>15 DEF Aggregate, At, Serving, TskRec
    <3> QED BY <1>15, <3>1 DEF Aggregate, TakeHead
  <2> QED BY <2>1, <2>2
<1>16. CASE AggregateWake
  <2>1. tsk' \in TskRec
    <3>1. tsk.pc \in Serving /\ 0 \in 0 .. NQueues
      BY <1>16, SizeAssumption DEF AggregateWake, At, Serving
    <3> QED BY <1>16, <3>1, TskRecSteps DEF AggregateWake, Serving
  <2>2. bufs' \in Nat /\ urbs' \in Nat /\ qcnt' \in [Stas -> [Queues -> Nat]]
        /\ sta_queue' \in [Queues -> Seq(Stas)] /\ snd' = snd
    BY <1>16 DEF AggregateWake
  <2> QED BY <2>1, <2>2
<1>17. CASE AggregateDone
  <2>1. tsk' \in TskRec
    BY <1>17, TskRecSteps DEF AggregateDone, At, TaskletTo, Serving
  <2>2. bufs' \in Nat /\ urbs' \in Nat /\ qcnt' \in [Stas -> [Queues -> Nat]]
        /\ sta_queue' \in [Queues -> Seq(Stas)] /\ snd' = snd
    <3>1. tsk.sta \in Stas /\ tsk.q \in Queues
      BY <1>17 DEF AggregateDone, At, Serving, TskRec
    <3> DEFINE w == Without(sta_queue[tsk.q], tsk.sta)
    <3>2. w \in Seq(Stas)
      BY <3>1, WithoutKeeps
    <3>3. sta_queue' = [sta_queue EXCEPT ![tsk.q] =
                          IF qcnt[tsk.sta][tsk.q] = 0 THEN w
                          ELSE IF Len(@) > 1 THEN Append(w, tsk.sta) ELSE @]
      BY <1>17, <3>1 DEF AggregateDone
    <3> HIDE DEF w
    <3>4. sta_queue' \in [Queues -> Seq(Stas)]
      BY <3>1, <3>2, <3>3
    <3> QED BY <1>17, <3>4 DEF AggregateDone
  <2> QED BY <2>1, <2>2
<1>18. CASE TaskletWrite
  <2>1. tsk' \in TskRec
    BY <1>18, TskRecSteps DEF TaskletWrite, At, TaskletTo, Serving
  <2>2. bufs' \in Nat /\ urbs' \in Nat /\ qcnt' \in [Stas -> [Queues -> Nat]]
        /\ sta_queue' \in [Queues -> Seq(Stas)] /\ snd' = snd
    BY <1>18 DEF TaskletWrite, Written, NotWritten
  <2> QED BY <2>1, <2>2
<1>19. CASE TaskletFree
  <2>1. tsk' \in TskRec
    <3>1. tsk.pc \in Serving /\ tsk.q \in 0 .. NQueues
      BY <1>19 DEF TaskletFree, At, Serving, TskRec
    <3>2. {"wake", "dropWake"} \subseteq Serving
      BY DEF Serving
    <3> QED BY <1>19, <3>1, <3>2, TskRecSteps DEF TaskletFree
  <2>2. bufs' \in Nat /\ urbs' \in Nat /\ qcnt' \in [Stas -> [Queues -> Nat]]
        /\ sta_queue' \in [Queues -> Seq(Stas)] /\ snd' = snd
    BY <1>19 DEF TaskletFree
  <2> QED BY <2>1, <2>2
<1>20. CASE TaskletWake
  BY <1>20, TskRecSteps, TskRecNew
     DEF TaskletWake, At, rtw_os_check_wakup_queue, TaskletPcs, Serving
<1>21. CASE UrbComplete
  BY <1>21
     DEF UrbComplete
<1>22. CASE UrbSchedule
  BY <1>22
     DEF UrbSchedule
<1>23. CASE \E why \in {"scan", "link"} : HoldUp(why)
  BY <1>23
     DEF HoldUp
<1>24. CASE HoldOver
  BY <1>24
     DEF HoldOver
<1>25. CASE rtw_os_xmit_schedule
  BY <1>25
     DEF rtw_os_xmit_schedule
<1>26. CASE \E s \in Stas : StaLeaves(s)
  BY <1>26
     DEF StaLeaves
<1>27. CASE \E s \in Stas : StaFlush(s)
  BY <1>27, WithoutKeeps
     DEF StaFlush
<1>28. CASE \E s \in Stas : StaJoins(s)
  BY <1>28
     DEF StaJoins
<1>29. CASE SetDrvStopped
  BY <1>29
     DEF SetDrvStopped
<1>30. CASE UNCHANGED vars
  BY <1>30 DEF vars
<1> HIDE DEF PathTypes
<1> QED
  BY <1>1, <1>2, <1>3, <1>4, <1>5, <1>6, <1>7, <1>8, <1>9, <1>10, <1>11, <1>12, <1>13, <1>14, <1>15, <1>16, <1>17, <1>18, <1>19, <1>20, <1>21, <1>22, <1>23, <1>24, <1>25, <1>26, <1>27, <1>28, <1>29, <1>30
     DEF Next, Sender, Tasklet

(* Senders that hold a buffer: their number before and after a step of one of them *)
LEMMA SendersFinite ==
  IsFiniteSet(SendersWithBuf) /\ Cardinality(SendersWithBuf) \in Nat
<1>1. IsFiniteSet(Queues)
  BY SizeAssumption, FS_Interval DEF Queues
<1>2. IsFiniteSet(SendersWithBuf)
  BY <1>1, FS_Subset DEF SendersWithBuf
<1> QED BY <1>2, FS_CardinalityType

LEMMA SendersSame ==
  ASSUME \A p \in Queues : snd'[p].pc = "direct" <=> snd[p].pc = "direct"
  PROVE  SendersWithBuf' = SendersWithBuf
BY DEF SendersWithBuf, Queues

LEMMA SendersAdd ==
  ASSUME NEW q \in Queues, \A p \in Queues \ {q} : snd'[p].pc = snd[p].pc,
         snd[q].pc # "direct", snd'[q].pc = "direct"
  PROVE  Cardinality(SendersWithBuf') = Cardinality(SendersWithBuf) + 1
<1>1. SendersWithBuf' = SendersWithBuf \cup {q} /\ q \notin SendersWithBuf
  BY DEF SendersWithBuf, Queues
<1> QED BY <1>1, SendersFinite, FS_AddElement

LEMMA SendersRemove ==
  ASSUME NEW q \in Queues, \A p \in Queues \ {q} : snd'[p].pc = snd[p].pc,
         snd[q].pc = "direct", snd'[q].pc # "direct"
  PROVE  Cardinality(SendersWithBuf') = Cardinality(SendersWithBuf) - 1
<1>1. SendersWithBuf' = SendersWithBuf \ {q} /\ q \in SendersWithBuf
  BY DEF SendersWithBuf, Queues
<1> QED BY <1>1, SendersFinite, FS_RemoveElement

(* No step loses a buffer or gives one back twice. *)
LEMMA BufsKept ==
  ASSUME PathTypes, BufsConserved, [Next]_vars
  PROVE  BufsConserved'
<1> USE SendersFinite DEF PathTypes, queueVars, bufVars, envVars
<1>same. ASSUME UNCHANGED <<bufs, urbs>>, SendersWithBuf' = SendersWithBuf, TaskletWithBuf' = TaskletWithBuf
         PROVE  BufsConserved'
  BY <1>same DEF BufsConserved
<1>1. CASE \E q \in Queues : rtw_alloc_xmitframe(q)
  <2> PICK q \in Queues : rtw_alloc_xmitframe(q)
    BY <1>1
  <2>1. \A p \in Queues : snd'[p].pc = "direct" <=> snd[p].pc = "direct"
    BY DEF rtw_alloc_xmitframe, SndRec, Resting
  <2>2. TaskletWithBuf' = TaskletWithBuf
    BY DEF rtw_alloc_xmitframe, TaskletWithBuf, TskRec
  <2> QED BY <1>same, <2>1, <2>2, SendersSame DEF rtw_alloc_xmitframe
<1>2. CASE \E q \in Queues : CheckStop(q)
  <2> PICK q \in Queues : CheckStop(q)
    BY <1>2
  <2>1. \A p \in Queues : snd'[p].pc = "direct" <=> snd[p].pc = "direct"
    BY DEF CheckStop, update_attrib, Goto, SndRec, Resting
  <2>2. TaskletWithBuf' = TaskletWithBuf
    BY DEF CheckStop, TaskletWithBuf, TskRec
  <2> QED BY <1>same, <2>1, <2>2, SendersSame DEF CheckStop
<1>3. CASE \E q \in Queues : StopQueue(q)
  <2> PICK q \in Queues : StopQueue(q)
    BY <1>3
  <2>1. \A p \in Queues : snd'[p].pc = "direct" <=> snd[p].pc = "direct"
    BY DEF StopQueue, update_attrib, Goto, SndRec, Resting
  <2>2. TaskletWithBuf' = TaskletWithBuf
    BY DEF StopQueue, TaskletWithBuf, TskRec
  <2> QED BY <1>same, <2>1, <2>2, SendersSame DEF StopQueue
<1>4. CASE \E q \in Queues : PreDirect(q)
  <2> PICK q \in Queues : PreDirect(q)
    BY <1>4
  <2>1. /\ \A p \in Queues \ {q} : snd'[p].pc = snd[p].pc
        /\ snd[q].pc # "direct" /\ snd'[q].pc = "direct"
    BY DEF PreDirect, Goto, SndRec, Resting
  <2>2. Cardinality(SendersWithBuf') = Cardinality(SendersWithBuf) + 1
    BY <2>1, SendersAdd
  <2>3. TaskletWithBuf' = TaskletWithBuf
    BY DEF PreDirect, TaskletWithBuf
  <2>4. bufs' = bufs - 1 /\ urbs' = urbs
    BY DEF PreDirect, Goto, MustQueue
  <2>5. One(TaskletWithBuf)' = One(TaskletWithBuf) /\ One(TaskletWithBuf) \in Nat
    BY <2>3 DEF One
  <2> QED BY <2>2, <2>4, <2>5 DEF BufsConserved
<1>5. CASE \E q \in Queues : PreEnqueue(q)
  <2> PICK q \in Queues : PreEnqueue(q)
    BY <1>5
  <2>1. PICK r \in SndRec : snd' = [snd EXCEPT ![q] = r] /\ r.pc # "direct"
    <3>1. Resting.pc # "direct" /\ [Resting EXCEPT !.pc = "free"].pc # "direct"
      BY DEF Resting
    <3> QED BY <3>1, SndRecNew DEF PreEnqueue
  <2>2. snd[q].pc = "pre" /\ UNCHANGED <<bufs, urbs, tsk>>
    BY DEF PreEnqueue
  <2>3. \A p \in Queues : snd'[p].pc = "direct" <=> snd[p].pc = "direct"
    BY <2>1, <2>2
  <2>4. TaskletWithBuf' = TaskletWithBuf
    BY <2>2 DEF TaskletWithBuf
  <2> QED BY <1>same, <2>2, <2>3, <2>4, SendersSame
<1>6. CASE \E q \in Queues : Direct(q)
  <2> PICK q \in Queues : Direct(q)
    BY <1>6
  <2>1. /\ \A p \in Queues \ {q} : snd'[p].pc = snd[p].pc
        /\ snd[q].pc = "direct" /\ snd'[q].pc # "direct"
    BY DEF Direct, Goto, SndRec, Resting
  <2>2. Cardinality(SendersWithBuf') = Cardinality(SendersWithBuf) - 1
    BY <2>1, SendersRemove
  <2>3. TaskletWithBuf' = TaskletWithBuf
    BY DEF Direct, TaskletWithBuf
  <2>4. (bufs' = bufs /\ urbs' = urbs + 1) \/ (bufs' = bufs + 1 /\ urbs' = urbs)
    BY DEF Direct, Written, NotWritten, SubmitFails
  <2>5. One(TaskletWithBuf)' = One(TaskletWithBuf) /\ One(TaskletWithBuf) \in Nat
    BY <2>3 DEF One
  <2> QED BY <2>2, <2>4, <2>5 DEF BufsConserved
<1>7. CASE \E q \in Queues : SenderFree(q)
  <2> PICK q \in Queues : SenderFree(q)
    BY <1>7
  <2>1. \A p \in Queues : snd'[p].pc = "direct" <=> snd[p].pc = "direct"
    BY DEF SenderFree, SndRec, Resting
  <2>2. TaskletWithBuf' = TaskletWithBuf
    BY DEF SenderFree, TaskletWithBuf, TskRec
  <2> QED BY <1>same, <2>1, <2>2, SendersSame DEF SenderFree
<1>8. CASE \E q \in Queues : SenderWake(q)
  <2> PICK q \in Queues : SenderWake(q)
    BY <1>8
  <2>1. \A p \in Queues : snd'[p].pc = "direct" <=> snd[p].pc = "direct"
    BY DEF SenderWake, rtw_os_check_wakup_queue, SndRec, Resting
  <2>2. TaskletWithBuf' = TaskletWithBuf
    BY DEF SenderWake, TaskletWithBuf, TskRec
  <2> QED BY <1>same, <2>1, <2>2, SendersSame DEF SenderWake
<1>9. CASE TaskletRun
  <2>1. SendersWithBuf' = SendersWithBuf
    BY <1>9 DEF TaskletRun, SendersWithBuf
  <2>2. TaskletWithBuf' = TaskletWithBuf
    BY <1>9 DEF TaskletRun, At, TaskletTo, TaskletWithBuf, TskRec, Resting
  <2> QED BY <1>9, <1>same, <2>1, <2>2 DEF TaskletRun
<1>10. CASE TaskletAlloc
  <2>1. SendersWithBuf' = SendersWithBuf
    BY <1>10 DEF TaskletAlloc, SendersWithBuf
  <2> QED BY <1>10, <2>1 DEF TaskletAlloc, At, TaskletTo, BufsConserved, TaskletWithBuf, One, TskRec, Resting
<1>11. CASE rtw_dequeue_xframe
  <2>1. SendersWithBuf' = SendersWithBuf
    BY <1>11 DEF rtw_dequeue_xframe, SendersWithBuf
  <2>2. TaskletWithBuf' = TaskletWithBuf
    BY <1>11 DEF rtw_dequeue_xframe, At, TakeHead, Servable, TaskletWithBuf, TskRec, Resting
  <2> QED BY <1>11, <1>same, <2>1, <2>2 DEF rtw_dequeue_xframe
<1>12. CASE DequeueNothing
  <2>1. SendersWithBuf' = SendersWithBuf
    BY <1>12 DEF DequeueNothing, SendersWithBuf
  <2>2. TaskletWithBuf' = TaskletWithBuf
    BY <1>12 DEF DequeueNothing, At, TaskletTo, TaskletWithBuf, TskRec, Resting
  <2> QED BY <1>12, <1>same, <2>1, <2>2 DEF DequeueNothing
<1>13. CASE Release
  <2>1. SendersWithBuf' = SendersWithBuf
    BY <1>13 DEF Release, SendersWithBuf
  <2> QED BY <1>13, <2>1 DEF Release, At, BufsConserved, TaskletWithBuf, One, TskRec, Resting
<1>14. CASE CoalesceFirst
  <2>1. SendersWithBuf' = SendersWithBuf
    BY <1>14 DEF CoalesceFirst, SendersWithBuf
  <2>2. TaskletWithBuf' = TaskletWithBuf
    BY <1>14 DEF CoalesceFirst, At, TaskletTo, TaskletWithBuf, TskRec, Resting
  <2> QED BY <1>14, <1>same, <2>1, <2>2 DEF CoalesceFirst
<1>15. CASE Aggregate
  <2>1. SendersWithBuf' = SendersWithBuf
    BY <1>15 DEF Aggregate, SendersWithBuf
  <2>2. TaskletWithBuf' = TaskletWithBuf
    BY <1>15 DEF Aggregate, At, TakeHead, TaskletWithBuf, TskRec, Resting
  <2> QED BY <1>15, <1>same, <2>1, <2>2 DEF Aggregate
<1>16. CASE AggregateWake
  <2>1. SendersWithBuf' = SendersWithBuf
    BY <1>16 DEF AggregateWake, SendersWithBuf
  <2>2. TaskletWithBuf' = TaskletWithBuf
    BY <1>16 DEF AggregateWake, At, rtw_os_check_wakup_queue, TaskletWithBuf, TskRec, Resting
  <2> QED BY <1>16, <1>same, <2>1, <2>2 DEF AggregateWake
<1>17. CASE AggregateDone
  <2>1. SendersWithBuf' = SendersWithBuf
    BY <1>17 DEF AggregateDone, SendersWithBuf
  <2>2. TaskletWithBuf' = TaskletWithBuf
    BY <1>17 DEF AggregateDone, At, TaskletTo, TaskletWithBuf, TskRec, Resting
  <2> QED BY <1>17, <1>same, <2>1, <2>2 DEF AggregateDone
<1>18. CASE TaskletWrite
  <2>1. SendersWithBuf' = SendersWithBuf
    BY <1>18 DEF TaskletWrite, SendersWithBuf
  <2> QED BY <1>18, <2>1 DEF TaskletWrite, At, TaskletTo, Written, NotWritten, SubmitFails, BufsConserved, TaskletWithBuf, One, TskRec, Resting
<1>19. CASE TaskletFree
  <2>1. SendersWithBuf' = SendersWithBuf
    BY <1>19 DEF TaskletFree, SendersWithBuf
  <2>2. TaskletWithBuf' = TaskletWithBuf
    BY <1>19 DEF TaskletFree, At, TaskletWithBuf, TskRec, Resting
  <2> QED BY <1>19, <1>same, <2>1, <2>2 DEF TaskletFree
<1>20. CASE TaskletWake
  <2>1. SendersWithBuf' = SendersWithBuf
    BY <1>20 DEF TaskletWake, SendersWithBuf
  <2>2. TaskletWithBuf' = TaskletWithBuf
    BY <1>20 DEF TaskletWake, At, rtw_os_check_wakup_queue, TaskletWithBuf, TskRec, Resting
  <2> QED BY <1>20, <1>same, <2>1, <2>2 DEF TaskletWake
<1>21. CASE UrbComplete
  <2>1. SendersWithBuf' = SendersWithBuf
    BY <1>21 DEF UrbComplete, SendersWithBuf
  <2> QED BY <1>21, <2>1 DEF UrbComplete, BufsConserved, TaskletWithBuf, One, TskRec, Resting
<1>22. CASE UrbSchedule
  <2>1. SendersWithBuf' = SendersWithBuf
    BY <1>22 DEF UrbSchedule, SendersWithBuf
  <2>2. TaskletWithBuf' = TaskletWithBuf
    BY <1>22 DEF UrbSchedule, TaskletWithBuf, TskRec, Resting
  <2> QED BY <1>22, <1>same, <2>1, <2>2 DEF UrbSchedule
<1>23. CASE \E why \in {"scan", "link"} : HoldUp(why)
  <2>1. SendersWithBuf' = SendersWithBuf
    BY <1>23 DEF HoldUp, SendersWithBuf
  <2>2. TaskletWithBuf' = TaskletWithBuf
    BY <1>23 DEF HoldUp, TaskletWithBuf, TskRec, Resting
  <2> QED BY <1>23, <1>same, <2>1, <2>2 DEF HoldUp
<1>24. CASE HoldOver
  <2>1. SendersWithBuf' = SendersWithBuf
    BY <1>24 DEF HoldOver, SendersWithBuf
  <2>2. TaskletWithBuf' = TaskletWithBuf
    BY <1>24 DEF HoldOver, TaskletWithBuf, TskRec, Resting
  <2> QED BY <1>24, <1>same, <2>1, <2>2 DEF HoldOver
<1>25. CASE rtw_os_xmit_schedule
  <2>1. SendersWithBuf' = SendersWithBuf
    BY <1>25 DEF rtw_os_xmit_schedule, SendersWithBuf
  <2>2. TaskletWithBuf' = TaskletWithBuf
    BY <1>25 DEF rtw_os_xmit_schedule, TaskletWithBuf, TskRec, Resting
  <2> QED BY <1>25, <1>same, <2>1, <2>2 DEF rtw_os_xmit_schedule
<1>26. CASE \E s \in Stas : StaLeaves(s)
  <2>1. SendersWithBuf' = SendersWithBuf
    BY <1>26 DEF StaLeaves, SendersWithBuf
  <2>2. TaskletWithBuf' = TaskletWithBuf
    BY <1>26 DEF StaLeaves, TaskletWithBuf, TskRec, Resting
  <2> QED BY <1>26, <1>same, <2>1, <2>2 DEF StaLeaves
<1>27. CASE \E s \in Stas : StaFlush(s)
  <2>1. SendersWithBuf' = SendersWithBuf
    BY <1>27 DEF StaFlush, SendersWithBuf
  <2>2. TaskletWithBuf' = TaskletWithBuf
    BY <1>27 DEF StaFlush, TaskletWithBuf, TskRec, Resting
  <2> QED BY <1>27, <1>same, <2>1, <2>2 DEF StaFlush
<1>28. CASE \E s \in Stas : StaJoins(s)
  <2>1. SendersWithBuf' = SendersWithBuf
    BY <1>28 DEF StaJoins, SendersWithBuf
  <2>2. TaskletWithBuf' = TaskletWithBuf
    BY <1>28 DEF StaJoins, TaskletWithBuf, TskRec, Resting
  <2> QED BY <1>28, <1>same, <2>1, <2>2 DEF StaJoins
<1>29. CASE SetDrvStopped
  <2>1. SendersWithBuf' = SendersWithBuf
    BY <1>29 DEF SetDrvStopped, SendersWithBuf
  <2>2. TaskletWithBuf' = TaskletWithBuf
    BY <1>29 DEF SetDrvStopped, TaskletWithBuf, TskRec, Resting
  <2> QED BY <1>29, <1>same, <2>1, <2>2 DEF SetDrvStopped
<1>30. CASE UNCHANGED vars
  <2>1. SendersWithBuf' = SendersWithBuf /\ TaskletWithBuf' = TaskletWithBuf
    BY <1>30 DEF vars, SendersWithBuf, TaskletWithBuf
  <2> QED BY <1>30, <1>same, <2>1 DEF vars
<1> QED
  BY <1>1, <1>2, <1>3, <1>4, <1>5, <1>6, <1>7, <1>8, <1>9, <1>10, <1>11, <1>12, <1>13, <1>14, <1>15, <1>16, <1>17, <1>18, <1>19, <1>20, <1>21, <1>22, <1>23, <1>24, <1>25, <1>26, <1>27, <1>28, <1>29, <1>30
     DEF Next, Sender, Tasklet

(* A station with pending frames is on the service list of its queue. *)
In(s, list) == \E i \in DOMAIN list : list[i] = s
Listed == \A s \in Stas, q \in Queues : qcnt[s][q] > 0 => In(s, sta_queue[q])

LEMMA InAppend ==
  ASSUME NEW S, NEW list \in Seq(S), NEW x \in S
  PROVE  In(x, Append(list, x)) /\ \A y \in S : In(y, list) => In(y, Append(list, x))
<1>1. DOMAIN Append(list, x) = 1 .. Len(list) + 1 /\ Append(list, x)[Len(list) + 1] = x
  OBVIOUS
<1>2. \A i \in DOMAIN list : i \in DOMAIN Append(list, x) /\ Append(list, x)[i] = list[i]
  OBVIOUS
<1>3. Len(list) + 1 \in 1 .. Len(list) + 1
  OBVIOUS
<1> QED BY <1>1, <1>2, <1>3 DEF In

LEMMA InWithout ==
  ASSUME NEW S, NEW list \in Seq(S), NEW x, NEW y \in S, y # x, In(y, list)
  PROVE  In(y, Without(list, x))
BY WithoutKeeps DEF In

(* No step takes a station with pending frames off its list. *)
LEMMA ListedKept ==
  ASSUME PathTypes, Listed, [Next]_vars
  PROVE  Listed'
<1> USE DEF PathTypes
<1>same. ASSUME UNCHANGED queueVars PROVE Listed'
  BY <1>same DEF Listed, queueVars
<1>1. CASE \E q \in Queues : rtw_alloc_xmitframe(q)
  BY <1>1, <1>same DEF rtw_alloc_xmitframe
<1>2. CASE \E q \in Queues : CheckStop(q)
  BY <1>2, <1>same DEF CheckStop
<1>3. CASE \E q \in Queues : StopQueue(q)
  BY <1>3, <1>same DEF StopQueue
<1>4. CASE \E q \in Queues : PreDirect(q)
  BY <1>4, <1>same DEF PreDirect
<1>5. CASE \E q \in Queues : PreEnqueue(q)
  <2> PICK q \in Queues : PreEnqueue(q)
    BY <1>5
  <2> DEFINE s == snd[q].sta
  <2>1. s \in Stas
    BY DEF PreEnqueue, SndRec
  <2>2. CASE sta[s] # "assoc"
    BY <2>2, <1>same DEF PreEnqueue, queueVars
  <2>3. CASE sta[s] = "assoc"
    <3>1. /\ qcnt' = [qcnt EXCEPT ![s][q] = @ + 1]
          /\ sta_queue' = [sta_queue EXCEPT ![q] = IF qcnt[s][q] = 0 THEN Append(@, s) ELSE @]
      BY <2>3 DEF PreEnqueue
    <3> HIDE DEF s
    <3>2. SUFFICES ASSUME NEW z \in Stas, NEW p \in Queues, qcnt'[z][p] > 0
                   PROVE  In(z, sta_queue'[p])
      BY DEF Listed
    <3>3. CASE p # q
      BY <2>1, <3>1, <3>2, <3>3 DEF Listed
    <3>4. CASE p = q /\ qcnt[s][q] = 0
      <4>1. sta_queue'[p] = Append(sta_queue[q], s)
        BY <3>1, <3>4
      <4>2. CASE z = s
        BY <4>1, <4>2, <2>1, InAppend
      <4>3. CASE z # s
        <5>1. qcnt[z][q] > 0
          BY <2>1, <3>1, <3>2, <3>4, <4>3
        <5> QED BY <5>1, <4>1, <2>1, InAppend DEF Listed
      <4> QED BY <4>2, <4>3
    <3>5. CASE p = q /\ qcnt[s][q] # 0
      <4>1. sta_queue'[p] = sta_queue[q] /\ qcnt[s][q] > 0
        BY <2>1, <3>1, <3>5
      <4>2. z # s => qcnt[z][q] > 0
        BY <2>1, <3>1, <3>2, <3>5
      <4> QED BY <4>1, <4>2, <2>1 DEF Listed
    <3> QED BY <3>3, <3>4, <3>5
  <2> QED BY <2>2, <2>3
<1>6. CASE \E q \in Queues : Direct(q)
  BY <1>6, <1>same DEF Direct
<1>7. CASE \E q \in Queues : SenderFree(q)
  BY <1>7, <1>same DEF SenderFree
<1>8. CASE \E q \in Queues : SenderWake(q)
  BY <1>8, <1>same DEF SenderWake
<1>9. CASE TaskletRun
  BY <1>9, <1>same DEF TaskletRun
<1>10. CASE TaskletAlloc
  BY <1>10, <1>same DEF TaskletAlloc
<1>11. CASE rtw_dequeue_xframe
  <2> PICK s \in Stas, q \in Queues : Dequeues(s, q)
    BY <1>11, DequeuesSome
  <2>1. SUFFICES ASSUME NEW z \in Stas, NEW p \in Queues, qcnt'[z][p] > 0
                 PROVE  In(z, sta_queue'[p])
    BY DEF Listed
  <2>2. qcnt[z][p] > 0 /\ (z = s /\ p = q => qcnt[s][q] # 1)
    BY <2>1 DEF Dequeues, TakeHead
  <2>3. In(z, sta_queue[p])
    BY <2>2 DEF Listed
  <2>4. CASE qcnt[s][q] = 1 /\ p = q
    <3>1. sta_queue'[p] = Without(sta_queue[q], s) /\ z # s
      BY <2>2, <2>4 DEF Dequeues
    <3> QED BY <3>1, <2>3, <2>4, InWithout
  <2>5. CASE ~(qcnt[s][q] = 1 /\ p = q)
    <3>1. sta_queue'[p] = sta_queue[p]
      BY <2>5 DEF Dequeues
    <3> QED BY <3>1, <2>3
  <2> QED BY <2>4, <2>5
<1>12. CASE DequeueNothing
  BY <1>12, <1>same DEF DequeueNothing
<1>13. CASE Release
  BY <1>13, <1>same DEF Release
<1>14. CASE CoalesceFirst
  BY <1>14, <1>same DEF CoalesceFirst
<1>15. CASE Aggregate
  <2>1. tsk.sta \in Stas /\ tsk.q \in Queues
    BY <1>15 DEF Aggregate, At, TskRec, Serving
  <2>2. \A z \in Stas, p \in Queues : qcnt'[z][p] > 0 => qcnt[z][p] > 0
    BY <1>15, <2>1 DEF Aggregate, TakeHead
  <2> QED BY <1>15, <2>2 DEF Aggregate, Listed
<1>16. CASE AggregateWake
  BY <1>16, <1>same DEF AggregateWake
<1>17. CASE AggregateDone
  <2> DEFINE s == tsk.sta
             q == tsk.q
             w == Without(sta_queue[q], s)
  <2>1. s \in Stas /\ q \in Queues
    BY <1>17 DEF AggregateDone, At, TskRec, Serving
  <2>2. /\ qcnt' = qcnt
        /\ sta_queue' = [sta_queue EXCEPT ![q] =
             IF qcnt[s][q] = 0 THEN w ELSE IF Len(sta_queue[q]) > 1 THEN Append(w, s) ELSE sta_queue[q]]
    BY <1>17, <2>1 DEF AggregateDone
  <2>3. w \in Seq(Stas)
    BY <2>1, WithoutKeeps
  <2>4. \A z \in Stas : z # s /\ In(z, sta_queue[q]) => In(z, w)
    BY <2>1, InWithout
  <2> HIDE DEF s, q, w
  <2>5. SUFFICES ASSUME NEW z \in Stas, NEW p \in Queues, qcnt[z][p] > 0
                 PROVE  In(z, sta_queue'[p])
    BY <2>2 DEF Listed
  <2>6. In(z, sta_queue[p])
    BY <2>5 DEF Listed
  <2>7. CASE p # q
    BY <2>1, <2>2, <2>6, <2>7
  <2>8. CASE p = q /\ qcnt[s][q] = 0
    <3>1. sta_queue'[p] = w /\ z # s
      BY <2>1, <2>2, <2>5, <2>8
    <3> QED BY <3>1, <2>4, <2>6, <2>8
  <2>9. CASE p = q /\ qcnt[s][q] # 0 /\ Len(sta_queue[q]) > 1
    <3>1. sta_queue'[p] = Append(w, s)
      BY <2>1, <2>2, <2>9
    <3>2. In(s, Append(w, s)) /\ \A y \in Stas : In(y, w) => In(y, Append(w, s))
      BY <2>1, <2>3, InAppend
    <3> QED BY <3>1, <3>2, <2>4, <2>6, <2>9
  <2>10. CASE p = q /\ qcnt[s][q] # 0 /\ ~(Len(sta_queue[q]) > 1)
    BY <2>1, <2>2, <2>6, <2>10
  <2> QED BY <2>7, <2>8, <2>9, <2>10
<1>18. CASE TaskletWrite
  BY <1>18, <1>same DEF TaskletWrite
<1>19. CASE TaskletFree
  BY <1>19, <1>same DEF TaskletFree
<1>20. CASE TaskletWake
  BY <1>20, <1>same DEF TaskletWake
<1>21. CASE UrbComplete
  BY <1>21, <1>same DEF UrbComplete
<1>22. CASE UrbSchedule
  BY <1>22, <1>same DEF UrbSchedule
<1>23. CASE \E why \in {"scan", "link"} : HoldUp(why)
  BY <1>23, <1>same DEF HoldUp
<1>24. CASE HoldOver
  BY <1>24, <1>same DEF HoldOver
<1>25. CASE rtw_os_xmit_schedule
  BY <1>25, <1>same DEF rtw_os_xmit_schedule
<1>26. CASE \E s \in Stas : StaLeaves(s)
  BY <1>26, <1>same DEF StaLeaves
<1>27. CASE \E s \in Stas : StaFlush(s)
  <2> PICK s \in Stas : StaFlush(s)
    BY <1>27
  <2>1. /\ qcnt' = [qcnt EXCEPT ![s] = [q \in Queues |-> 0]]
        /\ sta_queue' = [q \in Queues |-> Without(sta_queue[q], s)]
    BY DEF StaFlush
  <2>2. SUFFICES ASSUME NEW z \in Stas, NEW p \in Queues, qcnt'[z][p] > 0
                 PROVE  In(z, sta_queue'[p])
    BY DEF Listed
  <2>3. z # s
    BY <2>1, <2>2
  <2>4. qcnt[z][p] > 0 /\ sta_queue'[p] = Without(sta_queue[p], s)
    BY <2>1, <2>2, <2>3
  <2>5. In(z, sta_queue[p])
    BY <2>4 DEF Listed
  <2> QED BY <2>3, <2>4, <2>5, InWithout
<1>28. CASE \E s \in Stas : StaJoins(s)
  BY <1>28, <1>same DEF StaJoins
<1>29. CASE SetDrvStopped
  BY <1>29, <1>same DEF SetDrvStopped
<1>30. CASE UNCHANGED vars
  BY <1>30, <1>same DEF vars, queueVars
<1> QED
  BY <1>1, <1>2, <1>3, <1>4, <1>5, <1>6, <1>7, <1>8, <1>9, <1>10, <1>11, <1>12, <1>13, <1>14, <1>15, <1>16, <1>17, <1>18, <1>19, <1>20, <1>21, <1>22, <1>23, <1>24, <1>25, <1>26, <1>27, <1>28, <1>29, <1>30
     DEF Next, Sender, Tasklet

(* The two sides of PendingIsCovered *)
Pending == \E s \in Stas, q \in Queues : qcnt[s][q] > 0
Excused == stopped \/ hold # "none" \/ silent
Covered ==
  \/ sched \/ resume \/ urbs > 0 \/ ending
  \/ tsk.pc \notin {"idle", "release"}
  \/ \E q \in Queues : snd[q].pc = "direct"

LEMMA PendingSides == PendingIsCovered <=> (Pending /\ ~Excused => Covered)
BY DEF PendingIsCovered, Pending, Excused, Covered

LEMMA PendingSidesNext == PendingIsCovered' <=> (Pending' /\ ~Excused' => Covered')
BY DEF PendingIsCovered, Pending, Excused, Covered

(* With no buffer free, one is with the USB core or with a sender: the tasklet holds  *)
(* one at most, and there are two.                                                   *)
LEMMA BufsBusy ==
  ASSUME PathTypes, BufsConserved, bufs = 0
  PROVE  urbs > 0 \/ \E q \in Queues : snd[q].pc = "direct"
<1>1. SUFFICES ASSUME urbs = 0 PROVE \E q \in Queues : snd[q].pc = "direct"
  BY DEF PathTypes
<1>2. One(TaskletWithBuf) \in {0, 1}
  BY DEF One
<1>3. Cardinality(SendersWithBuf) # 0
  BY <1>1, <1>2, SendersFinite, BuffersAssumption, SizeAssumption DEF BufsConserved
<1>4. SendersWithBuf # {}
  BY <1>3, FS_EmptySet
<1> QED BY <1>4 DEF SendersWithBuf

(* No step leaves pending frames that nobody is going to look at. *)
LEMMA CoverKept ==
  ASSUME PathTypes, BufsConserved, Listed, PendingIsCovered, [Next]_vars
  PROVE  PendingIsCovered'
<1> USE DEF PathTypes, queueVars, bufVars, envVars, history
<1>same. ASSUME Pending' => Pending, Excused => Excused', Covered => Covered'
         PROVE  PendingIsCovered'
  BY <1>same, PendingSides, PendingSidesNext
<1>now. ASSUME Covered' \/ Excused' \/ ~Pending' PROVE PendingIsCovered'
  BY <1>now, PendingSidesNext
<1>1. CASE \E q \in Queues : rtw_alloc_xmitframe(q)
  <2> PICK q \in Queues : rtw_alloc_xmitframe(q)
    BY <1>1
  <2>1. Pending' => Pending
    BY DEF rtw_alloc_xmitframe, Pending
  <2>2. Excused => Excused'
    BY DEF rtw_alloc_xmitframe, Excused
  <2>3. Covered => Covered'
    BY DEF rtw_alloc_xmitframe, Covered, SndRec, TskRec, Resting
  <2> QED BY <1>same, <2>1, <2>2, <2>3
<1>2. CASE \E q \in Queues : CheckStop(q)
  <2> PICK q \in Queues : CheckStop(q)
    BY <1>2
  <2>1. Pending' => Pending
    BY DEF CheckStop, Pending
  <2>2. Excused => Excused'
    BY DEF CheckStop, Excused
  <2>3. Covered => Covered'
    BY DEF CheckStop, update_attrib, Goto, Covered, SndRec, TskRec, Resting
  <2> QED BY <1>same, <2>1, <2>2, <2>3
<1>3. CASE \E q \in Queues : StopQueue(q)
  <2> PICK q \in Queues : StopQueue(q)
    BY <1>3
  <2>1. Pending' => Pending
    BY DEF StopQueue, Pending
  <2>2. Excused => Excused'
    BY DEF StopQueue, Excused
  <2>3. Covered => Covered'
    BY DEF StopQueue, update_attrib, Goto, Covered, SndRec, TskRec, Resting
  <2> QED BY <1>same, <2>1, <2>2, <2>3
<1>4. CASE \E q \in Queues : PreDirect(q)
  <2> PICK q \in Queues : PreDirect(q)
    BY <1>4
  <2>1. snd'[q].pc = "direct"
    BY DEF PreDirect, Goto, SndRec
  <2> QED BY <1>now, <2>1 DEF Covered
<1>5. CASE \E q \in Queues : PreEnqueue(q)
  <2> PICK q \in Queues : PreEnqueue(q)
    BY <1>5
  <2> DEFINE s == snd[q].sta
  <2>1. s \in Stas /\ snd[q].pc = "pre"
    BY DEF PreEnqueue, SndRec
  <2>2. Covered => Covered'
    <3>1. \A p \in Queues : snd[p].pc = "direct" => snd'[p].pc = "direct"
      <4>1. \E r : snd' = [snd EXCEPT ![q] = r]
        BY DEF PreEnqueue
      <4> QED BY <2>1, <4>1
    <3> QED BY <3>1 DEF PreEnqueue, Covered
  <2>3. Excused' <=> Excused
    BY DEF PreEnqueue, Excused
  <2>4. CASE sta[s] = "assoc" /\ qcnt[s][q] > 0
    <3>1. Pending
      BY <2>1, <2>4 DEF Pending
    <3> QED BY <3>1, <2>2, <2>3, PendingSides, PendingSidesNext
  <2>5. CASE hold \in {"scan", "link"}
    <3>1. Excused
      BY <2>5 DEF Excused
    <3> QED BY <3>1, <2>3, <1>now
  <2>6. CASE bufs = 0
    <3>1. Covered
      BY <2>6, BufsBusy DEF Covered
    <3> QED BY <3>1, <2>2, <1>now
  <2> QED BY <2>4, <2>5, <2>6 DEF PreEnqueue, MustQueue
<1>6. CASE \E q \in Queues : Direct(q)
  <2> PICK q \in Queues : Direct(q)
    BY <1>6
  <2>1. urbs' > 0 \/ silent' = TRUE
    BY DEF Direct, Written
  <2> QED BY <1>now, <2>1 DEF Covered, Excused
<1>7. CASE \E q \in Queues : SenderFree(q)
  <2> PICK q \in Queues : SenderFree(q)
    BY <1>7
  <2>1. Pending' => Pending
    BY DEF SenderFree, Pending
  <2>2. Excused => Excused'
    BY DEF SenderFree, Excused
  <2>3. Covered => Covered'
    BY DEF SenderFree, Covered, SndRec, TskRec, Resting
  <2> QED BY <1>same, <2>1, <2>2, <2>3
<1>8. CASE \E q \in Queues : SenderWake(q)
  <2> PICK q \in Queues : SenderWake(q)
    BY <1>8
  <2>1. Pending' => Pending
    BY DEF SenderWake, Pending
  <2>2. Excused => Excused'
    BY DEF SenderWake, Excused
  <2>3. Covered => Covered'
    BY DEF SenderWake, rtw_os_check_wakup_queue, Covered, SndRec, TskRec, Resting
  <2> QED BY <1>same, <2>1, <2>2, <2>3
<1>9. CASE TaskletRun
  <2>1. tsk'.pc \notin {"idle", "release"}
    BY <1>9 DEF TaskletRun, At, TaskletTo, TskRec, Resting
  <2> QED BY <2>1, <1>now DEF Covered
<1>10. CASE TaskletAlloc
  <2>1. CASE stopped \/ hold = "scan"
    BY <1>10, <2>1, <1>now DEF TaskletAlloc, Excused
  <2>2. CASE ~(stopped \/ hold = "scan") /\ bufs = 0
    <3>1. urbs' > 0 \/ \E q \in Queues : snd'[q].pc = "direct"
      BY <1>10, <2>2, BufsBusy DEF TaskletAlloc
    <3> QED BY <3>1, <1>now DEF Covered
  <2>3. CASE ~(stopped \/ hold = "scan") /\ bufs # 0
    <3>1. tsk'.pc = "dequeue"
      BY <1>10, <2>3 DEF TaskletAlloc, TaskletTo, TskRec
    <3> QED BY <3>1, <1>now DEF Covered
  <2> QED BY <2>1, <2>2, <2>3
<1>11. CASE rtw_dequeue_xframe
  <2>1. tsk'.pc \notin {"idle", "release"}
    BY <1>11, DequeuesSome DEF Dequeues, Resting
  <2> QED BY <2>1, <1>now DEF Covered
<1>12. CASE DequeueNothing
  <2>1. \A s \in Stas, q \in Queues : ~(qcnt[s][q] > 0)
    BY <1>12 DEF DequeueNothing, Servable, Listed, In
  <2>2. ~Pending'
    BY <1>12, <2>1 DEF DequeueNothing, Pending
  <2> QED BY <2>2, <1>now
<1>13. CASE Release
  <2>1. Pending' => Pending
    BY <1>13 DEF Release, Pending
  <2>2. Excused => Excused'
    BY <1>13 DEF Release, Excused
  <2>3. Covered => Covered'
    BY <1>13 DEF Release, At, Covered, SndRec, TskRec, Resting
  <2> QED BY <1>same, <2>1, <2>2, <2>3
<1>14. CASE CoalesceFirst
  <2>1. tsk'.pc \notin {"idle", "release"}
    BY <1>14 DEF CoalesceFirst, At, TaskletTo, TskRec, Resting
  <2> QED BY <2>1, <1>now DEF Covered
<1>15. CASE Aggregate
  <2>1. tsk'.pc \notin {"idle", "release"}
    BY <1>15 DEF Aggregate, At, TakeHead, TskRec, Resting
  <2> QED BY <2>1, <1>now DEF Covered
<1>16. CASE AggregateWake
  <2>1. tsk'.pc \notin {"idle", "release"}
    BY <1>16 DEF AggregateWake, At, rtw_os_check_wakup_queue, TskRec, Resting
  <2> QED BY <2>1, <1>now DEF Covered
<1>17. CASE AggregateDone
  <2>1. tsk'.pc \notin {"idle", "release"}
    BY <1>17 DEF AggregateDone, At, TaskletTo, TskRec, Resting
  <2> QED BY <2>1, <1>now DEF Covered
<1>18. CASE TaskletWrite
  <2>1. tsk'.pc \notin {"idle", "release"}
    BY <1>18 DEF TaskletWrite, At, TaskletTo, Written, NotWritten, SubmitFails, TskRec, Resting
  <2> QED BY <2>1, <1>now DEF Covered
<1>19. CASE TaskletFree
  <2>1. tsk'.pc \notin {"idle", "release"}
    BY <1>19 DEF TaskletFree, At, TskRec, Resting
  <2> QED BY <2>1, <1>now DEF Covered
<1>20. CASE TaskletWake
  <2>1. tsk'.pc \notin {"idle", "release"}
    BY <1>20 DEF TaskletWake, At, rtw_os_check_wakup_queue, TskRec, Resting
  <2> QED BY <2>1, <1>now DEF Covered
<1>21. CASE UrbComplete
  BY <1>21, <1>now DEF UrbComplete, Covered
<1>22. CASE UrbSchedule
  BY <1>22, <1>now DEF UrbSchedule, Covered
<1>23. CASE \E why \in {"scan", "link"} : HoldUp(why)
  BY <1>23, <1>now DEF HoldUp, Excused
<1>24. CASE HoldOver
  BY <1>24, <1>now DEF HoldOver, Covered
<1>25. CASE rtw_os_xmit_schedule
  <2>1. CASE \E q \in Queues : sta_queue[q] # <<>>
    BY <1>25, <2>1, <1>now DEF rtw_os_xmit_schedule, Covered
  <2>2. CASE \A q \in Queues : sta_queue[q] = <<>>
    <3>1. \A s \in Stas, q \in Queues : ~(qcnt[s][q] > 0)
      BY <2>2 DEF Listed, In
    <3>2. ~Pending'
      BY <1>25, <3>1 DEF rtw_os_xmit_schedule, Pending
    <3> QED BY <3>2, <1>now
  <2> QED BY <2>1, <2>2
<1>26. CASE \E s \in Stas : StaLeaves(s)
  <2>1. Pending' => Pending
    BY <1>26 DEF StaLeaves, Pending
  <2>2. Excused => Excused'
    BY <1>26 DEF StaLeaves, Excused
  <2>3. Covered => Covered'
    BY <1>26 DEF StaLeaves, Covered, SndRec, TskRec, Resting
  <2> QED BY <1>same, <2>1, <2>2, <2>3
<1>27. CASE \E s \in Stas : StaFlush(s)
  <2> PICK s \in Stas : StaFlush(s)
    BY <1>27
  <2>1. Pending' => Pending
    <3>1. qcnt' = [qcnt EXCEPT ![s] = [q \in Queues |-> 0]]
      BY DEF StaFlush
    <3> QED BY <3>1 DEF Pending
  <2>2. (Excused => Excused') /\ (Covered => Covered')
    BY DEF StaFlush, Excused, Covered
  <2> QED BY <1>same, <2>1, <2>2
<1>28. CASE \E s \in Stas : StaJoins(s)
  <2>1. Pending' => Pending
    BY <1>28 DEF StaJoins, Pending
  <2>2. Excused => Excused'
    BY <1>28 DEF StaJoins, Excused
  <2>3. Covered => Covered'
    BY <1>28 DEF StaJoins, Covered, SndRec, TskRec, Resting
  <2> QED BY <1>same, <2>1, <2>2, <2>3
<1>29. CASE SetDrvStopped
  BY <1>29, <1>now DEF SetDrvStopped, Excused
<1>30. CASE UNCHANGED vars
  BY <1>30, <1>same DEF vars, Pending, Excused, Covered
<1> QED
  BY <1>1, <1>2, <1>3, <1>4, <1>5, <1>6, <1>7, <1>8, <1>9, <1>10, <1>11, <1>12, <1>13, <1>14, <1>15, <1>16, <1>17, <1>18, <1>19, <1>20, <1>21, <1>22, <1>23, <1>24, <1>25, <1>26, <1>27, <1>28, <1>29, <1>30
     DEF Next, Sender, Tasklet

(* The initial state *)
LEMMA Initially == Init => PathTypes /\ BufsConserved /\ Listed /\ PendingIsCovered
<1> SUFFICES ASSUME Init PROVE PathTypes /\ BufsConserved /\ Listed /\ PendingIsCovered
  OBVIOUS
<1>1. PathTypes
  <2>1. bufs \in Nat /\ urbs \in Nat
    BY SizeAssumption DEF Init
  <2>2. snd \in [Queues -> SndRec] /\ tsk \in TskRec
    BY SndRecNew, TskRecNew DEF Init
  <2>3. qcnt \in [Stas -> [Queues -> Nat]] /\ sta_queue \in [Queues -> Seq(Stas)]
    BY DEF Init
  <2> QED BY <2>1, <2>2, <2>3 DEF PathTypes
<1>2. SendersWithBuf = {} /\ ~TaskletWithBuf
  BY DEF Init, SendersWithBuf, TaskletWithBuf, Resting
<1>3. BufsConserved
  <2>1. Cardinality(SendersWithBuf) = 0
    BY <1>2, FS_EmptySet
  <2> QED BY <1>2, <2>1, SizeAssumption DEF Init, BufsConserved, One
<1>4. Listed /\ PendingIsCovered
  BY DEF Init, Listed, PendingIsCovered
<1> QED BY <1>1, <1>3, <1>4

(* No transmit buffer is ever lost or given back twice, whatever fails in             *)
(* pre_xmitframe, rtl8723du_xmitframe_complete or usb_write_port.                     *)
THEOREM BuffersConserved == Spec => []BufsConserved
<1>1. Init => PathTypes /\ BufsConserved
  BY Initially
<1>2. PathTypes /\ BufsConserved /\ [Next]_vars => (PathTypes /\ BufsConserved)'
  BY TypesKept, BufsKept
<1> QED BY <1>1, <1>2, PTL DEF Spec

(* With two buffers or more, a frame that pre_xmitframe has queued without scheduling *)
(* the tasklet is never forgotten: something is under way that leads to the queues.   *)
THEOREM PendingCovered == Spec => []PendingIsCovered
<1> DEFINE IInv == PathTypes /\ BufsConserved /\ Listed /\ PendingIsCovered
<1>1. Init => IInv
  BY Initially
<1>2. IInv /\ [Next]_vars => IInv'
  BY TypesKept, BufsKept, ListedKept, CoverKept
<1>3. IInv => PendingIsCovered
  OBVIOUS
<1> QED BY <1>1, <1>2, <1>3, PTL DEF Spec
=============================================================================
