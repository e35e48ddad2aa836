-------------------------- MODULE CmdThreadProofs --------------------------
(***************************************************************************)
(* Proofs about the command path: for any set of commands, any number of   *)
(* stops and restarts and any semaphore count, command objects have one    *)
(* owner, the on-stack submit_ctx is never written after its frame is      *)
(* gone, answers are true and no wake-up is lost.                          *)
(***************************************************************************)
EXTENDS CmdThread, TLAPS

-----------------------------------------------------------------------------
(* The inductive invariant *)

(* pcmd is set exactly while the thread holds an object, and there is no   *)
(* thread while the driver is down.                                        *)
CurInv ==
  /\ cur # NoCmd <=> tpc \in Holding
  /\ apc = "down" => tpc = "off"

(* An object is unallocated until its caller starts. *)
IdleInv == \A c \in Cmds : mem[c] = "unalloc" <=> cpc[c] = "idle"

(* sctx_mutex is held by the thread or by one caller, each in its section. *)
MutexInv ==
  /\ mutex = "thread" <=> tpc \in {"complete", "unlock"}
  /\ \A c \in Cmds : mutex = c <=> cpc[c] = "clear"

(* cmd_obj->sctx points into a live frame; until the frame is gone an       *)
(* unanswered submit_ctx is still hooked up; an answered one is unhooked    *)
(* before the mutex is released; the hook is gone when the object is freed. *)
SctxInv ==
  \A c \in Cmds :
    /\ c \in sctx \/ status[c] = "submitted" => c \in Sync
    /\ c \in sctx => FrameLive(c) /\ mem[c] = "live"
    /\ status[c] = "submitted" /\ FrameLive(c) => c \in sctx
    /\ c \in sctx /\ status[c] # "submitted" => tpc = "unlock" /\ cur = c
    /\ tpc = "unlock" /\ cur = c /\ c \in sctx => status[c] # "submitted"
    /\ tpc = "free" /\ cur = c => c \notin sctx

(* Handlers run between dequeue and post-processing only. *)
RanInv ==
  \A c \in Cmds :
    /\ mem[c] = "unalloc" \/ CallerOwns(c) \/ InQueue(c) => ran[c] = 0
    /\ ThreadOwns(c) /\ tpc \in {"filter", "alive", "register", "exec"} => ran[c] = 0
    /\ ThreadOwns(c) /\ tpc \in {"post", "complete", "unlock", "free"} =>
         /\ res = "success" => ran[c] = 1
         /\ res = "drained" => ran[c] = 0
    /\ status[c] \in {"success", "drop"} =>
         mem[c] = "freed" \/ (ThreadOwns(c) /\ tpc \in {"unlock", "free"})

(* The dequeued object sits right before the queued ones in the history. *)
LinkInv ==
  tpc \in Holding =>
    Len(queue) < Len(linked) /\ linked[Len(linked) - Len(queue)] = cur

(* A token accounts for every queued command while the thread is asleep or  *)
(* not there, except for one it put back with CMD_ALIVE set.                *)
TokenInv ==
  /\ tpc \in {"off", "init", "waitstop", "down"} /\ queue # << >> /\ ~alive =>
       sema > 0 \/ \E c \in Cmds : cpc[c] = "up"
  /\ tpc = "register" => alive

MemInv == OneOwner /\ IdleInv
-----------------------------------------------------------------------------
(* Sequences, as the queue uses them *)

(* Linking at the tail. *)
LEMMA AppendFacts ==
  ASSUME NEW S, NEW q \in Seq(S), NEW x \in S
  PROVE  /\ Append(q, x) \in Seq(S)
         /\ Len(Append(q, x)) = Len(q) + 1
         /\ \A i \in 1..Len(q) : Append(q, x)[i] = q[i]
         /\ Append(q, x)[Len(q) + 1] = x
OBVIOUS

(* Unlinking the head. *)
LEMMA TailFacts ==
  ASSUME NEW S, NEW q \in Seq(S), q # << >>
  PROVE  /\ Head(q) \in S /\ Head(q) = q[1]
         /\ Tail(q) \in Seq(S)
         /\ Len(q) \in Nat /\ Len(q) > 0
         /\ Len(Tail(q)) = Len(q) - 1
         /\ \A i \in 1..Len(Tail(q)) : Tail(q)[i] = q[i + 1]
OBVIOUS

(* Linking at the head. *)
LEMMA ConsFacts ==
  ASSUME NEW S, NEW q \in Seq(S), NEW x \in S
  PROVE  /\ <<x>> \o q \in Seq(S)
         /\ Len(<<x>> \o q) = Len(q) + 1
         /\ (<<x>> \o q)[1] = x
         /\ \A i \in 1..Len(q) : (<<x>> \o q)[i + 1] = q[i]
OBVIOUS

-----------------------------------------------------------------------------
(* Type correctness *)

Typed == TypeOK /\ CurInv

(* The initial state of the command path is well typed, with no thread and no pcmd. *)
LEMMA TypedInit == Init => Typed
<1> SUFFICES ASSUME Init PROVE Typed
  OBVIOUS
<1>1. TypeOK
  <2>1. queue \in Seq(Cmds) /\ linked \in Seq(Cmds)
    BY DEF Init
  <2>2. sema \in Nat /\ startSema \in Nat /\ stops \in Nat
    BY DEF Init
  <2>3. running \in BOOLEAN /\ alive \in BOOLEAN
    BY DEF Init
  <2>4. cpc \in [Cmds -> {"idle", "filter", "insert", "up", "wait", "lock", "clear", "ret"}]
    BY DEF Init
  <2>5. mem \in [Cmds -> {"unalloc", "live", "freed"}]
    BY DEF Init
  <2>6. /\ status \in [Cmds -> {"none", "submitted", "success", "error", "drop"}]
        /\ ran \in [Cmds -> Nat]
    BY DEF Init
  <2>7. /\ stopped \in BOOLEAN /\ removed \in BOOLEAN /\ hwInit \in BOOLEAN
    BY DEF Init
  <2>8. QED
    BY <2>1, <2>2, <2>3, <2>4, <2>5, <2>6, <2>7 DEF Init, TypeOK, ThreadPoints
<1>2. CurInv
  BY DEF Init, CurInv, Holding
<1> QED
  BY <1>1, <1>2 DEF Typed

(* Every step of a caller, the thread or the driver keeps the types and keeps pcmd
   set exactly while the thread holds an object. *)
LEMMA TypedNext == Typed /\ [Next]_vars => Typed'
<1> SUFFICES ASSUME Typed, [Next]_vars PROVE Typed'
  OBVIOUS
<1>0. queue # << >> => Head(queue) \in Cmds /\ Tail(queue) \in Seq(Cmds)
  BY TailFacts DEF Typed, TypeOK
<1> USE CmdAssumption DEF Typed, TypeOK, CurInv, ThreadPoints, Holding
<1>1. CASE \E c \in Cmds : Submit(c)
  BY <1>1 DEF Submit, threadVars, callerVars, adminVars
<1>2. CASE \E c \in Cmds : EnqueueFilter(c)
  <2>1. PICK c \in Cmds : EnqueueFilter(c)
    BY <1>2
  <2>2. /\ \E x \in {"insert", "ret"} : cpc' = [cpc EXCEPT ![c] = x]
        /\ mem' = mem \/ mem' = [mem EXCEPT ![c] = "freed"]
        /\ sctx' \subseteq sctx
    BY <2>1 DEF EnqueueFilter
  <2>3. /\ cpc' \in [Cmds -> {"idle", "filter", "insert", "up", "wait", "lock", "clear", "ret"}]
        /\ mem' \in [Cmds -> {"unalloc", "live", "freed"}]
        /\ sctx' \subseteq Cmds
    <3>1. cpc' \in [Cmds -> {"idle", "filter", "insert", "up", "wait", "lock", "clear", "ret"}]
      BY <2>2
    <3>2. mem' \in [Cmds -> {"unalloc", "live", "freed"}]
      BY <2>2
    <3>3. sctx' \subseteq Cmds
      BY <2>2
    <3> QED
      BY <3>1, <3>2, <3>3
  <2>4. UNCHANGED <<queue, sema, running, mutex, tpc, cur, res, alive, status, done,
                    ran, apc, stopped, stops, startSema, removed, hwInit, linked>>
    BY <2>1 DEF EnqueueFilter, threadVars, adminVars
  <2>5. QED
    BY <2>3, <2>4
<1>3. CASE \E c \in Cmds : EnqueueInsert(c)
  BY <1>3, AppendFacts DEF EnqueueInsert, threadVars, callerVars, adminVars
<1>4. CASE \E c \in Cmds : EnqueueUp(c)
  BY <1>4 DEF EnqueueUp, threadVars, callerVars, adminVars
<1>5. CASE \E c \in Cmds : SctxWaitDone(c)
  BY <1>5 DEF SctxWaitDone, threadVars, callerVars, adminVars
<1>6. CASE \E c \in Cmds : SctxWaitTimeout(c)
  BY <1>6 DEF SctxWaitTimeout, threadVars, callerVars, adminVars
<1>7. CASE \E c \in Cmds : CallerLock(c)
  BY <1>7 DEF CallerLock, threadVars, callerVars, adminVars
<1>8. CASE \E c \in Cmds : CallerClear(c)
  BY <1>8 DEF CallerClear, threadVars, callerVars, adminVars
<1>9. CASE ThreadEnter
  BY <1>9 DEF ThreadEnter, threadVars, callerVars, adminVars
<1>10. CASE ThreadDown
  BY <1>10 DEF ThreadDown, threadVars, callerVars, adminVars
<1>11. CASE ThreadInterrupted
  BY <1>11 DEF ThreadInterrupted, threadVars, callerVars, adminVars
<1>12. CASE ThreadWoken
  BY <1>12 DEF ThreadWoken, threadVars, callerVars, adminVars
<1>13. CASE ThreadNext
  <2>1. CASE queue' = queue /\ cur' = cur /\ tpc' \in {"exit", "down"}
    <3>1. alive' \in BOOLEAN
      BY <1>13 DEF ThreadNext
    <3>2. UNCHANGED <<sema, running, mutex, res, callerVars, ran, adminVars,
                      removed, hwInit, linked>>
      BY <1>13 DEF ThreadNext
    <3>3. apc # "down"
      BY <1>13 DEF ThreadNext
    <3>4. tpc \notin Holding /\ tpc' \notin Holding
      BY <1>13, <2>1 DEF ThreadNext
    <3>5. QED
      BY <2>1, <3>1, <3>2, <3>3, <3>4 DEF threadVars, callerVars, adminVars
  <2>2. CASE queue # << >> /\ cur' = Head(queue) /\ queue' = Tail(queue) /\ tpc' = "filter"
    BY <1>13, <1>0, <2>2 DEF ThreadNext, threadVars, callerVars, adminVars
  <2>3. QED
    BY <1>13, <2>1, <2>2 DEF ThreadNext
<1>14. CASE ThreadFilter
  BY <1>14 DEF ThreadFilter, threadVars, callerVars, adminVars
<1>15. CASE ThreadNoIo
  BY <1>15 DEF ThreadNoIo, threadVars, callerVars, adminVars
<1>16a. CASE ThreadRegister
  BY <1>16a DEF ThreadRegister, threadVars, callerVars, adminVars
<1>16. CASE ThreadRegistered
  BY <1>16 DEF ThreadRegistered, threadVars, callerVars, adminVars
<1>17. CASE ThreadRequeue
  BY <1>17, ConsFacts DEF ThreadRequeue, threadVars, callerVars, adminVars
<1>18. CASE ThreadExec
  BY <1>18 DEF ThreadExec, threadVars, callerVars, adminVars
<1>19. CASE ThreadLock
  BY <1>19 DEF ThreadLock, threadVars, callerVars, adminVars
<1>20. CASE ThreadComplete
  BY <1>20 DEF ThreadComplete, SctxResult, threadVars, callerVars, adminVars
<1>21. CASE ThreadUnlock
  BY <1>21 DEF ThreadUnlock, threadVars, callerVars, adminVars
<1>22. CASE ThreadFree
  BY <1>22 DEF ThreadFree, threadVars, callerVars, adminVars
<1>23. CASE ThreadExit
  BY <1>23 DEF ThreadExit, threadVars, callerVars, adminVars
<1>24. CASE ThreadDrain
  <2>1. CASE queue' = queue /\ cur' = cur /\ tpc' = "waitstop" /\ res' = res
    BY <1>24, <2>1 DEF ThreadDrain, threadVars, callerVars, adminVars
  <2>2. CASE queue # << >> /\ cur' = Head(queue) /\ queue' = Tail(queue) /\ tpc' = "post"
    BY <1>24, <1>0, <2>2 DEF ThreadDrain, threadVars, callerVars, adminVars
  <2>3. QED
    BY <1>24, <2>1, <2>2 DEF ThreadDrain
<1>25. CASE ThreadGone
  BY <1>25 DEF ThreadGone, threadVars, callerVars, adminVars
<1>26. CASE StartThread
  BY <1>26 DEF StartThread, threadVars, callerVars, adminVars
<1>27. CASE StartDone
  BY <1>27 DEF StartDone, threadVars, callerVars, adminVars
<1>28. CASE SetDrvStopped
  BY <1>28 DEF SetDrvStopped, threadVars, callerVars, adminVars
<1>29. CASE StopCmdThread
  BY <1>29 DEF StopCmdThread, threadVars, callerVars, adminVars
<1>30. CASE StopJoined
  BY <1>30 DEF StopJoined, threadVars, callerVars, adminVars
<1>31. CASE SurpriseRemove
  BY <1>31 DEF SurpriseRemove, threadVars, callerVars, adminVars
<1>32. CASE HwInitChange
  BY <1>32 DEF HwInitChange, threadVars, callerVars, adminVars
<1>33. CASE CpwmInt
  BY <1>33 DEF CpwmInt, threadVars, callerVars, adminVars
<1>34. CASE UNCHANGED vars
  BY <1>34 DEF vars, threadVars, callerVars, adminVars
<1>35. QED
  BY <1>1, <1>2, <1>3, <1>4, <1>5, <1>6, <1>7, <1>8, <1>9, <1>10, <1>11, <1>12, <1>13, <1>14, <1>15, <1>16, <1>16a, <1>17, <1>18, <1>19, <1>20, <1>21, <1>22, <1>23, <1>24, <1>25, <1>26, <1>27, <1>28, <1>29, <1>30, <1>31, <1>32, <1>33, <1>34 DEF Next, Thread, ThreadBody, ThreadPost, Admin, Env, Caller

(* Type correctness: every queue entry is a command, counters are naturals  *)
(* and control points are those of the code.                                *)
THEOREM TypeCorrect == Spec => []TypeOK
<1>1. Spec => []Typed
  BY TypedInit, TypedNext, PTL DEF Spec
<1> QED
  BY <1>1, PTL DEF Typed

-----------------------------------------------------------------------------
(* Ownership of the command objects *)

(* What the three queue operations do to membership and to distinctness. *)
LEMMA QueueAppend ==
  ASSUME Typed, NEW c \in Cmds, queue' = Append(queue, c)
  PROVE  /\ \A d \in Cmds : InQueue(d)' <=> InQueue(d) \/ d = c
         /\ (\A i, j \in 1..Len(queue) : queue[i] = queue[j] => i = j) /\ ~InQueue(c)
              => \A i, j \in 1..Len(queue') : queue'[i] = queue'[j] => i = j
<1>1. /\ Len(queue') = Len(queue) + 1 /\ Len(queue) \in Nat
      /\ \A i \in 1..Len(queue) : queue'[i] = queue[i]
      /\ queue'[Len(queue) + 1] = c
  BY AppendFacts DEF Typed, TypeOK
<1>2. QED
  BY <1>1 DEF InQueue

(* Dequeuing removes exactly the head from the queued objects. *)
LEMMA QueueTail ==
  ASSUME Typed, queue # << >>, queue' = Tail(queue),
         \A i, j \in 1..Len(queue) : queue[i] = queue[j] => i = j
  PROVE  /\ \A d \in Cmds : InQueue(d)' <=> InQueue(d) /\ d # Head(queue)
         /\ \A i, j \in 1..Len(queue') : queue'[i] = queue'[j] => i = j
         /\ Head(queue) \in Cmds /\ InQueue(Head(queue))
<1>1. /\ Len(queue') = Len(queue) - 1 /\ Len(queue) \in Nat /\ Len(queue) > 0
      /\ \A i \in 1..Len(queue') : queue'[i] = queue[i + 1]
      /\ Head(queue) = queue[1] /\ Head(queue) \in Cmds
  BY TailFacts DEF Typed, TypeOK
<1>2. ASSUME NEW d \in Cmds, InQueue(d), d # Head(queue) PROVE InQueue(d)'
  <2>1. PICK i \in 1..Len(queue) : queue[i] = d
    BY <1>2 DEF InQueue
  <2>2. i # 1 /\ i - 1 \in 1..Len(queue') /\ queue'[i - 1] = d
    BY <1>1, <1>2, <2>1
  <2>3. QED
    BY <2>2 DEF InQueue
<1>3. ASSUME NEW d \in Cmds, InQueue(d)' PROVE InQueue(d) /\ d # Head(queue)
  BY <1>1, <1>3 DEF InQueue
<1>4. QED
  BY <1>1, <1>2, <1>3 DEF InQueue

(* Putting an object back at the head adds exactly that object. *)
LEMMA QueueCons ==
  ASSUME Typed, NEW c \in Cmds, queue' = <<c>> \o queue
  PROVE  /\ \A d \in Cmds : InQueue(d)' <=> InQueue(d) \/ d = c
         /\ (\A i, j \in 1..Len(queue) : queue[i] = queue[j] => i = j) /\ ~InQueue(c)
              => \A i, j \in 1..Len(queue') : queue'[i] = queue'[j] => i = j
<1>1. /\ Len(queue') = Len(queue) + 1 /\ Len(queue) \in Nat
      /\ \A i \in 1..Len(queue) : queue'[i + 1] = queue[i]
      /\ queue'[1] = c
  BY ConsFacts DEF Typed, TypeOK
<1>2. \A i \in 1..Len(queue') : i = 1 \/ (i - 1 \in 1..Len(queue) /\ queue'[i] = queue[i - 1])
  BY <1>1
<1>3. ASSUME NEW d \in Cmds, InQueue(d) PROVE InQueue(d)'
  <2>1. PICK i \in 1..Len(queue) : queue[i] = d
    BY <1>3 DEF InQueue
  <2>2. i + 1 \in 1..Len(queue') /\ queue'[i + 1] = d
    BY <1>1, <2>1
  <2>3. QED
    BY <2>2 DEF InQueue
<1>4. InQueue(c)'
  BY <1>1 DEF InQueue
<1>5. ASSUME NEW d \in Cmds, InQueue(d)' PROVE InQueue(d) \/ d = c
  BY <1>1, <1>2, <1>5 DEF InQueue
<1>6. ASSUME \A i, j \in 1..Len(queue) : queue[i] = queue[j] => i = j, ~InQueue(c),
             NEW i \in 1..Len(queue'), NEW j \in 1..Len(queue'), queue'[i] = queue'[j]
      PROVE  i = j
  BY <1>1, <1>2, <1>6 DEF InQueue
<1>7. QED
  BY <1>3, <1>4, <1>5, <1>6

(* Before the first submission no object is allocated and none has an owner. *)
LEMMA MemInit == Init => MemInv
  BY DEF Init, MemInv, OneOwner, IdleInv, CallerOwns, ThreadOwns, InQueue, Holding

(* Every step hands an object on, or allocates or frees one it owns. *)
LEMMA MemNext == Typed /\ MemInv /\ [Next]_vars => MemInv'
<1> SUFFICES ASSUME Typed, MemInv, [Next]_vars PROVE MemInv'
  OBVIOUS
<1>q. queue' = queue => /\ \A d \in Cmds : InQueue(d)' <=> InQueue(d)
                        /\ Len(queue') = Len(queue)
  BY DEF InQueue
<1> USE CmdAssumption DEF Typed, TypeOK, CurInv, Holding, MemInv, OneOwner, IdleInv,
        CallerOwns, ThreadOwns
<1>1. CASE \E c \in Cmds : Submit(c)
  BY <1>1, <1>q DEF Submit, threadVars, callerVars, adminVars
<1>2. CASE \E c \in Cmds : EnqueueFilter(c)
  <2>1. PICK c \in Cmds : EnqueueFilter(c)
    BY <1>2
  <2>2. CASE cpc' = [cpc EXCEPT ![c] = "insert"] /\ mem' = mem
    BY <2>1, <2>2, <1>q DEF EnqueueFilter, threadVars
  <2>3. CASE cpc' = [cpc EXCEPT ![c] = "ret"] /\ mem' = [mem EXCEPT ![c] = "freed"]
    BY <2>1, <2>3, <1>q DEF EnqueueFilter, threadVars
  <2>4. QED
    BY <2>1, <2>2, <2>3 DEF EnqueueFilter
<1>3. CASE \E c \in Cmds : EnqueueInsert(c)
  <2>1. PICK c \in Cmds : EnqueueInsert(c)
    BY <1>3
  <2>2. /\ \A d \in Cmds : InQueue(d)' <=> InQueue(d) \/ d = c
        /\ \A i, j \in 1..Len(queue') : queue'[i] = queue'[j] => i = j
    BY <2>1, QueueAppend DEF EnqueueInsert
  <2>3. QED
    BY <2>1, <2>2 DEF EnqueueInsert, threadVars
<1>4. CASE \E c \in Cmds : EnqueueUp(c)
  BY <1>4, <1>q DEF EnqueueUp, threadVars, callerVars, adminVars
<1>5. CASE \E c \in Cmds : SctxWaitDone(c)
  BY <1>5, <1>q DEF SctxWaitDone, threadVars, callerVars, adminVars
<1>6. CASE \E c \in Cmds : SctxWaitTimeout(c)
  BY <1>6, <1>q DEF SctxWaitTimeout, threadVars, callerVars, adminVars
<1>7. CASE \E c \in Cmds : CallerLock(c)
  BY <1>7, <1>q DEF CallerLock, threadVars, callerVars, adminVars
<1>8. CASE \E c \in Cmds : CallerClear(c)
  BY <1>8, <1>q DEF CallerClear, threadVars, callerVars, adminVars
<1>9. CASE ThreadEnter
  BY <1>9, <1>q DEF ThreadEnter, threadVars, callerVars, adminVars
<1>10. CASE ThreadDown
  BY <1>10, <1>q DEF ThreadDown, threadVars, callerVars, adminVars
<1>11. CASE ThreadInterrupted
  BY <1>11, <1>q DEF ThreadInterrupted, threadVars, callerVars, adminVars
<1>12. CASE ThreadWoken
  BY <1>12, <1>q DEF ThreadWoken, threadVars, callerVars, adminVars
<1>13. CASE ThreadNext
  <2>1. CASE queue' = queue /\ cur' = cur /\ tpc' \in {"exit", "down"}
    <3>1. UNCHANGED <<cpc, mem>> /\ tpc \notin Holding /\ tpc' \notin Holding
      BY <1>13, <2>1 DEF ThreadNext, callerVars
    <3>2. QED
      BY <2>1, <3>1, <1>q
  <2>2. CASE queue # << >> /\ cur' = Head(queue) /\ queue' = Tail(queue) /\ tpc' = "filter"
    <3>1. UNCHANGED <<cpc, mem>> /\ tpc \notin Holding
      BY <1>13 DEF ThreadNext, callerVars
    <3>2. /\ \A d \in Cmds : InQueue(d)' <=> InQueue(d) /\ d # Head(queue)
          /\ \A i, j \in 1..Len(queue') : queue'[i] = queue'[j] => i = j
          /\ Head(queue) \in Cmds /\ InQueue(Head(queue))
      BY <2>2, QueueTail
    <3>3. QED
      BY <2>2, <3>1, <3>2
  <2>3. QED
    BY <1>13, <2>1, <2>2 DEF ThreadNext
<1>14. CASE ThreadFilter
  BY <1>14, <1>q DEF ThreadFilter, threadVars, callerVars, adminVars
<1>15. CASE ThreadNoIo
  BY <1>15, <1>q DEF ThreadNoIo, threadVars, callerVars, adminVars
<1>16a. CASE ThreadRegister
  BY <1>16a, <1>q DEF ThreadRegister, threadVars, callerVars, adminVars
<1>16. CASE ThreadRegistered
  BY <1>16, <1>q DEF ThreadRegistered, threadVars, callerVars, adminVars
<1>17. CASE ThreadRequeue
  <2>1. cur \in Cmds /\ ~InQueue(cur)
    BY <1>17 DEF ThreadRequeue
  <2>2. /\ \A d \in Cmds : InQueue(d)' <=> InQueue(d) \/ d = cur
        /\ \A i, j \in 1..Len(queue') : queue'[i] = queue'[j] => i = j
    BY <1>17, <2>1, QueueCons DEF ThreadRequeue
  <2>3. QED
    BY <1>17, <2>1, <2>2 DEF ThreadRequeue, callerVars
<1>18. CASE ThreadExec
  BY <1>18, <1>q DEF ThreadExec, threadVars, callerVars, adminVars
<1>19. CASE ThreadLock
  BY <1>19, <1>q DEF ThreadLock, threadVars, callerVars, adminVars
<1>20. CASE ThreadComplete
  BY <1>20, <1>q DEF ThreadComplete, threadVars, callerVars, adminVars
<1>21. CASE ThreadUnlock
  BY <1>21, <1>q DEF ThreadUnlock, threadVars, callerVars, adminVars
<1>22. CASE ThreadFree
  BY <1>22, <1>q DEF ThreadFree, threadVars, callerVars, adminVars
<1>23. CASE ThreadExit
  BY <1>23, <1>q DEF ThreadExit, threadVars, callerVars, adminVars
<1>24. CASE ThreadDrain
  <2>1. CASE queue' = queue /\ cur' = cur /\ tpc' = "waitstop"
    BY <1>24, <2>1, <1>q DEF ThreadDrain, callerVars
  <2>2. CASE queue # << >> /\ cur' = Head(queue) /\ queue' = Tail(queue) /\ tpc' = "post"
    <3>1. UNCHANGED <<cpc, mem>> /\ tpc \notin Holding
      BY <1>24 DEF ThreadDrain, callerVars
    <3>2. /\ \A d \in Cmds : InQueue(d)' <=> InQueue(d) /\ d # Head(queue)
          /\ \A i, j \in 1..Len(queue') : queue'[i] = queue'[j] => i = j
          /\ Head(queue) \in Cmds /\ InQueue(Head(queue))
      BY <2>2, QueueTail
    <3>3. QED
      BY <2>2, <3>1, <3>2
  <2>3. QED
    BY <1>24, <2>1, <2>2 DEF ThreadDrain
<1>25. CASE ThreadGone
  BY <1>25, <1>q DEF ThreadGone, threadVars, callerVars, adminVars
<1>26. CASE StartThread
  BY <1>26, <1>q DEF StartThread, threadVars, callerVars, adminVars
<1>27. CASE StartDone
  BY <1>27, <1>q DEF StartDone, threadVars, callerVars, adminVars
<1>28. CASE SetDrvStopped
  BY <1>28, <1>q DEF SetDrvStopped, threadVars, callerVars, adminVars
<1>29. CASE StopCmdThread
  BY <1>29, <1>q DEF StopCmdThread, threadVars, callerVars, adminVars
<1>30. CASE StopJoined
  BY <1>30, <1>q DEF StopJoined, threadVars, callerVars, adminVars
<1>31. CASE SurpriseRemove
  BY <1>31, <1>q DEF SurpriseRemove, threadVars, callerVars, adminVars
<1>32. CASE HwInitChange
  BY <1>32, <1>q DEF HwInitChange, threadVars, callerVars, adminVars
<1>33. CASE CpwmInt
  BY <1>33, <1>q DEF CpwmInt, threadVars, callerVars, adminVars
<1>34. CASE UNCHANGED vars
  BY <1>34, <1>q DEF vars, threadVars, callerVars, adminVars
<1>35. QED
  BY <1>1, <1>2, <1>3, <1>4, <1>5, <1>6, <1>7, <1>8, <1>9, <1>10, <1>11,
     <1>12, <1>13, <1>14, <1>15, <1>16, <1>16a, <1>17, <1>18, <1>19, <1>20, <1>21,
     <1>22, <1>23, <1>24, <1>25, <1>26, <1>27, <1>28, <1>29, <1>30, <1>31,
     <1>32, <1>33, <1>34
  DEF Next, Thread, ThreadBody, ThreadPost, Admin, Env, Caller

(* OneOwner for every number of commands, stops and restarts: no cmd_obj is *)
(* freed twice, used after it was freed, linked twice or leaked.            *)
THEOREM OwnershipHolds == Spec => []OneOwner
<1>1. Init => Typed /\ MemInv
  BY TypedInit, MemInit
<1>2. Typed /\ MemInv /\ [Next]_vars => (Typed /\ MemInv)'
  BY TypedNext, MemNext
<1>3. QED
  BY <1>1, <1>2, PTL DEF Spec, MemInv

-----------------------------------------------------------------------------
(* The submit_ctx on the caller's stack *)

(* sctx_mutex starts out free. *)
LEMMA MutexInit == Init => MutexInv
  BY CmdAssumption DEF Init, MutexInv

(* Every lock and unlock of sctx_mutex keeps it with the thread's or one caller's
   critical section. *)
LEMMA MutexNext == Typed /\ MutexInv /\ [Next]_vars => MutexInv'
<1> SUFFICES ASSUME Typed, MutexInv, [Next]_vars PROVE MutexInv'
  OBVIOUS
<1> USE CmdAssumption DEF Typed, TypeOK, CurInv, ThreadPoints, Holding, MutexInv
<1>1. CASE \E c \in Cmds : Submit(c)
  BY <1>1 DEF Submit, threadVars, callerVars, adminVars
<1>2. CASE \E c \in Cmds : EnqueueFilter(c)
  BY <1>2 DEF EnqueueFilter, threadVars, callerVars, adminVars
<1>3. CASE \E c \in Cmds : EnqueueInsert(c)
  BY <1>3 DEF EnqueueInsert, threadVars, callerVars, adminVars
<1>4. CASE \E c \in Cmds : EnqueueUp(c)
  BY <1>4 DEF EnqueueUp, threadVars, callerVars, adminVars
<1>5. CASE \E c \in Cmds : SctxWaitDone(c)
  BY <1>5 DEF SctxWaitDone, threadVars, callerVars, adminVars
<1>6. CASE \E c \in Cmds : SctxWaitTimeout(c)
  BY <1>6 DEF SctxWaitTimeout, threadVars, callerVars, adminVars
<1>7. CASE \E c \in Cmds : CallerLock(c)
  BY <1>7 DEF CallerLock, threadVars, callerVars, adminVars
<1>8. CASE \E c \in Cmds : CallerClear(c)
  BY <1>8 DEF CallerClear, threadVars, callerVars, adminVars
<1>9. CASE ThreadEnter
  BY <1>9 DEF ThreadEnter, threadVars, callerVars, adminVars
<1>10. CASE ThreadDown
  BY <1>10 DEF ThreadDown, threadVars, callerVars, adminVars
<1>11. CASE ThreadInterrupted
  BY <1>11 DEF ThreadInterrupted, threadVars, callerVars, adminVars
<1>12. CASE ThreadWoken
  BY <1>12 DEF ThreadWoken, threadVars, callerVars, adminVars
<1>13. CASE ThreadNext
  BY <1>13 DEF ThreadNext, callerVars
<1>14. CASE ThreadFilter
  BY <1>14 DEF ThreadFilter, callerVars
<1>15. CASE ThreadNoIo
  BY <1>15 DEF ThreadNoIo, threadVars, callerVars, adminVars
<1>16a. CASE ThreadRegister
  BY <1>16a DEF ThreadRegister, threadVars, callerVars, adminVars
<1>16. CASE ThreadRegistered
  BY <1>16 DEF ThreadRegistered, threadVars, callerVars, adminVars
<1>17. CASE ThreadRequeue
  BY <1>17 DEF ThreadRequeue, threadVars, callerVars, adminVars
<1>18. CASE ThreadExec
  BY <1>18 DEF ThreadExec, threadVars, callerVars, adminVars
<1>19. CASE ThreadLock
  BY <1>19 DEF ThreadLock, threadVars, callerVars, adminVars
<1>20. CASE ThreadComplete
  BY <1>20 DEF ThreadComplete, threadVars, callerVars, adminVars
<1>21. CASE ThreadUnlock
  BY <1>21 DEF ThreadUnlock, threadVars, callerVars, adminVars
<1>22. CASE ThreadFree
  BY <1>22 DEF ThreadFree, threadVars, callerVars, adminVars
<1>23. CASE ThreadExit
  BY <1>23 DEF ThreadExit, threadVars, callerVars, adminVars
<1>24. CASE ThreadDrain
  BY <1>24 DEF ThreadDrain, callerVars
<1>25. CASE ThreadGone
  BY <1>25 DEF ThreadGone, threadVars, callerVars, adminVars
<1>26. CASE StartThread
  BY <1>26 DEF StartThread, threadVars, callerVars, adminVars
<1>27. CASE StartDone
  BY <1>27 DEF StartDone, threadVars, callerVars, adminVars
<1>28. CASE SetDrvStopped
  BY <1>28 DEF SetDrvStopped, threadVars, callerVars, adminVars
<1>29. CASE StopCmdThread
  BY <1>29 DEF StopCmdThread, threadVars, callerVars, adminVars
<1>30. CASE StopJoined
  BY <1>30 DEF StopJoined, threadVars, callerVars, adminVars
<1>31. CASE SurpriseRemove
  BY <1>31 DEF SurpriseRemove, threadVars, callerVars, adminVars
<1>32. CASE HwInitChange
  BY <1>32 DEF HwInitChange, threadVars, callerVars, adminVars
<1>33. CASE CpwmInt
  BY <1>33 DEF CpwmInt, threadVars, callerVars, adminVars
<1>34. CASE UNCHANGED vars
  BY <1>34 DEF vars, threadVars, callerVars, adminVars
<1>35. QED
  BY <1>1, <1>2, <1>3, <1>4, <1>5, <1>6, <1>7, <1>8, <1>9, <1>10, <1>11,
     <1>12, <1>13, <1>14, <1>15, <1>16, <1>16a, <1>17, <1>18, <1>19, <1>20, <1>21,
     <1>22, <1>23, <1>24, <1>25, <1>26, <1>27, <1>28, <1>29, <1>30, <1>31,
     <1>32, <1>33, <1>34
  DEF Next, Thread, ThreadBody, ThreadPost, Admin, Env, Caller

(* Initially no object points to a submit_ctx. *)
LEMMA SctxInit == Init => SctxInv
  BY DEF Init, SctxInv, FrameLive

(* The mutex orders the thread's completion and the caller's unhooking: who *)
(* comes second finds the other's result.                                   *)
LEMMA SctxNext == Typed /\ MemInv /\ MutexInv /\ SctxInv /\ [Next]_vars => SctxInv'
<1> SUFFICES ASSUME Typed, MemInv, MutexInv, SctxInv, [Next]_vars PROVE SctxInv'
  OBVIOUS
<1> USE CmdAssumption DEF Typed, TypeOK, CurInv, Holding, MemInv, OneOwner, IdleInv,
        CallerOwns, ThreadOwns, MutexInv, SctxInv, FrameLive
<1>1. CASE \E c \in Cmds : Submit(c)
  <2>1. PICK c \in Cmds : Submit(c)
    BY <1>1
  <2>2. QED
    BY <2>1 DEF Submit, threadVars, callerVars, adminVars
<1>2. CASE \E c \in Cmds : EnqueueFilter(c)
  BY <1>2 DEF EnqueueFilter, threadVars, callerVars, adminVars
<1>3. CASE \E c \in Cmds : EnqueueInsert(c)
  BY <1>3 DEF EnqueueInsert, threadVars, callerVars, adminVars
<1>4. CASE \E c \in Cmds : EnqueueUp(c)
  <2>1. PICK c \in Cmds : EnqueueUp(c)
    BY <1>4
  <2>2. QED
    BY <2>1 DEF EnqueueUp, threadVars, callerVars, adminVars
<1>5. CASE \E c \in Cmds : SctxWaitDone(c)
  BY <1>5 DEF SctxWaitDone, threadVars, callerVars, adminVars
<1>6. CASE \E c \in Cmds : SctxWaitTimeout(c)
  BY <1>6 DEF SctxWaitTimeout, threadVars, callerVars, adminVars
<1>7. CASE \E c \in Cmds : CallerLock(c)
  <2>1. PICK c \in Cmds : CallerLock(c)
    BY <1>7
  <2>2. QED
    BY <2>1 DEF CallerLock, threadVars, callerVars, adminVars
<1>8. CASE \E c \in Cmds : CallerClear(c)
  BY <1>8 DEF CallerClear, threadVars, callerVars, adminVars
<1>9. CASE ThreadEnter
  BY <1>9 DEF ThreadEnter, threadVars, callerVars, adminVars
<1>10. CASE ThreadDown
  BY <1>10 DEF ThreadDown, threadVars, callerVars, adminVars
<1>11. CASE ThreadInterrupted
  BY <1>11 DEF ThreadInterrupted, threadVars, callerVars, adminVars
<1>12. CASE ThreadWoken
  BY <1>12 DEF ThreadWoken, threadVars, callerVars, adminVars
<1>13. CASE ThreadNext
  BY <1>13 DEF ThreadNext, threadVars, callerVars, adminVars
<1>14. CASE ThreadFilter
  BY <1>14 DEF ThreadFilter, threadVars, callerVars, adminVars
<1>15. CASE ThreadNoIo
  BY <1>15 DEF ThreadNoIo, threadVars, callerVars, adminVars
<1>16a. CASE ThreadRegister
  BY <1>16a DEF ThreadRegister, threadVars, callerVars, adminVars
<1>16. CASE ThreadRegistered
  BY <1>16 DEF ThreadRegistered, threadVars, callerVars, adminVars
<1>17. CASE ThreadRequeue
  BY <1>17 DEF ThreadRequeue, threadVars, callerVars, adminVars
<1>18. CASE ThreadExec
  BY <1>18 DEF ThreadExec, threadVars, callerVars, adminVars
<1>19. CASE ThreadLock
  BY <1>19 DEF ThreadLock, threadVars, callerVars, adminVars
<1>20. CASE ThreadComplete
  BY <1>20 DEF ThreadComplete, SctxResult, threadVars, callerVars, adminVars
<1>21. CASE ThreadUnlock
  BY <1>21 DEF ThreadUnlock, threadVars, callerVars, adminVars
<1>22. CASE ThreadFree
  BY <1>22 DEF ThreadFree, threadVars, callerVars, adminVars
<1>23. CASE ThreadExit
  BY <1>23 DEF ThreadExit, threadVars, callerVars, adminVars
<1>24. CASE ThreadDrain
  BY <1>24 DEF ThreadDrain, threadVars, callerVars, adminVars
<1>25. CASE ThreadGone
  BY <1>25 DEF ThreadGone, threadVars, callerVars, adminVars
<1>26. CASE StartThread
  BY <1>26 DEF StartThread, threadVars, callerVars, adminVars
<1>27. CASE StartDone
  BY <1>27 DEF StartDone, threadVars, callerVars, adminVars
<1>28. CASE SetDrvStopped
  BY <1>28 DEF SetDrvStopped, threadVars, callerVars, adminVars
<1>29. CASE StopCmdThread
  BY <1>29 DEF StopCmdThread, threadVars, callerVars, adminVars
<1>30. CASE StopJoined
  BY <1>30 DEF StopJoined, threadVars, callerVars, adminVars
<1>31. CASE SurpriseRemove
  BY <1>31 DEF SurpriseRemove, threadVars, callerVars, adminVars
<1>32. CASE HwInitChange
  BY <1>32 DEF HwInitChange, threadVars, callerVars, adminVars
<1>33. CASE CpwmInt
  BY <1>33 DEF CpwmInt, threadVars, callerVars, adminVars
<1>34. CASE UNCHANGED vars
  BY <1>34 DEF vars, threadVars, callerVars, adminVars
<1>35. QED
  BY <1>1, <1>2, <1>3, <1>4, <1>5, <1>6, <1>7, <1>8, <1>9, <1>10, <1>11,
     <1>12, <1>13, <1>14, <1>15, <1>16, <1>16a, <1>17, <1>18, <1>19, <1>20, <1>21,
     <1>22, <1>23, <1>24, <1>25, <1>26, <1>27, <1>28, <1>29, <1>30, <1>31,
     <1>32, <1>33, <1>34
  DEF Next, Thread, ThreadBody, ThreadPost, Admin, Env, Caller

SafeInv == Typed /\ MemInv /\ MutexInv /\ SctxInv

(* The conjunction of the ownership, mutex and submit_ctx invariants is inductive. *)
LEMMA SafeInvHolds == Spec => []SafeInv
<1>1. Init => SafeInv
  BY TypedInit, MemInit, MutexInit, SctxInit DEF SafeInv
<1>2. SafeInv /\ [Next]_vars => SafeInv'
  BY TypedNext, MemNext, MutexNext, SctxNext DEF SafeInv
<1>3. QED
  BY <1>1, <1>2, PTL DEF Spec

(* The thread completes only submit_ctx's whose stack frame still exists. *)
THEOREM SctxInFrameHolds == Spec => []SctxInFrame
<1>1. SafeInv => SctxInFrame
  BY DEF SafeInv, SctxInv, SctxInFrame, Typed, TypeOK
<1>2. QED
  BY <1>1, SafeInvHolds, PTL

(* A caller whose wait timed out unhooks itself from an object that is      *)
(* still allocated.                                                         *)
THEOREM ClearsLiveObjectHolds == Spec => []ClearsLiveObject
<1>1. SafeInv => ClearsLiveObject
  BY DEF SafeInv, SctxInv, ClearsLiveObject, FrameLive
<1>2. QED
  BY <1>1, SafeInvHolds, PTL

-----------------------------------------------------------------------------
(* No lost wake-up *)

(* With an empty queue no token is owed. *)
LEMMA TokenInit == Init => TokenInv
  BY DEF Init, TokenInv

(* No step of enqueue, dequeue, re-queue, drain or restart loses a token that a
   sleeping thread needs. *)
LEMMA TokenNext == Typed /\ TokenInv /\ [Next]_vars => TokenInv'
<1> SUFFICES ASSUME Typed, TokenInv, [Next]_vars PROVE TokenInv'
  OBVIOUS
<1> USE CmdAssumption DEF Typed, TypeOK, CurInv, TokenInv
<1>1. CASE \E c \in Cmds : Submit(c)
  BY <1>1 DEF Submit, threadVars, callerVars, adminVars
<1>2. CASE \E c \in Cmds : EnqueueFilter(c)
  BY <1>2 DEF EnqueueFilter, threadVars, callerVars, adminVars
<1>3. CASE \E c \in Cmds : EnqueueInsert(c)
  BY <1>3 DEF EnqueueInsert, threadVars, callerVars, adminVars
<1>4. CASE \E c \in Cmds : EnqueueUp(c)
  BY <1>4 DEF EnqueueUp, threadVars, callerVars, adminVars
<1>5. CASE \E c \in Cmds : SctxWaitDone(c)
  BY <1>5 DEF SctxWaitDone, threadVars, callerVars, adminVars
<1>6. CASE \E c \in Cmds : SctxWaitTimeout(c)
  BY <1>6 DEF SctxWaitTimeout, threadVars, callerVars, adminVars
<1>7. CASE \E c \in Cmds : CallerLock(c)
  BY <1>7 DEF CallerLock, threadVars, callerVars, adminVars
<1>8. CASE \E c \in Cmds : CallerClear(c)
  BY <1>8 DEF CallerClear, threadVars, callerVars, adminVars
<1>9. CASE ThreadEnter
  BY <1>9 DEF ThreadEnter, threadVars, callerVars, adminVars
<1>10. CASE ThreadDown
  BY <1>10 DEF ThreadDown, threadVars, callerVars, adminVars
<1>11. CASE ThreadInterrupted
  BY <1>11 DEF ThreadInterrupted, threadVars, callerVars, adminVars
<1>12. CASE ThreadWoken
  BY <1>12 DEF ThreadWoken, threadVars, callerVars, adminVars
<1>13. CASE ThreadNext
  BY <1>13 DEF ThreadNext, threadVars, callerVars, adminVars
<1>14. CASE ThreadFilter
  BY <1>14 DEF ThreadFilter, threadVars, callerVars, adminVars
<1>15. CASE ThreadNoIo
  BY <1>15 DEF ThreadNoIo, threadVars, callerVars, adminVars
<1>16a. CASE ThreadRegister
  BY <1>16a DEF ThreadRegister, threadVars, callerVars, adminVars
<1>16. CASE ThreadRegistered
  BY <1>16 DEF ThreadRegistered, threadVars, callerVars, adminVars
<1>17. CASE ThreadRequeue
  BY <1>17 DEF ThreadRequeue, threadVars, callerVars, adminVars
<1>18. CASE ThreadExec
  BY <1>18 DEF ThreadExec, threadVars, callerVars, adminVars
<1>19. CASE ThreadLock
  BY <1>19 DEF ThreadLock, threadVars, callerVars, adminVars
<1>20. CASE ThreadComplete
  BY <1>20 DEF ThreadComplete, threadVars, callerVars, adminVars
<1>21. CASE ThreadUnlock
  BY <1>21 DEF ThreadUnlock, threadVars, callerVars, adminVars
<1>22. CASE ThreadFree
  BY <1>22 DEF ThreadFree, threadVars, callerVars, adminVars
<1>23. CASE ThreadExit
  BY <1>23 DEF ThreadExit, threadVars, callerVars, adminVars
<1>24. CASE ThreadDrain
  BY <1>24 DEF ThreadDrain, threadVars, callerVars, adminVars
<1>25. CASE ThreadGone
  BY <1>25 DEF ThreadGone, threadVars, callerVars, adminVars
<1>26. CASE StartThread
  BY <1>26 DEF StartThread, threadVars, callerVars, adminVars
<1>27. CASE StartDone
  BY <1>27 DEF StartDone, threadVars, callerVars, adminVars
<1>28. CASE SetDrvStopped
  BY <1>28 DEF SetDrvStopped, threadVars, callerVars, adminVars
<1>29. CASE StopCmdThread
  BY <1>29 DEF StopCmdThread, threadVars, callerVars, adminVars
<1>30. CASE StopJoined
  BY <1>30 DEF StopJoined, threadVars, callerVars, adminVars
<1>31. CASE SurpriseRemove
  BY <1>31 DEF SurpriseRemove, threadVars, callerVars, adminVars
<1>32. CASE HwInitChange
  BY <1>32 DEF HwInitChange, threadVars, callerVars, adminVars
<1>33. CASE CpwmInt
  BY <1>33 DEF CpwmInt, threadVars, callerVars, adminVars
<1>34. CASE UNCHANGED vars
  BY <1>34 DEF vars, threadVars, callerVars, adminVars
<1>35. QED
  BY <1>1, <1>2, <1>3, <1>4, <1>5, <1>6, <1>7, <1>8, <1>9, <1>10, <1>11,
     <1>12, <1>13, <1>14, <1>15, <1>16, <1>16a, <1>17, <1>18, <1>19, <1>20, <1>21,
     <1>22, <1>23, <1>24, <1>25, <1>26, <1>27, <1>28, <1>29, <1>30, <1>31,
     <1>32, <1>33, <1>34
  DEF Next, Thread, ThreadBody, ThreadPost, Admin, Env, Caller

(* NoLostWakeup for every number of commands, stops and restarts. *)
THEOREM NoLostWakeupHolds == Spec => []NoLostWakeup
<1>1. Init => Typed /\ TokenInv
  BY TypedInit, TokenInit
<1>2. Typed /\ TokenInv /\ [Next]_vars => (Typed /\ TokenInv)'
  BY TypedNext, TokenNext
<1>3. TokenInv => NoLostWakeup
  BY DEF TokenInv, NoLostWakeup
<1>4. QED
  BY <1>1, <1>2, <1>3, PTL DEF Spec

-----------------------------------------------------------------------------
(* The queue is first-in first-out *)

FifoInv == QueueIsFifo /\ LinkInv

(* Queue and history are both empty at first. *)
LEMMA FifoInit == Init => FifoInv
  BY DEF Init, FifoInv, QueueIsFifo, LinkInv, Holding

(* Linking, unlinking and linking back at the head keep the queue the newest part of
   the history. *)
LEMMA FifoNext == Typed /\ FifoInv /\ [Next]_vars => FifoInv'
<1> SUFFICES ASSUME Typed, FifoInv, [Next]_vars PROVE FifoInv'
  OBVIOUS
<1>0. Len(queue) \in Nat /\ Len(linked) \in Nat
  BY DEF Typed, TypeOK
<1> USE CmdAssumption DEF Typed, TypeOK, CurInv, Holding, FifoInv, QueueIsFifo, LinkInv
<1>1. CASE \E c \in Cmds : Submit(c)
  BY <1>1, <1>0 DEF Submit, threadVars, callerVars, adminVars
<1>2. CASE \E c \in Cmds : EnqueueFilter(c)
  BY <1>2, <1>0 DEF EnqueueFilter, threadVars, callerVars, adminVars
<1>3. CASE \E c \in Cmds : EnqueueInsert(c)
  <2>1. PICK c \in Cmds : EnqueueInsert(c)
    BY <1>3
  <2>2. /\ Len(queue') = Len(queue) + 1
        /\ \A i \in 1..Len(queue) : queue'[i] = queue[i]
        /\ queue'[Len(queue) + 1] = c
    BY <2>1, AppendFacts DEF EnqueueInsert
  <2>3. /\ Len(linked') = Len(linked) + 1
        /\ \A i \in 1..Len(linked) : linked'[i] = linked[i]
        /\ linked'[Len(linked) + 1] = c
    BY <2>1, AppendFacts DEF EnqueueInsert
  <2>4. UNCHANGED <<tpc, cur>>
    BY <2>1 DEF EnqueueInsert, threadVars
  <2>5. ASSUME NEW i \in 1..Len(queue')
        PROVE  queue'[i] = linked'[Len(linked') - Len(queue') + i]
    <3>1. CASE i = Len(queue) + 1
      BY <1>0, <2>2, <2>3, <3>1
    <3>2. CASE i \in 1..Len(queue)
      <4>1. Len(linked') - Len(queue') + i = Len(linked) - Len(queue) + i
        BY <1>0, <2>2, <2>3
      <4>2. Len(linked) - Len(queue) + i \in 1..Len(linked)
        BY <1>0, <3>2
      <4>3. QED
        BY <2>2, <2>3, <3>2, <4>1, <4>2
    <3>3. QED
      BY <1>0, <2>2, <3>1, <3>2
  <2>6. ASSUME tpc' \in Holding
        PROVE  Len(queue') < Len(linked') /\ linked'[Len(linked') - Len(queue')] = cur'
    <3>1. Len(queue) < Len(linked) /\ linked[Len(linked) - Len(queue)] = cur
      BY <2>4, <2>6
    <3>2. Len(linked) - Len(queue) \in 1..Len(linked)
      BY <1>0, <3>1
    <3>3. Len(linked') - Len(queue') = Len(linked) - Len(queue)
      BY <1>0, <2>2, <2>3
    <3>4. Len(queue') = Len(queue) + 1 /\ Len(linked') = Len(linked) + 1
      BY <2>2, <2>3
    <3>5. Len(queue') < Len(linked')
      BY <1>0, <3>1, <3>4
    <3>6. linked'[Len(linked) - Len(queue)] = cur'
      BY <2>3, <2>4, <3>1, <3>2
    <3>7. QED
      BY <3>3, <3>5, <3>6
  <2>7. QED
    BY <1>0, <2>2, <2>3, <2>5, <2>6
<1>4. CASE \E c \in Cmds : EnqueueUp(c)
  BY <1>4, <1>0 DEF EnqueueUp, threadVars, callerVars, adminVars
<1>5. CASE \E c \in Cmds : SctxWaitDone(c)
  BY <1>5, <1>0 DEF SctxWaitDone, threadVars, callerVars, adminVars
<1>6. CASE \E c \in Cmds : SctxWaitTimeout(c)
  BY <1>6, <1>0 DEF SctxWaitTimeout, threadVars, callerVars, adminVars
<1>7. CASE \E c \in Cmds : CallerLock(c)
  BY <1>7, <1>0 DEF CallerLock, threadVars, callerVars, adminVars
<1>8. CASE \E c \in Cmds : CallerClear(c)
  BY <1>8, <1>0 DEF CallerClear, threadVars, callerVars, adminVars
<1>9. CASE ThreadEnter
  BY <1>9, <1>0 DEF ThreadEnter, threadVars, callerVars, adminVars
<1>10. CASE ThreadDown
  BY <1>10, <1>0 DEF ThreadDown, threadVars, callerVars, adminVars
<1>11. CASE ThreadInterrupted
  BY <1>11, <1>0 DEF ThreadInterrupted, threadVars, callerVars, adminVars
<1>12. CASE ThreadWoken
  BY <1>12, <1>0 DEF ThreadWoken, threadVars, callerVars, adminVars
<1>13. CASE ThreadNext
  <2>1. CASE queue' = queue /\ cur' = cur /\ tpc' \in {"exit", "down"}
    BY <1>13, <2>1 DEF ThreadNext
  <2>2. CASE queue # << >> /\ cur' = Head(queue) /\ queue' = Tail(queue) /\ tpc' = "filter"
    <3>1. linked' = linked
      BY <1>13 DEF ThreadNext
    <3>2. /\ Len(queue) > 0 /\ Len(queue') = Len(queue) - 1
          /\ cur' = queue[1]
          /\ \A i \in 1..Len(queue') : queue'[i] = queue[i + 1]
      BY <2>2, TailFacts
    <3>3. ASSUME NEW i \in 1..Len(queue')
          PROVE  queue'[i] = linked[Len(linked) - Len(queue') + i]
      <4>1. i + 1 \in 1..Len(queue)
        BY <1>0, <3>2
      <4>2. queue[i + 1] = linked[Len(linked) - Len(queue) + (i + 1)]
        BY <4>1
      <4>3. Len(linked) - Len(queue) + (i + 1) = Len(linked) - Len(queue') + i
        BY <1>0, <3>2
      <4>4. QED
        BY <3>2, <4>2, <4>3
    <3>4. Len(queue') < Len(linked) /\ linked[Len(linked) - Len(queue')] = cur'
      <4>1. queue[1] = linked[Len(linked) - Len(queue) + 1]
        BY <1>0, <3>2
      <4>2. Len(linked) - Len(queue') = Len(linked) - Len(queue) + 1
        BY <1>0, <3>2
      <4>3. QED
        BY <1>0, <3>2, <4>1, <4>2
    <3>5. QED
      BY <1>0, <3>1, <3>2, <3>3, <3>4
  <2>3. QED
    BY <1>13, <2>1, <2>2 DEF ThreadNext
<1>14. CASE ThreadFilter
  BY <1>14, <1>0 DEF ThreadFilter, threadVars, callerVars, adminVars
<1>15. CASE ThreadNoIo
  BY <1>15, <1>0 DEF ThreadNoIo, threadVars, callerVars, adminVars
<1>16a. CASE ThreadRegister
  BY <1>16a, <1>0 DEF ThreadRegister, threadVars, callerVars, adminVars
<1>16. CASE ThreadRegistered
  BY <1>16, <1>0 DEF ThreadRegistered, threadVars, callerVars, adminVars
<1>17. CASE ThreadRequeue
  <2>1. cur \in Cmds /\ linked' = linked /\ tpc' \notin Holding
    BY <1>17 DEF ThreadRequeue
  <2>2. /\ Len(queue') = Len(queue) + 1
        /\ queue'[1] = cur
        /\ \A i \in 1..Len(queue) : queue'[i + 1] = queue[i]
    BY <1>17, <2>1, ConsFacts DEF ThreadRequeue
  <2>3. Len(queue) < Len(linked) /\ linked[Len(linked) - Len(queue)] = cur
    BY <1>17 DEF ThreadRequeue
  <2>4. ASSUME NEW i \in 1..Len(queue')
        PROVE  queue'[i] = linked[Len(linked) - Len(queue') + i]
    <3>1. CASE i = 1
      BY <1>0, <2>2, <2>3, <3>1
    <3>2. CASE i # 1
      <4>1. i - 1 \in 1..Len(queue)
        BY <1>0, <2>2, <3>2
      <4>2. queue'[(i - 1) + 1] = queue[i - 1]
        BY <2>2, <4>1
      <4>3. queue[i - 1] = linked[Len(linked) - Len(queue) + (i - 1)]
        BY <4>1
      <4>4. Len(linked) - Len(queue) + (i - 1) = Len(linked) - Len(queue') + i
        BY <1>0, <2>2
      <4>5. (i - 1) + 1 = i
        OBVIOUS
      <4>6. QED
        BY <4>2, <4>3, <4>4, <4>5
    <3>3. QED
      BY <3>1, <3>2
  <2>5. QED
    BY <1>0, <2>1, <2>2, <2>3, <2>4
<1>18. CASE ThreadExec
  BY <1>18, <1>0 DEF ThreadExec, threadVars, callerVars, adminVars
<1>19. CASE ThreadLock
  BY <1>19, <1>0 DEF ThreadLock, threadVars, callerVars, adminVars
<1>20. CASE ThreadComplete
  BY <1>20, <1>0 DEF ThreadComplete, threadVars, callerVars, adminVars
<1>21. CASE ThreadUnlock
  BY <1>21, <1>0 DEF ThreadUnlock, threadVars, callerVars, adminVars
<1>22. CASE ThreadFree
  BY <1>22, <1>0 DEF ThreadFree, threadVars, callerVars, adminVars
<1>23. CASE ThreadExit
  BY <1>23, <1>0 DEF ThreadExit, threadVars, callerVars, adminVars
<1>24. CASE ThreadDrain
  <2>1. CASE queue' = queue /\ cur' = cur /\ tpc' = "waitstop"
    BY <1>24, <2>1 DEF ThreadDrain
  <2>2. CASE queue # << >> /\ cur' = Head(queue) /\ queue' = Tail(queue) /\ tpc' = "post"
    <3>1. linked' = linked
      BY <1>24 DEF ThreadDrain
    <3>2. /\ Len(queue) > 0 /\ Len(queue') = Len(queue) - 1
          /\ cur' = queue[1]
          /\ \A i \in 1..Len(queue') : queue'[i] = queue[i + 1]
      BY <2>2, TailFacts
    <3>3. ASSUME NEW i \in 1..Len(queue')
          PROVE  queue'[i] = linked[Len(linked) - Len(queue') + i]
      <4>1. i + 1 \in 1..Len(queue)
        BY <1>0, <3>2
      <4>2. queue[i + 1] = linked[Len(linked) - Len(queue) + (i + 1)]
        BY <4>1
      <4>3. Len(linked) - Len(queue) + (i + 1) = Len(linked) - Len(queue') + i
        BY <1>0, <3>2
      <4>4. QED
        BY <3>2, <4>2, <4>3
    <3>4. Len(queue') < Len(linked) /\ linked[Len(linked) - Len(queue')] = cur'
      <4>1. queue[1] = linked[Len(linked) - Len(queue) + 1]
        BY <1>0, <3>2
      <4>2. Len(linked) - Len(queue') = Len(linked) - Len(queue) + 1
        BY <1>0, <3>2
      <4>3. QED
        BY <1>0, <3>2, <4>1, <4>2
    <3>5. QED
      BY <1>0, <3>1, <3>2, <3>3, <3>4
  <2>3. QED
    BY <1>24, <2>1, <2>2 DEF ThreadDrain
<1>25. CASE ThreadGone
  BY <1>25, <1>0 DEF ThreadGone, threadVars, callerVars, adminVars
<1>26. CASE StartThread
  BY <1>26, <1>0 DEF StartThread, threadVars, callerVars, adminVars
<1>27. CASE StartDone
  BY <1>27, <1>0 DEF StartDone, threadVars, callerVars, adminVars
<1>28. CASE SetDrvStopped
  BY <1>28, <1>0 DEF SetDrvStopped, threadVars, callerVars, adminVars
<1>29. CASE StopCmdThread
  BY <1>29, <1>0 DEF StopCmdThread, threadVars, callerVars, adminVars
<1>30. CASE StopJoined
  BY <1>30, <1>0 DEF StopJoined, threadVars, callerVars, adminVars
<1>31. CASE SurpriseRemove
  BY <1>31, <1>0 DEF SurpriseRemove, threadVars, callerVars, adminVars
<1>32. CASE HwInitChange
  BY <1>32, <1>0 DEF HwInitChange, threadVars, callerVars, adminVars
<1>33. CASE CpwmInt
  BY <1>33, <1>0 DEF CpwmInt, threadVars, callerVars, adminVars
<1>34. CASE UNCHANGED vars
  BY <1>34, <1>0 DEF vars, threadVars, callerVars, adminVars
<1>35. QED
  BY <1>1, <1>2, <1>3, <1>4, <1>5, <1>6, <1>7, <1>8, <1>9, <1>10, <1>11,
     <1>12, <1>13, <1>14, <1>15, <1>16, <1>16a, <1>17, <1>18, <1>19, <1>20, <1>21,
     <1>22, <1>23, <1>24, <1>25, <1>26, <1>27, <1>28, <1>29, <1>30, <1>31,
     <1>32, <1>33, <1>34
  DEF Next, Thread, ThreadBody, ThreadPost, Admin, Env, Caller

(* QueueIsFifo: a command put back because the chip was asleep is the next  *)
(* one to run.                                                              *)
THEOREM QueueIsFifoHolds == Spec => []QueueIsFifo
<1>1. Init => Typed /\ FifoInv
  BY TypedInit, FifoInit
<1>2. Typed /\ FifoInv /\ [Next]_vars => (Typed /\ FifoInv)'
  BY TypedNext, FifoNext
<1>3. QED
  BY <1>1, <1>2, PTL DEF Spec, FifoInv

-----------------------------------------------------------------------------
(* Answers are true *)

AnswerInv == AnswerIsTrue /\ RanInv

(* Initially no handler ran and nobody was answered. *)
LEMMA AnswerInit == Init => AnswerInv
  BY DEF Init, AnswerInv, AnswerIsTrue, RanInv, CallerOwns, ThreadOwns, InQueue, Holding

(* No step lets a handler run twice or answers a submit_ctx with something that did
   not happen. *)
LEMMA AnswerNext == Typed /\ MemInv /\ MutexInv /\ SctxInv /\ AnswerInv /\ [Next]_vars => AnswerInv'
<1> SUFFICES ASSUME Typed, MemInv, MutexInv, SctxInv, AnswerInv, [Next]_vars
             PROVE  AnswerInv'
  OBVIOUS
<1>q. queue' = queue => \A d \in Cmds : InQueue(d)' <=> InQueue(d)
  BY DEF InQueue
<1> USE CmdAssumption DEF Typed, TypeOK, CurInv, Holding, MemInv, OneOwner, IdleInv,
        CallerOwns, ThreadOwns, AnswerInv, AnswerIsTrue, RanInv
<1>1. CASE \E c \in Cmds : Submit(c)
  BY <1>1, <1>q DEF Submit, threadVars, callerVars, adminVars
<1>2. CASE \E c \in Cmds : EnqueueFilter(c)
  <2>1. PICK c \in Cmds : EnqueueFilter(c)
    BY <1>2
  <2>2. CASE cpc' = [cpc EXCEPT ![c] = "insert"] /\ mem' = mem
    BY <2>1, <2>2, <1>q DEF EnqueueFilter, threadVars
  <2>3. CASE cpc' = [cpc EXCEPT ![c] = "ret"] /\ mem' = [mem EXCEPT ![c] = "freed"]
    BY <2>1, <2>3, <1>q DEF EnqueueFilter, threadVars
  <2>4. QED
    BY <2>1, <2>2, <2>3 DEF EnqueueFilter
<1>3. CASE \E c \in Cmds : EnqueueInsert(c)
  <2>1. PICK c \in Cmds : EnqueueInsert(c)
    BY <1>3
  <2>2. \A d \in Cmds : InQueue(d)' <=> InQueue(d) \/ d = c
    BY <2>1, QueueAppend DEF EnqueueInsert
  <2>3. QED
    BY <2>1, <2>2 DEF EnqueueInsert, threadVars
<1>4. CASE \E c \in Cmds : EnqueueUp(c)
  BY <1>4, <1>q DEF EnqueueUp, threadVars, callerVars, adminVars
<1>5. CASE \E c \in Cmds : SctxWaitDone(c)
  BY <1>5, <1>q DEF SctxWaitDone, threadVars, callerVars, adminVars
<1>6. CASE \E c \in Cmds : SctxWaitTimeout(c)
  BY <1>6, <1>q DEF SctxWaitTimeout, threadVars, callerVars, adminVars
<1>7. CASE \E c \in Cmds : CallerLock(c)
  BY <1>7, <1>q DEF CallerLock, threadVars, callerVars, adminVars
<1>8. CASE \E c \in Cmds : CallerClear(c)
  BY <1>8, <1>q DEF CallerClear, threadVars, callerVars, adminVars
<1>9. CASE ThreadEnter
  BY <1>9, <1>q DEF ThreadEnter, threadVars, callerVars, adminVars
<1>10. CASE ThreadDown
  BY <1>10, <1>q DEF ThreadDown, threadVars, callerVars, adminVars
<1>11. CASE ThreadInterrupted
  BY <1>11, <1>q DEF ThreadInterrupted, threadVars, callerVars, adminVars
<1>12. CASE ThreadWoken
  BY <1>12, <1>q DEF ThreadWoken, threadVars, callerVars, adminVars
<1>13. CASE ThreadNext
  <2>0. UNCHANGED <<cpc, mem, status, ran, res>> /\ tpc \notin Holding
    BY <1>13 DEF ThreadNext, callerVars
  <2>1. CASE queue' = queue /\ cur' = cur /\ tpc' \in {"exit", "down"}
    BY <2>0, <2>1, <1>q
  <2>2. CASE queue # << >> /\ cur' = Head(queue) /\ queue' = Tail(queue) /\ tpc' = "filter"
    <3>1. /\ \A d \in Cmds : InQueue(d)' <=> InQueue(d) /\ d # Head(queue)
          /\ Head(queue) \in Cmds /\ InQueue(Head(queue))
      BY <2>2, QueueTail
    <3>2. QED
      BY <2>0, <2>2, <3>1
  <2>3. QED
    BY <1>13, <2>1, <2>2 DEF ThreadNext
<1>14. CASE ThreadFilter
  BY <1>14, <1>q DEF ThreadFilter, threadVars, callerVars, adminVars
<1>15. CASE ThreadNoIo
  BY <1>15, <1>q DEF ThreadNoIo, threadVars, callerVars, adminVars
<1>16a. CASE ThreadRegister
  BY <1>16a, <1>q DEF ThreadRegister, threadVars, callerVars, adminVars
<1>16. CASE ThreadRegistered
  BY <1>16, <1>q DEF ThreadRegistered, threadVars, callerVars, adminVars
<1>17. CASE ThreadRequeue
  <2>1. cur \in Cmds /\ ran[cur] = 0
    BY <1>17 DEF ThreadRequeue
  <2>2. \A d \in Cmds : InQueue(d)' <=> InQueue(d) \/ d = cur
    BY <1>17, <2>1, QueueCons DEF ThreadRequeue
  <2>3. QED
    BY <1>17, <2>1, <2>2 DEF ThreadRequeue, callerVars
<1>18. CASE ThreadExec
  BY <1>18, <1>q DEF ThreadExec, threadVars, callerVars, adminVars
<1>19. CASE ThreadLock
  BY <1>19, <1>q DEF ThreadLock, threadVars, callerVars, adminVars
<1>20. CASE ThreadComplete
  BY <1>20, <1>q DEF ThreadComplete, SctxResult, SctxInv, threadVars, callerVars, adminVars
<1>21. CASE ThreadUnlock
  BY <1>21, <1>q DEF ThreadUnlock, threadVars, callerVars, adminVars
<1>22. CASE ThreadFree
  BY <1>22, <1>q DEF ThreadFree, threadVars, callerVars, adminVars
<1>23. CASE ThreadExit
  BY <1>23, <1>q DEF ThreadExit, threadVars, callerVars, adminVars
<1>24. CASE ThreadDrain
  <2>0. UNCHANGED <<cpc, mem, status, ran>> /\ tpc \notin Holding
    BY <1>24 DEF ThreadDrain, callerVars
  <2>1. CASE queue' = queue /\ cur' = cur /\ tpc' = "waitstop" /\ res' = res
    BY <2>0, <2>1, <1>q
  <2>2. CASE queue # << >> /\ cur' = Head(queue) /\ queue' = Tail(queue) /\ tpc' = "post"
                /\ res' = "drained"
    <3>1. /\ \A d \in Cmds : InQueue(d)' <=> InQueue(d) /\ d # Head(queue)
          /\ Head(queue) \in Cmds /\ InQueue(Head(queue))
      BY <2>2, QueueTail
    <3>2. QED
      BY <2>0, <2>2, <3>1
  <2>3. QED
    BY <1>24, <2>1, <2>2 DEF ThreadDrain
<1>25. CASE ThreadGone
  BY <1>25, <1>q DEF ThreadGone, threadVars, callerVars, adminVars
<1>26. CASE StartThread
  BY <1>26, <1>q DEF StartThread, threadVars, callerVars, adminVars
<1>27. CASE StartDone
  BY <1>27, <1>q DEF StartDone, threadVars, callerVars, adminVars
<1>28. CASE SetDrvStopped
  BY <1>28, <1>q DEF SetDrvStopped, threadVars, callerVars, adminVars
<1>29. CASE StopCmdThread
  BY <1>29, <1>q DEF StopCmdThread, threadVars, callerVars, adminVars
<1>30. CASE StopJoined
  BY <1>30, <1>q DEF StopJoined, threadVars, callerVars, adminVars
<1>31. CASE SurpriseRemove
  BY <1>31, <1>q DEF SurpriseRemove, threadVars, callerVars, adminVars
<1>32. CASE HwInitChange
  BY <1>32, <1>q DEF HwInitChange, threadVars, callerVars, adminVars
<1>33. CASE CpwmInt
  BY <1>33, <1>q DEF CpwmInt, threadVars, callerVars, adminVars
<1>34. CASE UNCHANGED vars
  BY <1>34, <1>q DEF vars, threadVars, callerVars, adminVars
<1>35. QED
  BY <1>1, <1>2, <1>3, <1>4, <1>5, <1>6, <1>7, <1>8, <1>9, <1>10, <1>11,
     <1>12, <1>13, <1>14, <1>15, <1>16, <1>16a, <1>17, <1>18, <1>19, <1>20, <1>21,
     <1>22, <1>23, <1>24, <1>25, <1>26, <1>27, <1>28, <1>29, <1>30, <1>31,
     <1>32, <1>33, <1>34
  DEF Next, Thread, ThreadBody, ThreadPost, Admin, Env, Caller

(* AnswerIsTrue: a synchronous caller is told "success" only if its handler *)
(* ran, "drop" only if it did not, and no handler runs twice.               *)
THEOREM AnswerIsTrueHolds == Spec => []AnswerIsTrue
<1>1. Init => SafeInv /\ AnswerInv
  BY TypedInit, MemInit, MutexInit, SctxInit, AnswerInit DEF SafeInv
<1>2. SafeInv /\ AnswerInv /\ [Next]_vars => (SafeInv /\ AnswerInv)'
  BY TypedNext, MemNext, MutexNext, SctxNext, AnswerNext DEF SafeInv
<1>3. QED
  BY <1>1, <1>2, PTL DEF Spec, AnswerInv

-----------------------------------------------------------------------------
(* CMD_ALIVE *)

(* While the exiting thread drains the queue it has given CMD_ALIVE up; "drained" is *)
(* only the result of an object it is about to free.                                 *)
AliveInv ==
  /\ AliveOnlyForWork
  /\ res = "drained" => ~alive /\ tpc \in {"post", "complete", "unlock", "free"}

(* What callers, the stopping context and the chip leave alone: the thread, the bit and *)
(* the result; and they never take a command off the queue.                             *)
LEMMA OthersKeepAlive ==
  ASSUME Typed, AliveInv, UNCHANGED <<tpc, alive, res>>, queue # << >> => queue' # << >>
  PROVE  AliveInv'
  BY DEF AliveInv, AliveOnlyForWork

(* A caller's step links at most its own command. *)
LEMMA CallersKeepAlive ==
  ASSUME Typed, AliveInv, NEW c \in Cmds, Caller(c)
  PROVE  AliveInv'
<1>1. UNCHANGED <<tpc, alive, res>>
  BY DEF Caller, Submit, EnqueueFilter, EnqueueInsert, EnqueueUp, SctxWaitDone,
         SctxWaitTimeout, CallerLock, CallerClear, threadVars
<1>2. queue' = queue \/ queue' = Append(queue, c)
  BY DEF Caller, Submit, EnqueueFilter, EnqueueInsert, EnqueueUp, SctxWaitDone,
         SctxWaitTimeout, CallerLock, CallerClear
<1>3. queue # << >> => queue' # << >>
  <2>1. queue \in Seq(Cmds)
    BY DEF Typed, TypeOK
  <2>2. Len(Append(queue, c)) = Len(queue) + 1 /\ Len(queue) \in Nat
    BY <2>1, AppendFacts
  <2>3. Append(queue, c) # << >>
    BY <2>2
  <2> QED
    BY <1>2, <2>3
<1> QED
  BY <1>1, <1>3, OthersKeepAlive

(* The thread gives the bit up before it sleeps on an empty queue and before it drains. *)
LEMMA AliveNext == Typed /\ AliveInv /\ [Next]_vars => AliveInv'
<1> SUFFICES ASSUME Typed, AliveInv, [Next]_vars PROVE AliveInv'
  OBVIOUS
<1>1. CASE \E c \in Cmds : Caller(c)
  BY <1>1, CallersKeepAlive
<1>2. CASE StartDone \/ SetDrvStopped \/ StopCmdThread \/ StopJoined \/ Env
  <2>1. UNCHANGED <<tpc, alive, res, queue>>
    BY <1>2 DEF StartDone, SetDrvStopped, StopCmdThread, StopJoined, Env, SurpriseRemove,
                HwInitChange, CpwmInt, threadVars
  <2> QED
    BY <2>1, OthersKeepAlive
<1>3. CASE ThreadEnter
  BY <1>3 DEF ThreadEnter, AliveInv, AliveOnlyForWork
<1>4. CASE ThreadDown
  BY <1>4 DEF ThreadDown, AliveInv, AliveOnlyForWork
<1>5. CASE ThreadInterrupted
  BY <1>5 DEF ThreadInterrupted, AliveInv, AliveOnlyForWork
<1>6. CASE ThreadWoken
  BY <1>6 DEF ThreadWoken, AliveInv, AliveOnlyForWork
<1>7. CASE ThreadNext
  BY <1>7 DEF ThreadNext, AliveInv, AliveOnlyForWork
<1>8. CASE ThreadFilter
  BY <1>8 DEF ThreadFilter, AliveInv, AliveOnlyForWork
<1>9. CASE ThreadNoIo
  BY <1>9 DEF ThreadNoIo, AliveInv, AliveOnlyForWork
<1>10. CASE ThreadRegister
  BY <1>10 DEF ThreadRegister, AliveInv, AliveOnlyForWork
<1>11. CASE ThreadRegistered
  BY <1>11 DEF ThreadRegistered, AliveInv, AliveOnlyForWork
<1>12. CASE ThreadRequeue
  <2>1. queue' \in Seq(Cmds) /\ Len(queue') = Len(queue) + 1 /\ Len(queue) \in Nat
    BY <1>12, ConsFacts DEF ThreadRequeue, Typed, TypeOK, CurInv, Holding
  <2>2. queue' # << >>
    BY <2>1
  <2> QED
    BY <1>12, <2>2 DEF ThreadRequeue, AliveInv, AliveOnlyForWork
<1>13. CASE ThreadExec
  BY <1>13 DEF ThreadExec, AliveInv, AliveOnlyForWork
<1>14. CASE ThreadLock
  BY <1>14 DEF ThreadLock, AliveInv, AliveOnlyForWork
<1>15. CASE ThreadComplete
  BY <1>15 DEF ThreadComplete, AliveInv, AliveOnlyForWork
<1>16. CASE ThreadUnlock
  BY <1>16 DEF ThreadUnlock, AliveInv, AliveOnlyForWork
<1>17. CASE ThreadFree
  BY <1>17 DEF ThreadFree, AliveInv, AliveOnlyForWork
<1>18. CASE ThreadExit
  BY <1>18 DEF ThreadExit, AliveInv, AliveOnlyForWork
<1>19. CASE ThreadDrain
  BY <1>19 DEF ThreadDrain, AliveInv, AliveOnlyForWork
<1>20. CASE ThreadGone
  BY <1>20 DEF ThreadGone, AliveInv, AliveOnlyForWork
<1>21. CASE StartThread
  BY <1>21 DEF StartThread, AliveInv, AliveOnlyForWork, Typed, CurInv
<1>22. CASE UNCHANGED vars
  BY <1>22, OthersKeepAlive DEF vars, threadVars
<1> QED
  BY <1>1, <1>2, <1>3, <1>4, <1>5, <1>6, <1>7, <1>8, <1>9, <1>10, <1>11, <1>12, <1>13, <1>14, <1>15, <1>16, <1>17, <1>18, <1>19, <1>20, <1>21, <1>22
  DEF Next, Thread, ThreadBody, ThreadPost, Admin

(* AliveOnlyForWork: a sleeping thread holds CMD_ALIVE only for a command it put back, *)
(* and a thread that left never leaves the bit set, over every stop and restart.       *)
THEOREM AliveOnlyForWorkHolds == Spec => []AliveOnlyForWork
<1>1. Init => Typed /\ AliveInv
  BY TypedInit DEF Init, AliveInv, AliveOnlyForWork
<1>2. Typed /\ AliveInv /\ [Next]_vars => (Typed /\ AliveInv)'
  BY TypedNext, AliveNext
<1>3. QED
  BY <1>1, <1>2, PTL DEF Spec, AliveInv
=============================================================================
