---------------------------- MODULE LpSched_proofs ----------------------------
(***************************************************************************)
(* Proofs about LpSched, for any number of workers and lua processes and   *)
(* for scripts that call any of the library's functions.                   *)
(***************************************************************************)
EXTENDS LpSched, FiniteSetTheorems, SequenceTheorems, TLAPS

\* A worker outside these has resumed a process.
Idle == {"unborn", "loop", "wait", "dec", "exit", "delete", "gone"}

\* A thread at one of these has a process in its hands.
Holding == {"np_load", "np_undo", "np_inc", "np_queue", "wake"}

CurHeld == \A w \in Workers : pc[w] \notin Idle => cur[w] \in Procs
ObjHeld == \A t \in Threads : pc[t] \in Holding => obj[t] \in Procs

\* TypeOK is not inductive: a step that moves cur[w] or obj[t] elsewhere needs
\* a process there.
TypeInv == TypeOK /\ CurHeld /\ ObjHeld

LEMMA HandlesType == 0 \in Handles
<1>1. IsFiniteSet(Threads)
  BY FS_AddElement, SchedAssumption DEF Threads, SchedAssumption
<1>2. Cardinality(Threads) \in Nat
  BY <1>1, FS_CardinalityType
<1> QED
  BY <1>2 DEF Handles

LEMMA InitTypeInv == Init => TypeInv
<1> SUFFICES ASSUME Init PROVE TypeInv
  OBVIOUS
<1>1. Cardinality(InitialWorkers) \in Int
  BY FS_Subset, FS_CardinalityType, SchedAssumption DEF SchedAssumption
<1>2. TypeOK
  BY <1>1, HandlesType, SchedAssumption
     DEF Init, InitWith, TypeOK, SchedAssumption, Statuses, PCs, Threads
<1>3. CurHeld /\ ObjHeld
  BY SchedAssumption
     DEF Init, InitWith, CurHeld, ObjHeld, Idle, Holding, SchedAssumption, Threads
<1> QED
  BY <1>2, <1>3 DEF TypeInv
-----------------------------------------------------------------------------
(* The type invariant is preserved: one lemma per kind of step, in it one   *)
(* case per action.                                                         *)

LEMMA RecycleInsertType ==
  ASSUME TypeOK, NEW p \in Procs, RecycleInsert(p)
  PROVE  recycle' \in Seq(Procs) /\ status' \in [Procs -> Statuses]
<1>1. CASE Len(recycle) >= recyclemax
  BY <1>1 DEF RecycleInsert, TypeOK, Statuses
<1>2. CASE ~(Len(recycle) >= recyclemax)
  <2>1. recycle' = Append(recycle, p) /\ status' = status
    BY <1>2 DEF RecycleInsert
  <2>2. recycle \in Seq(Procs) /\ status \in [Procs -> Statuses]
    BY DEF TypeOK
  <2>3. Append(recycle, p) \in Seq(Procs)
    BY <2>2
  <2> QED
    BY <2>1, <2>2, <2>3
<1> QED
  BY <1>1, <1>2

LEMMA SuffixType ==
  ASSUME NEW S, NEW s \in Seq(S), NEW k \in 0 .. Len(s)
  PROVE  SubSeq(s, k + 1, Len(s)) \in Seq(S)
<1> DEFINE m == k + 1
           n == Len(s)
<1>1. m \in Int /\ n \in Int /\ \A i \in m .. n : s[i] \in S
  OBVIOUS
<1> HIDE DEF m, n
<1>2. SubSeq(s, m, n) \in Seq(S)
  BY <1>1, SubSeqProperties, Zenon
<1> QED
  BY <1>2 DEF m, n

LEMMA WorkerStepType ==
  ASSUME TypeInv, NEW w \in Workers, WorkerStep(w)
  PROVE  TypeInv'
<1> USE SchedAssumption DEF SchedAssumption, Threads, TypeInv, TypeOK, CurHeld,
          ObjHeld, Idle, Holding, PCs, Goto
<1>1. CASE GoIdle(w)
  BY <1>1 DEF GoIdle, schedVars, procVars, recycleVars, joinVars
<1>2. CASE WakeUp(w)
  BY <1>2 DEF WakeUp, procVars, recycleVars, joinVars
<1>3. CASE Destroy(w)
  BY <1>3 DEF Destroy, PostWakeup, procVars, recycleVars, joinVars
<1>4. CASE PostExit(w)
  BY <1>4 DEF PostExit, schedVars, procVars, recycleVars
<1>5. CASE DeleteThread(w)
  BY <1>5 DEF DeleteThread, schedVars, procVars, recycleVars, joinVars
<1>6. CASE Take(w)
  BY <1>6 DEF Take, procVars, recycleVars, joinVars
<1>7. CASE Retire(w)
  <2>1. recycle' \in Seq(Procs) /\ status' \in [Procs -> Statuses]
    BY <1>7, RecycleInsertType DEF Retire
  <2>2. handle' \in [Threads -> Handles]
    BY <1>7, HandlesType DEF Retire
  <2> QED
    BY <1>7, <2>1, <2>2 DEF Retire, schedVars, joinVars
<1>8. CASE DecLpcount(w)
  BY <1>8 DEF DecLpcount, schedVars, recycleVars, joinVars
<1>9. CASE Park(w)
  BY <1>9 DEF Park, schedVars, recycleVars, joinVars
<1>10. CASE Requeue(w)
  <2>1. cur[w] \in Procs
    BY <1>10 DEF Requeue
  <2>2. ready' \in Seq(Procs)
    BY <1>10, <2>1 DEF Requeue
  <2> QED
    BY <1>10, <2>2, SMTT(30) DEF Requeue, procVars, recycleVars, joinVars
<1> QED
  BY <1>1, <1>2, <1>3, <1>4, <1>5, <1>6, <1>7, <1>8, <1>9, <1>10 DEF WorkerStep

LEMMA ReturnType ==
  ASSUME TypeInv, NEW w \in Workers, Return(w)
  PROVE  TypeInv'
<1> USE SchedAssumption DEF SchedAssumption, Threads, TypeInv, TypeOK, CurHeld,
          ObjHeld, Idle, Holding, PCs, Goto
<1>1. CASE Finish(w)
  BY <1>1 DEF Finish, Statuses, schedVars, recycleVars, joinVars
<1>2. CASE Fail(w)
  BY <1>2 DEF Fail, Statuses, schedVars, recycleVars, joinVars
<1>3. CASE Yield(w)
  BY <1>3 DEF Yield, schedVars, procVars, recycleVars, joinVars
<1>4. CASE \E wish \in {"BLOCKED_SEND", "BLOCKED_RECV"} : Block(w, wish)
  BY <1>4 DEF Block, Statuses, schedVars, recycleVars, joinVars
<1> QED
  BY <1>1, <1>2, <1>3, <1>4 DEF Return

LEMMA NewprocStepType ==
  ASSUME TypeInv, NEW t \in Threads, NewprocStep(t)
  PROVE  TypeInv'
<1> USE SchedAssumption DEF SchedAssumption, Threads, TypeInv, TypeOK, CurHeld,
          ObjHeld, Idle, Holding, PCs, Goto
<1>1. CASE NewprocLock(t)
  BY <1>1 DEF NewprocLock, schedVars, procVars, joinVars
<1>2. CASE NewprocReuse(t)
  <2>1. Head(recycle) \in Procs /\ recycle' \in Seq(Procs)
    BY <1>2 DEF NewprocReuse
  <2>2. handle' \in [Threads -> Handles] /\ owner' \in [Handles -> Threads \cup {Nil}]
    BY <1>2, HandlesType DEF NewprocReuse
  <2>3. status' \in [Procs -> Statuses]
    BY <1>2 DEF NewprocReuse, Statuses
  <2> QED
    BY <1>2, <2>1, <2>2, <2>3 DEF NewprocReuse, schedVars, joinVars
<1>3. CASE \E p \in Procs, h \in Handles : NewprocCreate(t, p, h)
  <2>1. PICK p \in Procs, h \in Handles : NewprocCreate(t, p, h)
    BY <1>3
  <2>2. handle' \in [Threads -> Handles] /\ owner' \in [Handles -> Threads \cup {Nil}]
    BY <2>1, HandlesType DEF NewprocCreate
  <2>3. status' \in [Procs -> Statuses]
    BY <2>1 DEF NewprocCreate, Statuses
  <2> QED
    BY <2>1, <2>2, <2>3 DEF NewprocCreate, schedVars, joinVars
<1>4. CASE NewprocLoaded(t)
  BY <1>4 DEF NewprocLoaded, schedVars, procVars, recycleVars, joinVars
<1>5. CASE NewprocBadCode(t)
  BY <1>5 DEF NewprocBadCode, Statuses, schedVars, recycleVars, joinVars
<1>6. CASE NewprocBadUpvalue(t)
  BY <1>6 DEF NewprocBadUpvalue, schedVars, procVars, recycleVars, joinVars
<1>7. CASE NewprocUndo(t)
  <2>1. recycle' \in Seq(Procs) /\ status' \in [Procs -> Statuses]
    BY <1>7, RecycleInsertType DEF NewprocUndo
  <2>2. handle' \in [Threads -> Handles]
    BY <1>7, HandlesType DEF NewprocUndo
  <2> QED
    BY <1>7, <2>1, <2>2 DEF NewprocUndo, schedVars, joinVars
<1>8. CASE NewprocInc(t)
  BY <1>8 DEF NewprocInc, schedVars, recycleVars, joinVars
<1>9. CASE NewprocQueue(t)
  BY <1>9 DEF NewprocQueue, QueueProc, PostWakeup, Statuses, recycleVars, joinVars
<1> QED
  BY <1>1, <1>2, <1>3, <1>4, <1>5, <1>6, <1>7, <1>8, <1>9 DEF NewprocStep

LEMMA CallStepType ==
  ASSUME TypeInv, NEW t \in Threads, CallStep(t)
  PROVE  TypeInv'
<1> USE SchedAssumption DEF SchedAssumption, Threads, TypeInv, TypeOK, CurHeld,
          ObjHeld, Idle, Holding, PCs, Goto
<1>1. CASE NewprocStep(t)
  BY <1>1, NewprocStepType
<1>2. CASE Wake(t)
  BY <1>2 DEF Wake, QueueProc, PostWakeup, Statuses, recycleVars, joinVars
<1>3. CASE \E max \in RecycleLimits : RecycleSet(t, max)
  <2>1. PICK max \in RecycleLimits : RecycleSet(t, max)
    BY <1>3
  <2>2. recycle' \in Seq(Procs)
    <3> DEFINE extra == IF Len(recycle) > max THEN Len(recycle) - max ELSE 0
    <3>1. extra \in 0 .. Len(recycle)
      OBVIOUS
    <3>2. recycle' = SubSeq(recycle, extra + 1, Len(recycle))
      BY <2>1 DEF RecycleSet
    <3> QED
      BY <3>1, <3>2, SuffixType
  <2>3. status' \in [Procs -> Statuses]
    BY <2>1 DEF RecycleSet, Statuses
  <2>4. handle' \in [Threads -> Handles] /\ recyclemax' \in Nat
    BY <2>1, HandlesType DEF RecycleSet
  <2> QED
    BY <2>1, <2>2, <2>3, <2>4 DEF RecycleSet, schedVars, joinVars
<1>4. CASE SchedWait(t)
  BY <1>4 DEF SchedWait, schedVars, procVars, recycleVars, joinVars
<1> QED
  BY <1>1, <1>2, <1>3, <1>4 DEF CallStep

LEMMA CallType ==
  ASSUME TypeInv, NEW t \in Threads, Call(t)
  PROVE  TypeInv'
<1> USE SchedAssumption DEF SchedAssumption, Threads, TypeInv, TypeOK, CurHeld,
          ObjHeld, Idle, Holding, PCs, Goto
<1>1. CASE CallNewproc(t)
  BY <1>1 DEF CallNewproc, schedVars, procVars, recycleVars, joinVars
<1>2. CASE \E p \in Procs : Unpark(t, p)
  BY <1>2 DEF Unpark, schedVars, recycleVars, joinVars
<1>3. CASE \E n \in Targets, started \in SUBSET Workers : Grow(t, n, started)
  BY <1>3 DEF Grow, GrownCount, procVars, recycleVars, joinVars
<1>4. CASE \E n \in Targets : Shrink(t, n)
  BY <1>4 DEF Shrink, PostWakeup, procVars, recycleVars, threadVars, joinVars
<1>5. CASE CallRecycle(t)
  BY <1>5 DEF CallRecycle, schedVars, procVars, recycleVars, joinVars
<1>6. CASE CallWait(t)
  BY <1>6 DEF CallWait, schedVars, procVars, recycleVars, joinVars
<1> QED
  BY <1>1, <1>2, <1>3, <1>4, <1>5, <1>6 DEF Call

LEMMA JoinStepType ==
  ASSUME TypeInv, JoinStep \/ CallJoin
  PROVE  TypeInv'
<1> USE SchedAssumption DEF SchedAssumption, Threads, TypeInv, TypeOK, CurHeld,
          ObjHeld, Idle, Holding, PCs, Goto
<1>1. CASE JoinMark
  BY <1>1 DEF JoinMark, PostWakeup, procVars, recycleVars
<1>2. CASE \E w \in Workers : JoinOne(w)
  BY <1>2 DEF JoinOne, schedVars, procVars, recycleVars, threadVars
<1>3. CASE JoinEnd
  BY <1>3 DEF JoinEnd, schedVars, procVars, recycleVars, joinVars
<1>4. CASE CallJoin
  BY <1>4 DEF CallJoin, schedVars, procVars, recycleVars, joinVars
<1> QED
  BY <1>1, <1>2, <1>3, <1>4 DEF JoinStep

LEMMA TypeInvStep == TypeInv /\ [Next]_vars => TypeInv'
<1> SUFFICES ASSUME TypeInv, [Next]_vars PROVE TypeInv'
  OBVIOUS
<1>1. CASE Next
  BY <1>1, WorkerStepType, ReturnType, CallStepType, CallType, JoinStepType
     DEF Next
<1>2. CASE UNCHANGED vars
  BY <1>2 DEF vars, schedVars, procVars, recycleVars, threadVars, joinVars,
              TypeInv, TypeOK, CurHeld, ObjHeld
<1> QED
  BY <1>1, <1>2

\* Every variable keeps its type: no thread queues, parks, recycles or wakes a
\* process it has not got.
THEOREM TypeCorrect == Spec => []TypeOK
<1>1. TypeInv => TypeOK
  BY DEF TypeInv
<1> QED
  BY <1>1, InitTypeInv, TypeInvStep, PTL DEF Spec
-----------------------------------------------------------------------------
(* The workers: their count is exact, and no wakeup is lost. *)

Dead == {"unborn", "exit", "delete", "gone"}

WorkerInv == TypeInv /\ WorkersExact /\ NoLostWakeup

LEMMA AliveFinite == IsFiniteSet(Alive)
BY FS_Subset, SchedAssumption DEF Alive, SchedAssumption

LEMMA InitWorkerInv == Init => WorkerInv
<1> SUFFICES ASSUME Init PROVE WorkerInv
  OBVIOUS
<1>1. Alive = InitialWorkers
  BY SchedAssumption DEF Init, InitWith, Alive, Threads, SchedAssumption
<1>2. WorkersExact
  BY <1>1 DEF WorkersExact, Init, InitWith
<1>3. NoLostWakeup
  BY DEF NoLostWakeup, Init, InitWith
<1> QED
  BY <1>2, <1>3, InitTypeInv DEF WorkerInv

\* A thread moves between places where a worker is alive, and none but a worker
\* itself changes what workers wait for without posting the semaphore.
LEMMA LiveMove ==
  ASSUME WorkerInv, NEW t \in Threads, NEW from, NEW to,
         Goto(t, from, to), from \notin Dead, to \notin Dead, to # "wait",
         workerscount' = workerscount,
         t \in Workers \/ wakeup' = 1 \/ UNCHANGED <<ready, destroyworkers, wakeup>>
  PROVE  WorkersExact' /\ NoLostWakeup'
<1>1. pc \in [Threads -> PCs]
  BY DEF WorkerInv, TypeInv, TypeOK
<1>2. Alive' = Alive
  BY <1>1 DEF Goto, Alive, Dead, Threads
<1>3. WorkersExact'
  BY <1>2 DEF WorkerInv, WorkersExact
<1>4. CASE t \in Workers
  <2>1. t \in Alive' /\ pc'[t] # "wait"
    BY <1>1, <1>4 DEF Goto, Alive, Dead
  <2> QED
    BY <2>1, <1>3 DEF NoLostWakeup
<1>5. CASE wakeup' = 1
  BY <1>3, <1>5 DEF NoLostWakeup
<1>6. CASE t \notin Workers /\ UNCHANGED <<ready, destroyworkers, wakeup>>
  <2>1. \A w \in Alive : pc'[w] = pc[w]
    BY <1>1, <1>6 DEF Goto, Alive, Threads
  <2> QED
    BY <2>1, <1>2, <1>3, <1>6 DEF WorkerInv, NoLostWakeup
<1> QED
  BY <1>4, <1>5, <1>6

\* A step that changes nothing workers look at.
LEMMA QuietStep ==
  ASSUME WorkerInv, UNCHANGED <<ready, destroyworkers, wakeup, workerscount>>,
         Alive' = Alive, \A w \in Alive : pc'[w] = pc[w]
  PROVE  WorkersExact' /\ NoLostWakeup'
BY DEF WorkerInv, WorkersExact, NoLostWakeup

LEMMA WorkerStepWorkers ==
  ASSUME WorkerInv, NEW w \in Workers, WorkerStep(w)
  PROVE  WorkersExact' /\ NoLostWakeup'
<1> USE SchedAssumption DEF SchedAssumption, Threads
<1>1. CASE GoIdle(w)
  <2>1. Alive' = Alive
    BY <1>1 DEF GoIdle, Goto, Alive, WorkerInv, TypeInv, TypeOK
  <2>2. workerscount' = workerscount /\ ready' = <<>> /\ ~(destroyworkers' > 0)
    BY <1>1 DEF GoIdle, schedVars, WorkerInv, TypeInv, TypeOK
  <2> QED
    BY <2>1, <2>2 DEF WorkerInv, WorkersExact, NoLostWakeup
<1>2. CASE WakeUp(w)
  BY <1>2, LiveMove DEF WakeUp, Dead
<1>3. CASE Destroy(w)
  <2>1. Alive' = Alive \ {w} /\ w \in Alive
    BY <1>3 DEF Destroy, Goto, Alive, WorkerInv, TypeInv, TypeOK
  <2>2. Cardinality(Alive') = Cardinality(Alive) - 1
    BY <2>1, AliveFinite, FS_RemoveElement
  <2> QED
    BY <1>3, <2>2 DEF Destroy, PostWakeup, WorkerInv, WorkersExact, NoLostWakeup
<1>4. CASE PostExit(w)
  <2>1. Alive' = Alive /\ \A v \in Alive : pc'[v] = pc[v]
    BY <1>4 DEF PostExit, Goto, Alive, WorkerInv, TypeInv, TypeOK
  <2> QED
    BY <1>4, <2>1, QuietStep DEF PostExit, schedVars
<1>5. CASE DeleteThread(w)
  <2>1. Alive' = Alive /\ \A v \in Alive : pc'[v] = pc[v]
    BY <1>5 DEF DeleteThread, Goto, Alive, WorkerInv, TypeInv, TypeOK
  <2> QED
    BY <1>5, <2>1, QuietStep DEF DeleteThread, schedVars
<1>6. CASE Take(w)
  BY <1>6, LiveMove DEF Take, Dead
<1>7. CASE Retire(w)
  BY <1>7, LiveMove DEF Retire, schedVars, Dead
<1>8. CASE DecLpcount(w)
  BY <1>8, LiveMove DEF DecLpcount, schedVars, Dead
<1>9. CASE Park(w)
  BY <1>9, LiveMove DEF Park, schedVars, Dead
<1>10. CASE Requeue(w)
  BY <1>10, LiveMove DEF Requeue, Dead
<1> QED
  BY <1>1, <1>2, <1>3, <1>4, <1>5, <1>6, <1>7, <1>8, <1>9, <1>10 DEF WorkerStep

LEMMA ReturnWorkers ==
  ASSUME WorkerInv, NEW w \in Workers, Return(w)
  PROVE  WorkersExact' /\ NoLostWakeup'
<1> USE SchedAssumption DEF SchedAssumption, Threads
<1>1. CASE Finish(w)
  BY <1>1, LiveMove DEF Finish, schedVars, Dead
<1>2. CASE Fail(w)
  BY <1>2, LiveMove DEF Fail, schedVars, Dead
<1>3. CASE Yield(w)
  BY <1>3, LiveMove DEF Yield, schedVars, Dead
<1>4. CASE \E wish \in {"BLOCKED_SEND", "BLOCKED_RECV"} : Block(w, wish)
  BY <1>4, LiveMove DEF Block, schedVars, Dead
<1> QED
  BY <1>1, <1>2, <1>3, <1>4 DEF Return

LEMMA NewprocStepWorkers ==
  ASSUME WorkerInv, NEW t \in Threads, NewprocStep(t)
  PROVE  WorkersExact' /\ NoLostWakeup'
<1>1. CASE NewprocLock(t)
  BY <1>1, LiveMove DEF NewprocLock, schedVars, Dead
<1>2. CASE NewprocReuse(t)
  BY <1>2, LiveMove DEF NewprocReuse, schedVars, Dead
<1>3. CASE \E p \in Procs, h \in Handles : NewprocCreate(t, p, h)
  BY <1>3, LiveMove DEF NewprocCreate, schedVars, Dead
<1>4. CASE NewprocLoaded(t)
  BY <1>4, LiveMove DEF NewprocLoaded, schedVars, Dead
<1>5. CASE NewprocBadCode(t)
  BY <1>5, LiveMove DEF NewprocBadCode, schedVars, Dead
<1>6. CASE NewprocBadUpvalue(t)
  BY <1>6, LiveMove DEF NewprocBadUpvalue, schedVars, Dead
<1>7. CASE NewprocUndo(t)
  BY <1>7, LiveMove DEF NewprocUndo, schedVars, Dead
<1>8. CASE NewprocInc(t)
  BY <1>8, LiveMove DEF NewprocInc, schedVars, Dead
<1>9. CASE NewprocQueue(t)
  BY <1>9, LiveMove DEF NewprocQueue, QueueProc, PostWakeup, Dead
<1> QED
  BY <1>1, <1>2, <1>3, <1>4, <1>5, <1>6, <1>7, <1>8, <1>9 DEF NewprocStep

LEMMA CallStepWorkers ==
  ASSUME WorkerInv, NEW t \in Threads, CallStep(t)
  PROVE  WorkersExact' /\ NoLostWakeup'
<1>1. CASE NewprocStep(t)
  BY <1>1, NewprocStepWorkers
<1>2. CASE Wake(t)
  BY <1>2, LiveMove DEF Wake, QueueProc, PostWakeup, Dead
<1>3. CASE \E max \in RecycleLimits : RecycleSet(t, max)
  BY <1>3, LiveMove DEF RecycleSet, schedVars, Dead
<1>4. CASE SchedWait(t)
  BY <1>4, LiveMove DEF SchedWait, schedVars, Dead
<1> QED
  BY <1>1, <1>2, <1>3, <1>4 DEF CallStep

LEMMA CallWorkers ==
  ASSUME WorkerInv, NEW t \in Threads, Call(t)
  PROVE  WorkersExact' /\ NoLostWakeup'
<1> USE SchedAssumption DEF SchedAssumption, Threads
<1>1. CASE CallNewproc(t)
  BY <1>1, LiveMove DEF CallNewproc, schedVars, Dead
<1>2. CASE \E p \in Procs : Unpark(t, p)
  BY <1>2, LiveMove DEF Unpark, schedVars, Dead
<1>3. CASE \E n \in Targets, started \in SUBSET Workers : Grow(t, n, started)
  <2>1. PICK n \in Targets, started \in SUBSET Workers : Grow(t, n, started)
    BY <1>3
  <2>2. Alive' = Alive \cup started /\ Alive \cap started = {}
    BY <2>1 DEF Grow, Alive
  <2>3. IsFiniteSet(started) /\ Cardinality(started) \in Nat
    BY FS_Subset, FS_CardinalityType
  <2>4. Cardinality(Alive') = Cardinality(Alive) + Cardinality(started)
    <3>1. Cardinality(Alive \cap started) = 0
      BY <2>2, FS_EmptySet
    <3>2. Cardinality(Alive) \in Nat
      BY AliveFinite, FS_CardinalityType
    <3>3. Cardinality(Alive \cup started)
            = Cardinality(Alive) + Cardinality(started)
                - Cardinality(Alive \cap started)
      BY <2>3, AliveFinite, FS_Union, Zenon
    <3> QED
      BY <2>2, <2>3, <3>1, <3>2, <3>3
  <2>5. WorkersExact'
    BY <2>1, <2>4 DEF Grow, GrownCount, WorkerInv, WorkersExact
  <2>6. CASE started = {}
    <3>1. Alive' = Alive /\ \A w \in Alive : pc'[w] = pc[w]
      BY <2>1, <2>2, <2>6 DEF Grow, Alive
    <3> QED
      BY <2>1, <2>5, <3>1 DEF Grow, WorkerInv, NoLostWakeup
  <2>7. CASE started # {}
    <3>1. \A w \in started : pc'[w] = "loop"
      BY <2>1 DEF Grow
    <3> QED
      BY <2>2, <2>5, <2>7, <3>1 DEF NoLostWakeup
  <2> QED
    BY <2>6, <2>7
<1>4. CASE \E n \in Targets : Shrink(t, n)
  <2>1. Alive' = Alive
    BY <1>4 DEF Shrink, threadVars, Alive
  <2> QED
    BY <1>4, <2>1 DEF Shrink, PostWakeup, WorkerInv, WorkersExact, NoLostWakeup
<1>5. CASE CallRecycle(t)
  BY <1>5, LiveMove DEF CallRecycle, schedVars, Dead
<1>6. CASE CallWait(t)
  BY <1>6, LiveMove DEF CallWait, schedVars, Dead
<1> QED
  BY <1>1, <1>2, <1>3, <1>4, <1>5, <1>6 DEF Call

LEMMA JoinStepWorkers ==
  ASSUME WorkerInv, JoinStep \/ CallJoin
  PROVE  WorkersExact' /\ NoLostWakeup'
<1> USE SchedAssumption DEF SchedAssumption, Threads
<1>1. CASE JoinMark
  BY <1>1, LiveMove DEF JoinMark, PostWakeup, Dead
<1>2. CASE \E w \in Workers : JoinOne(w)
  <2>1. Alive' = Alive /\ \A w \in Alive : pc'[w] = pc[w]
    BY <1>2 DEF JoinOne, threadVars, Alive
  <2> QED
    BY <1>2, <2>1, QuietStep DEF JoinOne, schedVars
<1>3. CASE JoinEnd
  BY <1>3, LiveMove DEF JoinEnd, schedVars, Dead
<1>4. CASE CallJoin
  BY <1>4, LiveMove DEF CallJoin, schedVars, Dead
<1> QED
  BY <1>1, <1>2, <1>3, <1>4 DEF JoinStep

LEMMA WorkerInvCorrect == Spec => []WorkerInv
<1>1. WorkerInv /\ [Next]_vars => WorkerInv'
  <2> SUFFICES ASSUME WorkerInv, [Next]_vars PROVE WorkerInv'
    OBVIOUS
  <2>1. TypeInv'
    BY TypeInvStep DEF WorkerInv
  <2>2. CASE Next
    BY <2>1, <2>2, WorkerStepWorkers, ReturnWorkers, CallStepWorkers,
       CallWorkers, JoinStepWorkers DEF Next, WorkerInv
  <2>3. CASE UNCHANGED vars
    <3>1. Alive' = Alive /\ \A w \in Alive : pc'[w] = pc[w]
      BY <2>3 DEF vars, threadVars, Alive
    <3> QED
      BY <2>1, <2>3, <3>1, QuietStep DEF vars, schedVars, WorkerInv
  <2> QED
    BY <2>2, <2>3
<1> QED
  BY <1>1, InitWorkerInv, PTL DEF Spec

\* workerscount is the number of workers created and not destroyed, whatever
\* mixture of setnumworkers, failed thread creations and exits is executed.
THEOREM WorkersCounted == Spec => []WorkersExact
<1>1. WorkerInv => WorkersExact
  BY DEF WorkerInv
<1> QED
  BY <1>1, WorkerInvCorrect, PTL

\* No wakeup is lost: workers never all wait while there is work for them.
THEOREM WakeupNeverLost == Spec => []NoLostWakeup
<1>1. WorkerInv => NoLostWakeup
  BY DEF WorkerInv
<1> QED
  BY <1>1, WorkerInvCorrect, PTL
=============================================================================
