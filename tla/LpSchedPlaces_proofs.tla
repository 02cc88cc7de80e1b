------------------------- MODULE LpSchedPlaces_proofs -------------------------
(***************************************************************************)
(* More proofs about LpSched: every lua process is in one place, lpcount   *)
(* counts the active ones, the scheduler implements ProcPool, and joining  *)
(* the workers is safe unless lua processes start others.                  *)
(***************************************************************************)
EXTENDS LpSched_proofs

-----------------------------------------------------------------------------
(* Lists and slots: what an element leaves or enters. *)

LEMMA AppendPlace ==
  ASSUME NEW S, NEW s \in Seq(S), NEW p \in S
  PROVE  /\ Elements(Append(s, p)) = Elements(s) \cup {p}
         /\ NoRepeats(s) /\ p \notin Elements(s) => NoRepeats(Append(s, p))
<1> DEFINE a == Append(s, p)
<1>1. /\ Len(a) = Len(s) + 1
      /\ \A i \in 1 .. Len(s) : a[i] = s[i]
      /\ a[Len(s) + 1] = p
      /\ Len(s) \in Nat
  OBVIOUS
<1> HIDE DEF a
<1>2. Elements(a) = Elements(s) \cup {p}
  BY <1>1 DEF Elements
<1>3. ASSUME NoRepeats(s), p \notin Elements(s) PROVE NoRepeats(a)
  <2> SUFFICES ASSUME NEW i \in 1 .. Len(a), NEW j \in 1 .. Len(a), a[i] = a[j]
               PROVE  i = j
    BY DEF NoRepeats
  <2> QED
    BY <1>1, <1>3 DEF NoRepeats, Elements
<1> QED
  BY <1>2, <1>3 DEF a

LEMMA SuffixPlace ==
  ASSUME NEW S, NEW s \in Seq(S), NEW k \in 0 .. Len(s), NoRepeats(s)
  PROVE  LET rest == SubSeq(s, k + 1, Len(s))
         IN  /\ Elements(rest) = Elements(s) \ {s[i] : i \in 1 .. k}
             /\ NoRepeats(rest)
<1> DEFINE rest == SubSeq(s, k + 1, Len(s))
<1>1. /\ Len(s) \in Nat /\ k \in Nat
      /\ Len(rest) = Len(s) - k
      /\ \A i \in 1 .. Len(s) - k : rest[i] = s[i + k]
  OBVIOUS
<1> HIDE DEF rest
<1>2. ASSUME NEW x PROVE x \in Elements(rest) <=> x \in Elements(s) \ {s[i] : i \in 1 .. k}
  <2>1. ASSUME x \in Elements(rest) PROVE x \in Elements(s) \ {s[i] : i \in 1 .. k}
    <3>1. PICK i \in 1 .. Len(s) - k : x = s[i + k]
      BY <1>1, <2>1 DEF Elements
    <3>2. i + k \in 1 .. Len(s) /\ i + k \notin 1 .. k
      BY <1>1
    <3> QED
      BY <1>1, <3>1, <3>2 DEF Elements, NoRepeats
  <2>2. ASSUME x \in Elements(s), x \notin {s[i] : i \in 1 .. k}
        PROVE  x \in Elements(rest)
    <3>1. PICK i \in 1 .. Len(s) : x = s[i]
      BY <2>2 DEF Elements
    <3>2. i - k \in 1 .. Len(s) - k /\ (i - k) + k = i
      BY <1>1, <2>2, <3>1
    <3> QED
      BY <1>1, <3>1, <3>2 DEF Elements
  <2> QED
    BY <2>1, <2>2
<1>3. NoRepeats(rest)
  <2> SUFFICES ASSUME NEW i \in 1 .. Len(rest), NEW j \in 1 .. Len(rest),
                      rest[i] = rest[j]
               PROVE  i = j
    BY DEF NoRepeats
  <2>1. i + k \in 1 .. Len(s) /\ j + k \in 1 .. Len(s) /\ s[i + k] = s[j + k]
    BY <1>1
  <2>2. i + k = j + k
    BY <2>1 DEF NoRepeats
  <2> QED
    BY <2>2, <1>1
<1> QED
  BY <1>2, <1>3 DEF rest

LEMMA TailPlace ==
  ASSUME NEW S, NEW s \in Seq(S), s # <<>>, NoRepeats(s)
  PROVE  /\ Head(s) \in Elements(s)
         /\ Elements(Tail(s)) = Elements(s) \ {Head(s)}
         /\ NoRepeats(Tail(s))
<1>1. /\ Len(s) \in Nat /\ 1 \in 0 .. Len(s) /\ 1 \in 1 .. Len(s)
      /\ Tail(s) = SubSeq(s, 1 + 1, Len(s)) /\ Head(s) = s[1]
  OBVIOUS
<1>2. {s[i] : i \in 1 .. 1} = {Head(s)}
  BY <1>1
<1>3. Head(s) \in Elements(s)
  BY <1>1 DEF Elements
<1>4. /\ Elements(SubSeq(s, 1 + 1, Len(s))) = Elements(s) \ {s[i] : i \in 1 .. 1}
      /\ NoRepeats(SubSeq(s, 1 + 1, Len(s)))
  BY <1>1, SuffixPlace, Zenon
<1> QED
  BY <1>1, <1>2, <1>3, <1>4, Zenon

\* The processes in the slots D of f.
Slots(f, D) == {f[d] : d \in D} \ {Nil}

LEMMA FillSlot ==
  ASSUME NEW S, NEW f, NEW g, NEW a \in S, f[a] = Nil, NEW p \in Procs,
         p \notin Slots(f, S), Distinct(f, S),
         g[a] = p, \A t \in S : t # a => g[t] = f[t]
  PROVE  /\ Slots(g, S) = Slots(f, S) \cup {p}
         /\ Distinct(g, S)
BY SchedAssumption DEF Slots, Distinct, SchedAssumption
-----------------------------------------------------------------------------
(* Every process is in one place. *)

Apart(R, U, K, H, Y, F) ==
    /\ \A p : p \in Procs <=> \/ p \in R \/ p \in U \/ p \in K
                             \/ p \in H \/ p \in Y \/ p \in F
    /\ \A p : p \in R => p \notin U /\ p \notin K /\ p \notin H /\ p \notin Y /\ p \notin F
    /\ \A p : p \in U => p \notin K /\ p \notin H /\ p \notin Y /\ p \notin F
    /\ \A p : p \in K => p \notin H /\ p \notin Y /\ p \notin F
    /\ \A p : p \in H => p \notin Y /\ p \notin F
    /\ \A p : p \in Y => p \notin F

InPlaces ==
    /\ NoRepeats(ready)
    /\ NoRepeats(recycle)
    /\ Distinct(cur, Workers)
    /\ Distinct(obj, Threads)
    /\ Apart(Elements(ready), Running, parked, Held, Elements(recycle), Free)

LEMMA InPlacesIsOnePlace == InPlaces => OnePlace
<1> SUFFICES ASSUME InPlaces PROVE OnePlace
  OBVIOUS
<1> DEFINE places == <<Elements(ready), Running, parked, Held,
                       Elements(recycle), Free>>
<1>1. ASSUME NEW i \in 1 .. 6, NEW j \in 1 .. 6, i < j
      PROVE  places[i] \cap places[j] = {}
  BY <1>1 DEF InPlaces, Apart
<1>2. Elements(places) = {Elements(ready), Running, parked, Held,
                          Elements(recycle), Free}
  <2>1. Elements(places) = {places[i] : i \in 1 .. 6}
    BY DEF Elements
  <2> QED
    BY <2>1
<1>3. UNION Elements(places) = Procs
  <2> HIDE DEF places
  <2> QED
    BY <1>2, Zenon DEF InPlaces, Apart
<1> QED
  BY <1>1, <1>3 DEF InPlaces, OnePlace

\* A worker that has resumed no process, and a thread that is not inside newproc
\* or a wakeup, have none in their hands.
CurOut == \A w \in Workers : pc[w] \in Idle => cur[w] = Nil
ObjOut == \A t \in Threads : pc[t] \notin Holding => obj[t] = Nil

PlaceInv == TypeInv /\ CurOut /\ ObjOut /\ InPlaces

\* The workers that are about to decrement lpcount.
Counting == {w \in Workers : pc[w] = "dec"}

\* What a step does to the numbers behind lpcount.
CountStep ==
    \/ /\ Active' = Active
       /\ Counting' = Counting
       /\ lpcount' = lpcount
    \/ \E p \in Procs :
          /\ p \notin Active
          /\ Active' = Active \cup {p}
          /\ Counting' = Counting
          /\ lpcount' = lpcount + 1
    \/ \E p \in Active, w \in Workers \ Counting :
          /\ Active' = Active \ {p}
          /\ Counting' = Counting \cup {w}
          /\ lpcount' = lpcount
    \/ \E w \in Counting :
          /\ Active' = Active
          /\ Counting' = Counting \ {w}
          /\ lpcount' = lpcount - 1

\* What it is in the eyes of the pool.
PoolStep == [Pool!PoolNext]_(Pool!poolVars)

LEMMA RunningSlots == Running = Slots(cur, Workers)
BY DEF Running, Slots

LEMMA HeldSlots == Held = Slots(obj, Threads)
BY DEF Held, Slots

LEMMA WakingHeld == TypeInv => Waking \subseteq Held
BY SchedAssumption
   DEF TypeInv, TypeOK, ObjHeld, Waking, Held, Holding, SchedAssumption

LEMMA InitPlaceInv == Init => PlaceInv
<1> SUFFICES ASSUME Init PROVE PlaceInv
  OBVIOUS
<1>1. CurOut /\ ObjOut
  BY SchedAssumption DEF Init, InitWith, CurOut, ObjOut, Threads, SchedAssumption
<1>2. ready = <<>> /\ recycle = <<>> /\ parked = {} /\ Running = {} /\ Held = {}
  BY DEF Init, InitWith, Running, Held, Threads
<1>3. Elements(<<>>) = {} /\ NoRepeats(<<>>)
  BY DEF Elements, NoRepeats
<1>4. Free = Procs
  BY DEF Init, InitWith, Free
<1>5. Distinct(cur, Workers) /\ Distinct(obj, Threads)
  BY DEF Init, InitWith, Distinct, Threads
<1> QED
  BY <1>1, <1>2, <1>3, <1>4, <1>5, InitTypeInv DEF PlaceInv, InPlaces, Apart
-----------------------------------------------------------------------------
(* A thread takes or gives up a process where its program counter says so. *)

LEMMA WorkerOut ==
  ASSUME PlaceInv, NEW w \in Workers, WorkerStep(w) \/ Return(w)
  PROVE  CurOut' /\ ObjOut'
<1> USE SchedAssumption DEF SchedAssumption, Threads, PlaceInv, TypeInv, TypeOK,
          CurOut, ObjOut, Idle, Holding, Goto
<1>1. CASE GoIdle(w)
  BY <1>1 DEF GoIdle
<1>2. CASE WakeUp(w)
  BY <1>2 DEF WakeUp
<1>3. CASE Destroy(w)
  BY <1>3 DEF Destroy
<1>4. CASE PostExit(w)
  BY <1>4 DEF PostExit
<1>5. CASE DeleteThread(w)
  BY <1>5 DEF DeleteThread
<1>6. CASE Take(w)
  BY <1>6 DEF Take
<1>7. CASE Retire(w)
  BY <1>7 DEF Retire
<1>8. CASE DecLpcount(w)
  BY <1>8 DEF DecLpcount
<1>9. CASE Park(w)
  BY <1>9 DEF Park
<1>10. CASE Requeue(w)
  BY <1>10 DEF Requeue
<1>11. CASE Finish(w)
  BY <1>11 DEF Finish
<1>12. CASE Fail(w)
  BY <1>12 DEF Fail
<1>13. CASE Yield(w)
  BY <1>13 DEF Yield
<1>14. CASE \E wish \in {"BLOCKED_SEND", "BLOCKED_RECV"} : Block(w, wish)
  BY <1>14 DEF Block
<1> QED
  BY <1>1, <1>2, <1>3, <1>4, <1>5, <1>6, <1>7, <1>8, <1>9, <1>10, <1>11, <1>12,
     <1>13, <1>14 DEF WorkerStep, Return

LEMMA LibraryOut ==
  ASSUME PlaceInv, NEW t \in Threads, CallStep(t) \/ Call(t)
  PROVE  CurOut' /\ ObjOut'
<1> USE SchedAssumption DEF SchedAssumption, Threads, PlaceInv, TypeInv, TypeOK,
          CurOut, ObjOut, Idle, Holding, Goto
<1>1. CASE NewprocLock(t)
  BY <1>1 DEF NewprocLock
<1>2. CASE NewprocReuse(t)
  BY <1>2 DEF NewprocReuse
<1>3. CASE \E p \in Procs, h \in Handles : NewprocCreate(t, p, h)
  BY <1>3 DEF NewprocCreate
<1>4. CASE NewprocLoaded(t)
  BY <1>4 DEF NewprocLoaded
<1>5. CASE NewprocBadCode(t)
  BY <1>5 DEF NewprocBadCode
<1>6. CASE NewprocBadUpvalue(t)
  BY <1>6 DEF NewprocBadUpvalue
<1>7. CASE NewprocUndo(t)
  BY <1>7 DEF NewprocUndo
<1>8. CASE NewprocInc(t)
  BY <1>8 DEF NewprocInc
<1>9. CASE NewprocQueue(t)
  BY <1>9 DEF NewprocQueue
<1>10. CASE Wake(t)
  BY <1>10 DEF Wake
<1>11. CASE \E max \in RecycleLimits : RecycleSet(t, max)
  BY <1>11 DEF RecycleSet
<1>12. CASE SchedWait(t)
  BY <1>12 DEF SchedWait
<1>13. CASE CallNewproc(t)
  BY <1>13 DEF CallNewproc
<1>14. CASE \E p \in Procs : Unpark(t, p)
  BY <1>14 DEF Unpark
<1>15. CASE \E n \in Targets, started \in SUBSET Workers : Grow(t, n, started)
  BY <1>15 DEF Grow
<1>16. CASE \E n \in Targets : Shrink(t, n)
  BY <1>16 DEF Shrink, threadVars
<1>17. CASE CallRecycle(t)
  BY <1>17 DEF CallRecycle
<1>18. CASE CallWait(t)
  BY <1>18 DEF CallWait
<1> QED
  BY <1>1, <1>2, <1>3, <1>4, <1>5, <1>6, <1>7, <1>8, <1>9, <1>10, <1>11, <1>12,
     <1>13, <1>14, <1>15, <1>16, <1>17, <1>18 DEF CallStep, NewprocStep, Call

LEMMA JoinOut ==
  ASSUME PlaceInv, JoinStep \/ CallJoin
  PROVE  CurOut' /\ ObjOut'
<1> USE SchedAssumption DEF SchedAssumption, Threads, PlaceInv, TypeInv, TypeOK,
          CurOut, ObjOut, Idle, Holding, Goto
<1>1. CASE JoinMark
  BY <1>1 DEF JoinMark
<1>2. CASE \E w \in Workers : JoinOne(w)
  BY <1>2 DEF JoinOne, threadVars
<1>3. CASE JoinEnd
  BY <1>3 DEF JoinEnd
<1>4. CASE CallJoin
  BY <1>4 DEF CallJoin
<1> QED
  BY <1>1, <1>2, <1>3, <1>4 DEF JoinStep
-----------------------------------------------------------------------------
(* Steps that move no process. *)

\* Elsewhere than at these, a thread's program counter is in no count.
Counted == {"np_queue", "wake", "dec"}

\* What is not free stays so, and nothing is released.
LEMMA SameFree ==
  ASSUME TypeInv, NEW p \in Procs, p \notin Free, NEW s \in Statuses, s # "FREE",
         status' = [status EXCEPT ![p] = s]
  PROVE  Free' = Free
BY DEF TypeInv, TypeOK, Free

LEMMA OneFree ==
  ASSUME TypeInv, NEW p \in Procs, status' = [status EXCEPT ![p] = "FREE"]
  PROVE  Free' = Free \cup {p}
BY DEF TypeInv, TypeOK, Free

LEMMA SameCounts ==
  ASSUME TypeInv, NEW t \in Threads, NEW from, NEW to, Goto(t, from, to),
         from \notin Counted, to \notin Counted,
         \A u \in Threads \ {t} : obj'[u] = obj[u]
  PROVE  Waking' = Waking /\ Counting' = Counting
<1>1. pc \in [Threads -> PCs]
  BY DEF TypeInv, TypeOK
<1>2. \A u \in Threads : u # t => pc'[u] = pc[u]
  BY <1>1 DEF Goto
<1>3. pc[t] \notin Counted /\ pc'[t] \notin Counted
  BY <1>1 DEF Goto
<1> QED
  BY <1>2, <1>3 DEF Waking, Counting, Counted, Threads

LEMMA SamePlaces ==
  ASSUME PlaceInv, UNCHANGED <<ready, recycle, parked, lpcount, cur, obj>>,
         Free' = Free, Waking' = Waking, Counting' = Counting
  PROVE  InPlaces' /\ CountStep /\ PoolStep
<1>1. Running' = Running /\ Held' = Held /\ Active' = Active
  BY DEF Running, Held, Active
<1>2. InPlaces'
  BY <1>1 DEF PlaceInv, InPlaces
<1>3. CountStep
  BY <1>1 DEF CountStep
<1>4. PoolStep
  BY <1>1 DEF PoolStep, Pool!poolVars
<1> QED
  BY <1>2, <1>3, <1>4

LEMMA QuietMove ==
  ASSUME PlaceInv, NEW t \in Threads, NEW from, NEW to, Goto(t, from, to),
         from \notin Counted, to \notin Counted, Free' = Free,
         UNCHANGED <<ready, recycle, parked, lpcount, cur, obj>>
  PROVE  InPlaces' /\ CountStep /\ PoolStep
<1>1. Waking' = Waking /\ Counting' = Counting
  BY SameCounts DEF PlaceInv
<1> QED
  BY <1>1, SamePlaces
-----------------------------------------------------------------------------
(* Steps of a worker that move a process. *)

LEMMA TakeMoves ==
  ASSUME PlaceInv, NEW w \in Workers, Take(w)
  PROVE  InPlaces' /\ CountStep /\ PoolStep
<1> DEFINE p == Head(ready)
<1>1. /\ ready \in Seq(Procs) /\ ready # <<>> /\ NoRepeats(ready)
      /\ Distinct(cur, Workers) /\ w \in Threads
      /\ cur \in [Threads -> Procs \cup {Nil}] /\ Workers \subseteq Threads
  BY DEF Take, PlaceInv, InPlaces, TypeInv, TypeOK, Threads
<1>2. /\ p \in Procs /\ p \in Elements(ready)
      /\ Elements(ready') = Elements(ready) \ {p} /\ NoRepeats(ready')
  BY <1>1, TailPlace DEF Take
<1>3. cur[w] = Nil /\ p \notin Running
  BY <1>2 DEF Take, Goto, PlaceInv, CurOut, Idle, InPlaces, Apart
<1>4. Running' = Running \cup {p} /\ Distinct(cur', Workers)
  <2>1. cur'[w] = p /\ \A v \in Workers : v # w => cur'[v] = cur[v]
    BY <1>1 DEF Take
  <2>2. p \notin Slots(cur, Workers)
    BY <1>3, RunningSlots
  <2>3. Slots(cur', Workers) = Slots(cur, Workers) \cup {p}
        /\ Distinct(cur', Workers)
    BY <1>1, <1>2, <1>3, <2>1, <2>2, FillSlot
  <2> QED
    BY <2>3 DEF Running, Slots
<1>5. Held' = Held /\ Free' = Free /\ UNCHANGED <<parked, recycle, lpcount, obj>>
  BY DEF Take, Held, Free, procVars, recycleVars
<1>6. Waking' = Waking /\ Counting' = Counting
  BY <1>1, SameCounts DEF Take, PlaceInv, Counted
<1>7. InPlaces'
  BY <1>2, <1>4, <1>5 DEF PlaceInv, InPlaces, Apart
<1>8. Active' = Active
  BY <1>2, <1>4, <1>5, <1>6 DEF Active
<1>9. Pool!Dispatch
  BY <1>4, <1>5, <1>6, <1>8 DEF Take, Pool!Dispatch
<1> QED
  BY <1>5, <1>6, <1>7, <1>8, <1>9 DEF CountStep, PoolStep, Pool!PoolNext

\* A worker whose process ends, fails, parks or goes back to the queue gives it up.
LEMMA GiveUp ==
  ASSUME PlaceInv, NEW w \in Workers, cur[w] \in Procs,
         cur' = [cur EXCEPT ![w] = Nil]
  PROVE  /\ cur[w] \in Running
         /\ Running' = Running \ {cur[w]}
         /\ Distinct(cur', Workers)
<1>1. /\ Distinct(cur, Workers) /\ cur'[w] = Nil
      /\ \A v \in Workers : v # w => cur'[v] = cur[v]
  BY DEF PlaceInv, InPlaces, TypeInv, TypeOK, Threads
<1>2. /\ cur[w] \in Slots(cur, Workers)
      /\ Slots(cur', Workers) = Slots(cur, Workers) \ {cur[w]}
      /\ Distinct(cur', Workers)
  BY <1>1, SchedAssumption DEF Slots, Distinct, SchedAssumption
<1> QED
  BY <1>2 DEF Running, Slots

\* One process ends: it is recycled or released.
LEMMA EndMoves ==
  ASSUME PlaceInv, NEW w \in Workers, NEW from, Goto(w, from, "dec"),
         from \notin Idle, from \notin Counted,
         cur' = [cur EXCEPT ![w] = Nil],
         UNCHANGED <<ready, parked, lpcount, obj>>,
         NoRepeats(recycle'),
         \/ Elements(recycle') = Elements(recycle) \cup {cur[w]} /\ Free' = Free
         \/ recycle' = recycle /\ Free' = Free \cup {cur[w]}
  PROVE  InPlaces' /\ CountStep /\ PoolStep
<1> DEFINE p == cur[w]
<1>1. /\ pc \in [Threads -> PCs] /\ w \in Threads /\ Workers \subseteq Threads
      /\ p \in Procs /\ pc[w] = from
  BY DEF PlaceInv, TypeInv, TypeOK, CurHeld, Threads, Goto
<1>2. p \in Running /\ Running' = Running \ {p} /\ Distinct(cur', Workers)
  BY <1>1, GiveUp
<1>3. Held' = Held
  BY DEF Held
<1>4. Waking' = Waking
  BY <1>1 DEF Waking, Goto, Counted
<1>5. w \notin Counting /\ Counting' = Counting \cup {w}
  BY <1>1 DEF Counting, Goto, Idle
<1>6. InPlaces'
  BY <1>1, <1>2, <1>3 DEF PlaceInv, InPlaces, Apart
<1>7. p \notin Elements(ready) /\ p \notin parked /\ p \notin Waking
  BY <1>2, WakingHeld DEF PlaceInv, InPlaces, Apart
<1>8. p \in Active /\ Active' = Active \ {p}
  BY <1>2, <1>4, <1>7 DEF Active
<1>9. Pool!End(p)
  BY <1>2, <1>4, <1>8 DEF Pool!End
<1> QED
  BY <1>1, <1>5, <1>6, <1>8, <1>9 DEF CountStep, PoolStep, Pool!PoolNext

LEMMA RecycleInsertPlace ==
  ASSUME PlaceInv, NEW p \in Procs, p \notin Elements(recycle), p \notin Free,
         RecycleInsert(p)
  PROVE  /\ NoRepeats(recycle')
         /\ \/ Elements(recycle') = Elements(recycle) \cup {p} /\ Free' = Free
            \/ recycle' = recycle /\ Free' = Free \cup {p}
<1>1. recycle \in Seq(Procs) /\ NoRepeats(recycle)
  BY DEF PlaceInv, InPlaces, TypeInv, TypeOK
<1>2. CASE Len(recycle) >= recyclemax
  BY <1>1, <1>2, OneFree DEF RecycleInsert, PlaceInv
<1>3. CASE ~(Len(recycle) >= recyclemax)
  <2>1. recycle' = Append(recycle, p) /\ Free' = Free
    BY <1>3 DEF RecycleInsert, Free
  <2>2. Elements(Append(recycle, p)) = Elements(recycle) \cup {p}
        /\ NoRepeats(Append(recycle, p))
    BY <1>1, AppendPlace
  <2> QED
    BY <2>1, <2>2
<1> QED
  BY <1>2, <1>3

LEMMA RetireMoves ==
  ASSUME PlaceInv, NEW w \in Workers, Retire(w)
  PROVE  InPlaces' /\ CountStep /\ PoolStep
<1>1. cur[w] \in Procs
  BY DEF Retire, Goto, PlaceInv, TypeInv, CurHeld, Idle
<1>2. cur[w] \in Running
  BY <1>1, GiveUp DEF Retire
<1>3. cur[w] \notin Elements(recycle) /\ cur[w] \notin Free
  BY <1>2 DEF PlaceInv, InPlaces, Apart
<1>4. /\ NoRepeats(recycle')
      /\ \/ Elements(recycle') = Elements(recycle) \cup {cur[w]} /\ Free' = Free
         \/ recycle' = recycle /\ Free' = Free \cup {cur[w]}
  BY <1>1, <1>3, RecycleInsertPlace DEF Retire
<1> QED
  BY <1>4, EndMoves DEF Retire, schedVars, Idle, Counted

LEMMA FailMoves ==
  ASSUME PlaceInv, NEW w \in Workers, Fail(w)
  PROVE  InPlaces' /\ CountStep /\ PoolStep
<1>1. cur[w] \in Procs
  BY DEF Fail, Goto, PlaceInv, TypeInv, CurHeld, Idle
<1>2. Free' = Free \cup {cur[w]} /\ recycle' = recycle /\ NoRepeats(recycle')
  BY <1>1, OneFree DEF Fail, PlaceInv, InPlaces, recycleVars
<1> QED
  BY <1>2, EndMoves DEF Fail, schedVars, Idle, Counted

LEMMA ParkMoves ==
  ASSUME PlaceInv, NEW w \in Workers, Park(w)
  PROVE  InPlaces' /\ CountStep /\ PoolStep
<1> DEFINE p == cur[w]
<1>1. p \in Procs
  BY DEF Park, Goto, PlaceInv, TypeInv, CurHeld, Idle
<1>2. p \in Running /\ Running' = Running \ {p} /\ Distinct(cur', Workers)
  BY <1>1, GiveUp DEF Park
<1>3. Held' = Held /\ Free' = Free /\ UNCHANGED <<ready, recycle, lpcount, obj>>
  BY DEF Park, Held, Free, schedVars, recycleVars
<1>4. Waking' = Waking /\ Counting' = Counting
  BY SameCounts DEF Park, PlaceInv, Counted, Threads
<1>5. parked' = parked \cup {p}
  BY DEF Park
<1>6. InPlaces'
  BY <1>1, <1>2, <1>3, <1>5 DEF PlaceInv, InPlaces, Apart
<1>7. Active' = Active
  BY <1>2, <1>3, <1>4, <1>5 DEF Active
<1>8. Pool!Park(p)
  BY <1>2, <1>3, <1>4, <1>5, <1>7 DEF Pool!Park
<1> QED
  BY <1>1, <1>3, <1>4, <1>6, <1>7, <1>8 DEF CountStep, PoolStep, Pool!PoolNext

LEMMA RequeueMoves ==
  ASSUME PlaceInv, NEW w \in Workers, Requeue(w)
  PROVE  InPlaces' /\ CountStep /\ PoolStep
<1> DEFINE p == cur[w]
<1>1. p \in Procs
  BY DEF Requeue, Goto, PlaceInv, TypeInv, CurHeld, Idle
<1>2. p \in Running /\ Running' = Running \ {p} /\ Distinct(cur', Workers)
  BY <1>1, GiveUp DEF Requeue
<1>3. Held' = Held /\ Free' = Free /\ UNCHANGED <<parked, recycle, lpcount, obj>>
  BY DEF Requeue, Held, Free, procVars, recycleVars
<1>4. Waking' = Waking /\ Counting' = Counting
  BY SameCounts DEF Requeue, PlaceInv, Counted, Threads
<1>5. ready' = Append(ready, p) /\ ready \in Seq(Procs)
      /\ p \notin Elements(ready) /\ NoRepeats(ready)
  BY <1>2 DEF Requeue, PlaceInv, TypeInv, TypeOK, InPlaces, Apart
<1>6. Elements(ready') = Elements(ready) \cup {p} /\ NoRepeats(ready')
  BY <1>1, <1>5, AppendPlace
<1>7. InPlaces'
  BY <1>1, <1>2, <1>3, <1>6 DEF PlaceInv, InPlaces, Apart
<1>8. Active' = Active
  BY <1>2, <1>3, <1>4, <1>6 DEF Active
<1>9. Pool!Yield(p)
  BY <1>2, <1>3, <1>4, <1>5, <1>8 DEF Pool!Yield
<1> QED
  BY <1>1, <1>3, <1>4, <1>7, <1>8, <1>9 DEF CountStep, PoolStep, Pool!PoolNext
-----------------------------------------------------------------------------
(* Steps of the library that move a process. *)

LEMMA LetGo ==
  ASSUME PlaceInv, NEW t \in Threads, obj[t] \in Procs,
         obj' = [obj EXCEPT ![t] = Nil]
  PROVE  /\ obj[t] \in Held
         /\ Held' = Held \ {obj[t]}
         /\ Distinct(obj', Threads)
         /\ \A u \in Threads : u # t => obj'[u] = obj[u] /\ obj[u] # obj[t]
<1>1. /\ Distinct(obj, Threads) /\ obj'[t] = Nil
      /\ \A u \in Threads : u # t => obj'[u] = obj[u]
  BY DEF PlaceInv, InPlaces, TypeInv, TypeOK
<1>2. /\ obj[t] \in Slots(obj, Threads)
      /\ Slots(obj', Threads) = Slots(obj, Threads) \ {obj[t]}
      /\ Distinct(obj', Threads)
  BY <1>1, SchedAssumption DEF Slots, Distinct, SchedAssumption
<1>3. \A u \in Threads : u # t => obj[u] # obj[t]
  BY <1>1, SchedAssumption DEF Distinct, SchedAssumption
<1> QED
  BY <1>1, <1>2, <1>3 DEF Held, Slots

LEMMA Grasp ==
  ASSUME PlaceInv, NEW t \in Threads, pc[t] \notin Holding, NEW p \in Procs,
         p \notin Held, obj' = [obj EXCEPT ![t] = p]
  PROVE  /\ Held' = Held \cup {p}
         /\ Distinct(obj', Threads)
         /\ \A u \in Threads \ {t} : obj'[u] = obj[u]
<1>1. /\ Distinct(obj, Threads) /\ obj[t] = Nil /\ obj'[t] = p
      /\ \A u \in Threads : u # t => obj'[u] = obj[u]
  BY DEF PlaceInv, InPlaces, TypeInv, TypeOK, ObjOut
<1>2. p \notin Slots(obj, Threads)
  BY HeldSlots
<1>3. /\ Slots(obj', Threads) = Slots(obj, Threads) \cup {p}
      /\ Distinct(obj', Threads)
  BY <1>1, <1>2, SchedAssumption DEF Slots, Distinct, SchedAssumption
<1> QED
  BY <1>1, <1>3 DEF Held, Slots

\* newproc gets a process, recycled or new, or gives it back: nothing active moves.
LEMMA NewprocMoves ==
  ASSUME PlaceInv, NEW t \in Threads, NEW from, NEW to, Goto(t, from, to),
         from \notin Counted, to \notin Counted,
         \A u \in Threads \ {t} : obj'[u] = obj[u],
         UNCHANGED <<ready, parked, lpcount, cur>>, InPlaces'
  PROVE  CountStep /\ PoolStep
<1>1. Waking' = Waking /\ Counting' = Counting
  BY SameCounts DEF PlaceInv
<1>2. Running' = Running
  BY DEF Running
<1>3. Active' = Active
  BY <1>1, <1>2 DEF Active
<1> QED
  BY <1>1, <1>2, <1>3 DEF CountStep, PoolStep, Pool!poolVars

LEMMA ReuseMoves ==
  ASSUME PlaceInv, NEW t \in Threads, NewprocReuse(t)
  PROVE  InPlaces' /\ CountStep /\ PoolStep
<1> DEFINE p == Head(recycle)
<1>1. recycle \in Seq(Procs) /\ recycle # <<>> /\ NoRepeats(recycle)
  BY DEF NewprocReuse, PlaceInv, InPlaces, TypeInv, TypeOK
<1>2. /\ p \in Procs /\ p \in Elements(recycle)
      /\ Elements(recycle') = Elements(recycle) \ {p} /\ NoRepeats(recycle')
  BY <1>1, TailPlace DEF NewprocReuse
<1>3. p \notin Held /\ p \notin Free
  BY <1>2 DEF PlaceInv, InPlaces, Apart
<1>4. pc[t] \notin Holding
  BY DEF NewprocReuse, Goto, Holding
<1>5. /\ Held' = Held \cup {p} /\ Distinct(obj', Threads)
      /\ \A u \in Threads \ {t} : obj'[u] = obj[u]
  BY <1>2, <1>3, <1>4, Grasp DEF NewprocReuse
<1>6. Free' = Free
  BY <1>2, <1>3, SameFree DEF NewprocReuse, PlaceInv, Statuses
<1>7. UNCHANGED <<ready, parked, lpcount, cur>> /\ Running' = Running
  BY DEF NewprocReuse, schedVars, Running
<1>8. InPlaces'
  BY <1>2, <1>5, <1>6, <1>7 DEF PlaceInv, InPlaces, Apart
<1> QED
  BY <1>5, <1>7, <1>8, NewprocMoves DEF NewprocReuse, Counted

LEMMA CreateMoves ==
  ASSUME PlaceInv, NEW t \in Threads, NEW p \in Procs, NEW h \in Handles,
         NewprocCreate(t, p, h)
  PROVE  InPlaces' /\ CountStep /\ PoolStep
<1>1. p \in Free
  BY DEF NewprocCreate, Free
<1>2. p \notin Held
  BY <1>1 DEF PlaceInv, InPlaces, Apart
<1>3. pc[t] \notin Holding
  BY DEF NewprocCreate, Goto, Holding
<1>4. /\ Held' = Held \cup {p} /\ Distinct(obj', Threads)
      /\ \A u \in Threads \ {t} : obj'[u] = obj[u]
  BY <1>2, <1>3, Grasp DEF NewprocCreate
<1>5. Free' = Free \ {p}
  BY DEF NewprocCreate, Free, PlaceInv, TypeInv, TypeOK
<1>6. UNCHANGED <<ready, recycle, parked, lpcount, cur>> /\ Running' = Running
  BY DEF NewprocCreate, schedVars, Running
<1>7. InPlaces'
  BY <1>1, <1>4, <1>5, <1>6 DEF PlaceInv, InPlaces, Apart
<1> QED
  BY <1>4, <1>6, <1>7, NewprocMoves DEF NewprocCreate, Counted

LEMMA BadCodeMoves ==
  ASSUME PlaceInv, NEW t \in Threads, NewprocBadCode(t)
  PROVE  InPlaces' /\ CountStep /\ PoolStep
<1>1. obj[t] \in Procs
  BY DEF NewprocBadCode, Goto, PlaceInv, TypeInv, ObjHeld, Holding
<1>2. /\ obj[t] \in Held /\ Held' = Held \ {obj[t]} /\ Distinct(obj', Threads)
      /\ \A u \in Threads \ {t} : obj'[u] = obj[u]
  BY <1>1, LetGo DEF NewprocBadCode
<1>3. Free' = Free \cup {obj[t]}
  BY <1>1, OneFree DEF NewprocBadCode, PlaceInv
<1>4. UNCHANGED <<ready, recycle, parked, lpcount, cur>> /\ Running' = Running
  BY DEF NewprocBadCode, schedVars, recycleVars, Running
<1>5. InPlaces'
  BY <1>1, <1>2, <1>3, <1>4 DEF PlaceInv, InPlaces, Apart
<1> QED
  BY <1>2, <1>4, <1>5, NewprocMoves DEF NewprocBadCode, Counted

LEMMA UndoMoves ==
  ASSUME PlaceInv, NEW t \in Threads, NewprocUndo(t)
  PROVE  InPlaces' /\ CountStep /\ PoolStep
<1>1. obj[t] \in Procs
  BY DEF NewprocUndo, Goto, PlaceInv, TypeInv, ObjHeld, Holding
<1>2. /\ obj[t] \in Held /\ Held' = Held \ {obj[t]} /\ Distinct(obj', Threads)
      /\ \A u \in Threads \ {t} : obj'[u] = obj[u]
  BY <1>1, LetGo DEF NewprocUndo
<1>3. obj[t] \notin Elements(recycle) /\ obj[t] \notin Free
  BY <1>2 DEF PlaceInv, InPlaces, Apart
<1>4. /\ NoRepeats(recycle')
      /\ \/ Elements(recycle') = Elements(recycle) \cup {obj[t]} /\ Free' = Free
         \/ recycle' = recycle /\ Free' = Free \cup {obj[t]}
  BY <1>1, <1>3, RecycleInsertPlace DEF NewprocUndo
<1>5. UNCHANGED <<ready, parked, lpcount, cur>> /\ Running' = Running
  BY DEF NewprocUndo, schedVars, Running
<1>6. InPlaces'
  BY <1>1, <1>2, <1>4, <1>5 DEF PlaceInv, InPlaces, Apart
<1> QED
  BY <1>2, <1>5, <1>6, NewprocMoves DEF NewprocUndo, Counted
LEMMA IncMoves ==
  ASSUME PlaceInv, NEW t \in Threads, NewprocInc(t)
  PROVE  InPlaces' /\ CountStep /\ PoolStep
<1> DEFINE p == obj[t]
<1>1. /\ pc \in [Threads -> PCs] /\ pc[t] = "np_inc" /\ pc'[t] = "np_queue"
      /\ \A u \in Threads : u # t => pc'[u] = pc[u]
  BY DEF NewprocInc, Goto, PlaceInv, TypeInv, TypeOK
<1>2. p \in Procs /\ p \in Held
  BY <1>1, SchedAssumption
     DEF PlaceInv, TypeInv, ObjHeld, Holding, Held, SchedAssumption
<1>3. UNCHANGED <<ready, recycle, parked, cur, obj, status>>
  BY DEF NewprocInc, schedVars, recycleVars
<1>4. Running' = Running /\ Held' = Held /\ Free' = Free
  BY <1>3 DEF Running, Held, Free
<1>5. InPlaces'
  BY <1>3, <1>4 DEF PlaceInv, InPlaces
<1>6. \A u \in Threads : u # t => obj[u] # p
  BY <1>2, SchedAssumption DEF PlaceInv, InPlaces, Distinct, SchedAssumption
<1>7. p \notin Waking
  BY <1>1, <1>6 DEF Waking
<1>8. p \notin Active
  BY <1>2, <1>7 DEF Active, PlaceInv, InPlaces, Apart
<1>9. Waking' = Waking \cup {p} /\ Counting' = Counting
  BY <1>1, <1>3 DEF Waking, Counting, Threads
<1>10. Active' = Active \cup {p}
  BY <1>3, <1>4, <1>9 DEF Active
<1>11. Pool!Create(p)
  BY <1>3, <1>4, <1>8, <1>9, <1>10 DEF Pool!Create
<1>12. lpcount' = lpcount + 1
  BY DEF NewprocInc
<1> QED
  BY <1>2, <1>5, <1>8, <1>9, <1>10, <1>11, <1>12
     DEF CountStep, PoolStep, Pool!PoolNext

\* The end of newproc, and of a wakeup.
LEMMA QueueMoves ==
  ASSUME PlaceInv, NEW t \in Threads, NEW from \in {"np_queue", "wake"},
         Goto(t, from, "lua"), QueueProc(obj[t]), obj' = [obj EXCEPT ![t] = Nil],
         UNCHANGED <<parked, lpcount, recycle, cur>>
  PROVE  InPlaces' /\ CountStep /\ PoolStep
<1> DEFINE p == obj[t]
<1>1. /\ pc \in [Threads -> PCs] /\ pc[t] = from /\ pc'[t] = "lua"
      /\ \A u \in Threads : u # t => pc'[u] = pc[u]
  BY DEF Goto, PlaceInv, TypeInv, TypeOK
<1>2. p \in Procs
  BY <1>1 DEF PlaceInv, TypeInv, ObjHeld, Holding
<1>3. /\ p \in Held /\ Held' = Held \ {p} /\ Distinct(obj', Threads)
      /\ \A u \in Threads : u # t => obj'[u] = obj[u] /\ obj[u] # p
  BY <1>2, LetGo
<1>4. /\ ready' = Append(ready, p) /\ ready \in Seq(Procs) /\ NoRepeats(ready)
      /\ p \notin Elements(ready) /\ p \notin Free
  BY <1>3 DEF QueueProc, PlaceInv, InPlaces, Apart, TypeInv, TypeOK
<1>5. Elements(ready') = Elements(ready) \cup {p} /\ NoRepeats(ready')
  BY <1>2, <1>4, AppendPlace
<1>6. Free' = Free
  BY <1>2, <1>4, SameFree DEF QueueProc, PlaceInv, Statuses
<1>7. Running' = Running
  BY DEF Running
<1>8. InPlaces'
  BY <1>2, <1>3, <1>5, <1>6, <1>7 DEF PlaceInv, InPlaces, Apart
<1>9. p \in Waking /\ Waking' = Waking \ {p}
  BY <1>1, <1>3 DEF Waking
<1>10. Counting' = Counting
  BY <1>1 DEF Counting, Threads
<1>11. Active' = Active
  BY <1>5, <1>7, <1>9 DEF Active
<1>12. Pool!Enqueue(p)
  BY <1>4, <1>7, <1>9, <1>11 DEF Pool!Enqueue
<1> QED
  BY <1>2, <1>8, <1>10, <1>11, <1>12 DEF CountStep, PoolStep, Pool!PoolNext

LEMMA UnparkMoves ==
  ASSUME PlaceInv, NEW t \in Threads, NEW p \in Procs, Unpark(t, p)
  PROVE  InPlaces' /\ CountStep /\ PoolStep
<1>1. /\ pc \in [Threads -> PCs] /\ pc[t] = "lua" /\ pc'[t] = "wake"
      /\ \A u \in Threads : u # t => pc'[u] = pc[u]
  BY DEF Unpark, Goto, PlaceInv, TypeInv, TypeOK
<1>2. p \in parked /\ parked' = parked \ {p} /\ p \notin Held
  BY DEF Unpark, PlaceInv, InPlaces, Apart
<1>3. /\ Held' = Held \cup {p} /\ Distinct(obj', Threads)
      /\ \A u \in Threads \ {t} : obj'[u] = obj[u]
  BY <1>1, <1>2, Grasp DEF Unpark, Holding
<1>4. UNCHANGED <<ready, recycle, status, lpcount, cur>>
  BY DEF Unpark, schedVars, recycleVars
<1>5. Running' = Running /\ Free' = Free
  BY <1>4 DEF Running, Free
<1>6. InPlaces'
  BY <1>2, <1>3, <1>4, <1>5 DEF PlaceInv, InPlaces, Apart
<1>7. obj'[t] = p
  BY DEF Unpark, PlaceInv, TypeInv, TypeOK
<1>8. Waking' = Waking \cup {p}
  BY <1>1, <1>3, <1>7 DEF Waking
<1>9. Counting' = Counting
  BY <1>1 DEF Counting, Threads
<1>10. Active' = Active
  BY <1>2, <1>4, <1>5, <1>8 DEF Active
<1>11. Pool!Unpark(p)
  BY <1>2, <1>4, <1>5, <1>8, <1>10 DEF Pool!Unpark
<1> QED
  BY <1>4, <1>6, <1>9, <1>10, <1>11 DEF CountStep, PoolStep, Pool!PoolNext

LEMMA RecycleSetMoves ==
  ASSUME PlaceInv, NEW t \in Threads, NEW max \in RecycleLimits, RecycleSet(t, max)
  PROVE  InPlaces' /\ CountStep /\ PoolStep
<1> DEFINE extra  == IF Len(recycle) > max THEN Len(recycle) - max ELSE 0
           closed == {recycle[i] : i \in 1 .. extra}
<1>1. /\ recycle \in Seq(Procs) /\ NoRepeats(recycle) /\ Len(recycle) \in Nat
      /\ max \in Nat
  BY SchedAssumption DEF PlaceInv, InPlaces, TypeInv, TypeOK, SchedAssumption
<1>2. extra \in 0 .. Len(recycle)
  BY <1>1
<1>3. closed \subseteq Elements(recycle) /\ closed \subseteq Procs
  BY <1>1, <1>2 DEF Elements
<1>4. /\ recycle' = SubSeq(recycle, extra + 1, Len(recycle))
      /\ status' = [p \in Procs |-> IF p \in closed THEN "FREE" ELSE status[p]]
      /\ UNCHANGED <<ready, parked, lpcount, cur, obj>>
  BY DEF RecycleSet, schedVars
<1> HIDE DEF extra
<1>5. Elements(recycle') = Elements(recycle) \ closed /\ NoRepeats(recycle')
  <2>1. /\ Elements(SubSeq(recycle, extra + 1, Len(recycle)))
             = Elements(recycle) \ {recycle[i] : i \in 1 .. extra}
        /\ NoRepeats(SubSeq(recycle, extra + 1, Len(recycle)))
    BY <1>1, <1>2, SuffixPlace, Zenon
  <2> QED
    BY <1>4, <2>1, Zenon
<1> HIDE DEF closed
<1>6. Free' = Free \cup closed
  BY <1>3, <1>4 DEF Free
<1>7. Running' = Running /\ Held' = Held
  BY <1>4 DEF Running, Held
<1>8. InPlaces'
  BY <1>3, <1>4, <1>5, <1>6, <1>7 DEF PlaceInv, InPlaces, Apart
<1> QED
  BY <1>4, <1>8, NewprocMoves DEF RecycleSet, Counted
-----------------------------------------------------------------------------
(* Every step *)

\* What a step that may end a turn does to the status leaves free what is free.
LEMMA RunningNotFree ==
  ASSUME PlaceInv, NEW w \in Workers, pc[w] = "lua"
  PROVE  cur[w] \in Procs /\ cur[w] \notin Free
BY SchedAssumption
   DEF PlaceInv, TypeInv, CurHeld, Idle, Running, InPlaces, Apart, SchedAssumption

LEMMA WorkerMoves ==
  ASSUME PlaceInv, NEW w \in Workers, WorkerStep(w) \/ Return(w)
  PROVE  InPlaces' /\ CountStep /\ PoolStep
<1> USE DEF Counted
<1>0. w \in Threads
  BY DEF Threads
<1>1. CASE GoIdle(w)
  <2>1. Free' = Free
    BY <1>1 DEF GoIdle, procVars, Free
  <2> QED
    BY <1>0, <1>1, <2>1, QuietMove DEF GoIdle, schedVars, procVars, recycleVars
<1>2. CASE WakeUp(w)
  <2>1. Free' = Free
    BY <1>2 DEF WakeUp, procVars, Free
  <2> QED
    BY <1>0, <1>2, <2>1, QuietMove DEF WakeUp, procVars, recycleVars
<1>3. CASE Destroy(w)
  <2>1. Free' = Free
    BY <1>3 DEF Destroy, procVars, Free
  <2> QED
    BY <1>0, <1>3, <2>1, QuietMove DEF Destroy, procVars, recycleVars
<1>4. CASE PostExit(w)
  <2>1. Free' = Free
    BY <1>4 DEF PostExit, procVars, Free
  <2> QED
    BY <1>0, <1>4, <2>1, QuietMove DEF PostExit, schedVars, procVars, recycleVars
<1>5. CASE DeleteThread(w)
  <2>1. Free' = Free
    BY <1>5 DEF DeleteThread, procVars, Free
  <2> QED
    BY <1>0, <1>5, <2>1, QuietMove DEF DeleteThread, schedVars, procVars, recycleVars
<1>6. CASE DecLpcount(w)
  <2>1. /\ UNCHANGED <<ready, recycle, parked, cur, obj, status>>
        /\ lpcount' = lpcount - 1
    BY <1>6 DEF DecLpcount, schedVars, recycleVars
  <2>2. /\ pc \in [Threads -> PCs] /\ pc[w] = "dec" /\ pc'[w] = "loop"
        /\ \A u \in Threads : u # w => pc'[u] = pc[u]
    BY <1>0, <1>6 DEF DecLpcount, Goto, PlaceInv, TypeInv, TypeOK
  <2>3. /\ Running' = Running /\ Held' = Held /\ Free' = Free
        /\ Waking' = Waking
    BY <1>0, <2>1, <2>2 DEF Running, Held, Free, Waking
  <2>4. w \in Counting /\ Counting' = Counting \ {w}
    BY <2>2 DEF Counting, Threads
  <2>5. Active' = Active
    BY <2>1, <2>3 DEF Active
  <2>6. InPlaces'
    BY <2>1, <2>3 DEF PlaceInv, InPlaces
  <2> QED
    BY <2>1, <2>3, <2>4, <2>5, <2>6 DEF CountStep, PoolStep, Pool!poolVars
<1>7. CASE Finish(w)
  <2>1. Free' = Free
    BY <1>7, RunningNotFree, SameFree DEF Finish, Goto, PlaceInv, Statuses
  <2> QED
    BY <1>0, <1>7, <2>1, QuietMove DEF Finish, schedVars, recycleVars
<1>8. CASE Yield(w)
  <2>1. Free' = Free
    BY <1>8 DEF Yield, procVars, Free
  <2> QED
    BY <1>0, <1>8, <2>1, QuietMove DEF Yield, schedVars, procVars, recycleVars
<1>9. CASE \E wish \in {"BLOCKED_SEND", "BLOCKED_RECV"} : Block(w, wish)
  <2>1. PICK wish \in {"BLOCKED_SEND", "BLOCKED_RECV"} : Block(w, wish)
    BY <1>9
  <2>2. Free' = Free
    BY <2>1, RunningNotFree, SameFree DEF Block, Goto, PlaceInv, Statuses
  <2> QED
    BY <1>0, <2>1, <2>2, QuietMove DEF Block, schedVars, recycleVars
<1> QED
  BY <1>1, <1>2, <1>3, <1>4, <1>5, <1>6, <1>7, <1>8, <1>9,
     TakeMoves, RetireMoves, ParkMoves, RequeueMoves, FailMoves
     DEF WorkerStep, Return

LEMMA LibraryMoves ==
  ASSUME PlaceInv, NEW t \in Threads, CallStep(t) \/ Call(t)
  PROVE  InPlaces' /\ CountStep /\ PoolStep
<1> USE DEF Counted
<1>1. CASE NewprocLock(t)
  <2>1. Free' = Free
    BY <1>1 DEF NewprocLock, procVars, Free
  <2> QED
    BY <1>1, <2>1, QuietMove DEF NewprocLock, schedVars, procVars
<1>2. CASE NewprocLoaded(t)
  <2>1. Free' = Free
    BY <1>2 DEF NewprocLoaded, procVars, Free
  <2> QED
    BY <1>2, <2>1, QuietMove DEF NewprocLoaded, schedVars, procVars, recycleVars
<1>3. CASE NewprocBadUpvalue(t)
  <2>1. Free' = Free
    BY <1>3 DEF NewprocBadUpvalue, procVars, Free
  <2> QED
    BY <1>3, <2>1, QuietMove DEF NewprocBadUpvalue, schedVars, procVars, recycleVars
<1>4. CASE NewprocQueue(t)
  BY <1>4, QueueMoves DEF NewprocQueue, recycleVars
<1>5. CASE Wake(t)
  BY <1>5, QueueMoves DEF Wake, recycleVars
<1>6. CASE SchedWait(t)
  <2>1. Free' = Free
    BY <1>6 DEF SchedWait, procVars, Free
  <2> QED
    BY <1>6, <2>1, QuietMove DEF SchedWait, schedVars, procVars, recycleVars
<1>7. CASE CallNewproc(t)
  <2>1. Free' = Free
    BY <1>7 DEF CallNewproc, procVars, Free
  <2> QED
    BY <1>7, <2>1, QuietMove DEF CallNewproc, schedVars, procVars, recycleVars
<1>8. CASE CallRecycle(t)
  <2>1. Free' = Free
    BY <1>8 DEF CallRecycle, procVars, Free
  <2> QED
    BY <1>8, <2>1, QuietMove DEF CallRecycle, schedVars, procVars, recycleVars
<1>9. CASE CallWait(t)
  <2>1. Free' = Free
    BY <1>9 DEF CallWait, procVars, Free
  <2> QED
    BY <1>9, <2>1, QuietMove DEF CallWait, schedVars, procVars, recycleVars
<1>10. CASE \E n \in Targets, started \in SUBSET Workers : Grow(t, n, started)
  <2>1. PICK n \in Targets, started \in SUBSET Workers : Grow(t, n, started)
    BY <1>10
  <2>2. \A u \in Threads :
           pc'[u] = pc[u] \/ (pc[u] = "unborn" /\ pc'[u] = "loop")
    BY <2>1 DEF Grow
  <2>3. UNCHANGED <<ready, recycle, parked, lpcount, cur, obj, status>>
    BY <2>1 DEF Grow, procVars, recycleVars
  <2>4. Free' = Free /\ Waking' = Waking /\ Counting' = Counting
    BY <2>2, <2>3 DEF Free, Waking, Counting, Threads
  <2> QED
    BY <2>3, <2>4, SamePlaces
<1>11. CASE \E n \in Targets : Shrink(t, n)
  <2>1. UNCHANGED <<ready, recycle, parked, lpcount, cur, obj, status, pc>>
    BY <1>11 DEF Shrink, procVars, recycleVars, threadVars
  <2>2. Free' = Free /\ Waking' = Waking /\ Counting' = Counting
    BY <2>1 DEF Free, Waking, Counting
  <2> QED
    BY <2>1, <2>2, SamePlaces
<1> QED
  BY <1>1, <1>2, <1>3, <1>4, <1>5, <1>6, <1>7, <1>8, <1>9, <1>10, <1>11,
     ReuseMoves, CreateMoves, BadCodeMoves, UndoMoves, IncMoves, UnparkMoves,
     RecycleSetMoves DEF CallStep, NewprocStep, Call

LEMMA JoinMoves ==
  ASSUME PlaceInv, JoinStep \/ CallJoin \/ UNCHANGED vars
  PROVE  InPlaces' /\ CountStep /\ PoolStep
<1> USE DEF Counted
<1>0. Main \in Threads
  BY DEF Threads
<1>1. CASE JoinMark
  <2>1. Free' = Free
    BY <1>1 DEF JoinMark, procVars, Free
  <2> QED
    BY <1>0, <1>1, <2>1, QuietMove DEF JoinMark, procVars, recycleVars
<1>2. CASE (\E w \in Workers : JoinOne(w)) \/ UNCHANGED vars
  <2>1. UNCHANGED <<ready, recycle, parked, lpcount, cur, obj, status, pc>>
    BY <1>2 DEF JoinOne, vars, schedVars, procVars, recycleVars, threadVars
  <2>2. Free' = Free /\ Waking' = Waking /\ Counting' = Counting
    BY <2>1 DEF Free, Waking, Counting
  <2> QED
    BY <2>1, <2>2, SamePlaces
<1>3. CASE JoinEnd
  <2>1. Free' = Free
    BY <1>3 DEF JoinEnd, procVars, Free
  <2> QED
    BY <1>0, <1>3, <2>1, QuietMove DEF JoinEnd, schedVars, procVars, recycleVars
<1>4. CASE CallJoin
  <2>1. Free' = Free
    BY <1>4 DEF CallJoin, procVars, Free
  <2> QED
    BY <1>0, <1>4, <2>1, QuietMove DEF CallJoin, schedVars, procVars, recycleVars
<1> QED
  BY <1>1, <1>2, <1>3, <1>4 DEF JoinStep

LEMMA EveryStep ==
  ASSUME PlaceInv, [Next]_vars
  PROVE  PlaceInv' /\ CountStep /\ PoolStep
<1>1. TypeInv'
  BY TypeInvStep DEF PlaceInv
<1>2. CASE Next
  <2>1. CurOut' /\ ObjOut'
    BY <1>2, WorkerOut, LibraryOut, JoinOut DEF Next
  <2>2. InPlaces' /\ CountStep /\ PoolStep
    BY <1>2, WorkerMoves, LibraryMoves, JoinMoves DEF Next
  <2> QED
    BY <1>1, <2>1, <2>2 DEF PlaceInv
<1>3. CASE UNCHANGED vars
  <2>1. CurOut' /\ ObjOut'
    BY <1>3 DEF vars, threadVars, PlaceInv, CurOut, ObjOut
  <2>2. InPlaces' /\ CountStep /\ PoolStep
    BY <1>3, JoinMoves
  <2> QED
    BY <1>1, <2>1, <2>2 DEF PlaceInv
<1> QED
  BY <1>2, <1>3

LEMMA PlaceInvCorrect == Spec => []PlaceInv
<1>1. PlaceInv /\ [Next]_vars => PlaceInv'
  BY EveryStep
<1> QED
  BY <1>1, InitPlaceInv, PTL DEF Spec

\* A lua process is in one place only, whatever scripts create, recycle, park
\* and wake: no lua_State is resumed by two workers, or after it was closed.
THEOREM ProcsInOnePlace == Spec => []OnePlace
<1>1. PlaceInv => OnePlace
  BY InPlacesIsOnePlace DEF PlaceInv
<1> QED
  BY <1>1, PlaceInvCorrect, PTL
\* What workers and callers do to processes is what the pool allows, in its order.
THEOREM SchedImplementsPool == Spec => ImplementsPool
<1>1. Init => Pool!PoolInit
  <2> SUFFICES ASSUME Init PROVE Pool!PoolInit
    OBVIOUS
  <2>1. ready = <<>> /\ parked = {} /\ Running = {} /\ Waking = {}
    BY SchedAssumption
       DEF Init, InitWith, Running, Waking, Threads, SchedAssumption
  <2>2. Elements(<<>>) = {}
    BY DEF Elements
  <2> QED
    BY <2>1, <2>2 DEF Pool!PoolInit, Active
<1>2. PlaceInv /\ [Next]_vars => [Pool!PoolNext]_(Pool!poolVars)
  BY EveryStep DEF PoolStep
<1> QED
  BY <1>1, <1>2, PlaceInvCorrect, PTL DEF Spec, ImplementsPool, Pool!PoolSpec
-----------------------------------------------------------------------------
(* lpcount *)

CountInv ==
    /\ IsFiniteSet(Active)
    /\ lpcount \in Int
    /\ lpcount = Cardinality(Active) + Cardinality(Counting)

LEMMA CountingFinite ==
  /\ IsFiniteSet(Counting)
  /\ IsFiniteSet(Counting')
BY FS_Subset, SchedAssumption DEF Counting, SchedAssumption

LEMMA InitCountInv == Init => CountInv
<1> SUFFICES ASSUME Init PROVE CountInv
  OBVIOUS
<1>1. /\ ready = <<>> /\ parked = {} /\ Running = {} /\ Waking = {}
      /\ Counting = {} /\ lpcount = 0
  BY SchedAssumption
     DEF Init, InitWith, Running, Waking, Counting, Threads, SchedAssumption
<1>2. Active = {}
  BY <1>1 DEF Active, Elements
<1> QED
  BY <1>1, <1>2, FS_EmptySet DEF CountInv

LEMMA CountInvStep ==
  ASSUME CountInv, CountStep
  PROVE  CountInv'
<1> USE DEF CountInv
<1>1. CASE /\ Active' = Active
           /\ Counting' = Counting
           /\ lpcount' = lpcount
  BY <1>1
<1>2. ASSUME NEW p \in Procs, p \notin Active, Active' = Active \cup {p},
             Counting' = Counting, lpcount' = lpcount + 1
      PROVE  CountInv'
  <2>1. /\ IsFiniteSet(Active') /\ Cardinality(Active') = Cardinality(Active) + 1
        /\ Cardinality(Active) \in Nat /\ Cardinality(Counting) \in Nat
    BY <1>2, FS_AddElement, FS_CardinalityType, CountingFinite
  <2> QED
    BY <1>2, <2>1
<1>3. ASSUME NEW p \in Active, NEW w \in Workers \ Counting,
             Active' = Active \ {p}, Counting' = Counting \cup {w},
             lpcount' = lpcount
      PROVE  CountInv'
  <2>1. /\ IsFiniteSet(Active') /\ Cardinality(Active') = Cardinality(Active) - 1
    BY <1>3, FS_RemoveElement
  <2>2. Cardinality(Counting') = Cardinality(Counting) + 1
    BY <1>3, FS_AddElement, CountingFinite
  <2>3. Cardinality(Active) \in Nat /\ Cardinality(Counting) \in Nat
    BY FS_CardinalityType, CountingFinite
  <2> QED
    BY <1>3, <2>1, <2>2, <2>3
<1>4. ASSUME NEW w \in Counting, Active' = Active, Counting' = Counting \ {w},
             lpcount' = lpcount - 1
      PROVE  CountInv'
  <2>1. Cardinality(Counting') = Cardinality(Counting) - 1
    BY <1>4, FS_RemoveElement, CountingFinite
  <2>2. Cardinality(Active) \in Nat /\ Cardinality(Counting) \in Nat
    BY FS_CardinalityType, CountingFinite
  <2> QED
    BY <1>4, <2>1, <2>2
<1> QED
  BY <1>1, <1>2, <1>3, <1>4 DEF CountStep

\* lpcount is the number of processes created and not ended, plus the decrements
\* that are still to come: it is 0 only when no counted process is left to run.
THEOREM LpcountCounts == Spec => []LpcountExact
<1>1. PlaceInv /\ CountInv /\ [Next]_vars => CountInv'
  BY EveryStep, CountInvStep
<1>2. CountInv => LpcountExact
  BY DEF CountInv, LpcountExact, Counting
<1> QED
  BY <1>1, <1>2, InitCountInv, PlaceInvCorrect, PTL DEF Spec
-----------------------------------------------------------------------------
(* The exit of the main state. *)

Joining == {"joining", "ended"}

\* The table names every worker that was created, a worker has posted its exit
\* exactly when only its deletion is to come, and once joining has begun, what
\* is no longer awaited has posted.
JoinInv ==
    /\ table = {w \in Workers : pc[w] # "unborn"}
    /\ exitsem = {w \in Workers : pc[w] \in {"delete", "gone"}}
    /\ pc[Main] \in Joining => table \ tojoin \subseteq exitsem
    /\ pc[Main] = "ended" => tojoin = {}

LEMMA InitJoinInv == Init => JoinInv
BY SchedAssumption
   DEF Init, InitWith, JoinInv, Joining, Threads, SchedAssumption

LEMMA JoinInvMove ==
  ASSUME TypeInv, JoinInv, NEW t \in Threads, NEW from, NEW to, Goto(t, from, to),
         from \notin {"unborn", "delete", "gone"} \cup Joining,
         to \notin {"unborn", "delete", "gone"} \cup Joining,
         UNCHANGED <<table, tojoin, exitsem>>
  PROVE  JoinInv'
<1>1. pc \in [Threads -> PCs] /\ Main \in Threads /\ Workers \subseteq Threads
  BY DEF TypeInv, TypeOK, Threads
<1>2. \A u \in Threads : u # t => pc'[u] = pc[u]
  BY <1>1 DEF Goto
<1>3. pc[t] = from /\ pc'[t] = to
  BY <1>1 DEF Goto
<1> QED
  BY <1>1, <1>2, <1>3 DEF JoinInv, Joining

LEMMA WorkerJoin ==
  ASSUME TypeInv, JoinInv, NEW w \in Workers, WorkerStep(w) \/ Return(w)
  PROVE  JoinInv'
<1> USE DEF schedVars, joinVars, Joining
<1>0. w \in Threads
  BY DEF Threads
<1>1. CASE GoIdle(w)
  BY <1>0, <1>1, JoinInvMove DEF GoIdle
<1>2. CASE WakeUp(w)
  BY <1>0, <1>2, JoinInvMove DEF WakeUp
<1>3. CASE Destroy(w)
  <2>1. pc \in [Threads -> PCs] /\ Main \in Threads /\ Workers \subseteq Threads
    BY DEF TypeInv, TypeOK, Threads
  <2> QED
    BY <1>0, <1>3, <2>1, JoinInvMove DEF Destroy
<1>4. CASE PostExit(w)
  <2>1. /\ pc \in [Threads -> PCs] /\ Main \in Threads /\ Workers \subseteq Threads
        /\ w # Main
    BY SchedAssumption DEF TypeInv, TypeOK, Threads, SchedAssumption
  <2> QED
    BY <1>0, <1>4, <2>1 DEF PostExit, Goto, JoinInv
<1>5. CASE DeleteThread(w)
  <2>1. /\ pc \in [Threads -> PCs] /\ Main \in Threads /\ Workers \subseteq Threads
        /\ w # Main
    BY SchedAssumption DEF TypeInv, TypeOK, Threads, SchedAssumption
  <2> QED
    BY <1>0, <1>5, <2>1 DEF DeleteThread, Goto, JoinInv
<1>6. CASE Take(w)
  BY <1>0, <1>6, JoinInvMove DEF Take
<1>7. CASE Retire(w)
  BY <1>0, <1>7, JoinInvMove DEF Retire
<1>8. CASE DecLpcount(w)
  BY <1>0, <1>8, JoinInvMove DEF DecLpcount
<1>9. CASE Park(w)
  BY <1>0, <1>9, JoinInvMove DEF Park
<1>10. CASE Requeue(w)
  BY <1>0, <1>10, JoinInvMove DEF Requeue
<1>11. CASE Finish(w)
  BY <1>0, <1>11, JoinInvMove DEF Finish
<1>12. CASE Fail(w)
  BY <1>0, <1>12, JoinInvMove DEF Fail
<1>13. CASE Yield(w)
  BY <1>0, <1>13, JoinInvMove DEF Yield
<1>14. CASE \E wish \in {"BLOCKED_SEND", "BLOCKED_RECV"} : Block(w, wish)
  BY <1>0, <1>14, JoinInvMove DEF Block
<1> QED
  BY <1>1, <1>2, <1>3, <1>4, <1>5, <1>6, <1>7, <1>8, <1>9, <1>10, <1>11, <1>12,
     <1>13, <1>14 DEF WorkerStep, Return

LEMMA LibraryJoin ==
  ASSUME TypeInv, JoinInv, "setnumworkers" \notin ProcCalls,
         NEW t \in Threads, CallStep(t) \/ Call(t)
  PROVE  JoinInv'
<1> USE DEF schedVars, joinVars, Joining
<1>1. CASE NewprocLock(t)
  BY <1>1, JoinInvMove DEF NewprocLock
<1>2. CASE NewprocReuse(t)
  BY <1>2, JoinInvMove DEF NewprocReuse
<1>3. CASE \E p \in Procs, h \in Handles : NewprocCreate(t, p, h)
  BY <1>3, JoinInvMove DEF NewprocCreate
<1>4. CASE NewprocLoaded(t)
  BY <1>4, JoinInvMove DEF NewprocLoaded
<1>5. CASE NewprocBadCode(t)
  BY <1>5, JoinInvMove DEF NewprocBadCode
<1>6. CASE NewprocBadUpvalue(t)
  BY <1>6, JoinInvMove DEF NewprocBadUpvalue
<1>7. CASE NewprocUndo(t)
  BY <1>7, JoinInvMove DEF NewprocUndo
<1>8. CASE NewprocInc(t)
  BY <1>8, JoinInvMove DEF NewprocInc
<1>9. CASE NewprocQueue(t)
  BY <1>9, JoinInvMove DEF NewprocQueue, QueueProc
<1>10. CASE Wake(t)
  BY <1>10, JoinInvMove DEF Wake, QueueProc
<1>11. CASE \E max \in RecycleLimits : RecycleSet(t, max)
  BY <1>11, JoinInvMove DEF RecycleSet
<1>12. CASE SchedWait(t)
  BY <1>12, JoinInvMove DEF SchedWait
<1>13. CASE CallNewproc(t)
  BY <1>13, JoinInvMove DEF CallNewproc
<1>14. CASE \E p \in Procs : Unpark(t, p)
  BY <1>14, JoinInvMove DEF Unpark
<1>15. CASE \E n \in Targets, started \in SUBSET Workers : Grow(t, n, started)
  <2>1. PICK n \in Targets, started \in SUBSET Workers : Grow(t, n, started)
    BY <1>15
  <2>2. t = Main /\ pc[Main] = "lua" /\ Main \notin Workers
    BY <2>1, SchedAssumption DEF Grow, MayCall, SchedAssumption
  <2>3. pc'[Main] = "lua"
    BY <2>1, <2>2 DEF Grow, Threads
  <2>4. /\ \A w \in started : pc[w] = "unborn" /\ pc'[w] = "loop"
        /\ \A w \in Workers \ started : pc'[w] = pc[w]
        /\ table' = table \cup started /\ exitsem' = exitsem
    BY <2>1 DEF Grow, Threads
  <2> QED
    BY <2>3, <2>4 DEF JoinInv
<1>16. CASE \E n \in Targets : Shrink(t, n)
  BY <1>16 DEF Shrink, threadVars, JoinInv
<1>17. CASE CallRecycle(t)
  BY <1>17, JoinInvMove DEF CallRecycle
<1>18. CASE CallWait(t)
  BY <1>18, JoinInvMove DEF CallWait
<1> QED
  BY <1>1, <1>2, <1>3, <1>4, <1>5, <1>6, <1>7, <1>8, <1>9, <1>10, <1>11, <1>12,
     <1>13, <1>14, <1>15, <1>16, <1>17, <1>18 DEF CallStep, NewprocStep, Call

LEMMA JoinJoin ==
  ASSUME TypeInv, JoinInv, JoinStep \/ CallJoin \/ UNCHANGED vars
  PROVE  JoinInv'
<1> USE DEF schedVars, joinVars, Joining
<1>0. /\ pc \in [Threads -> PCs] /\ Main \in Threads /\ Workers \subseteq Threads
      /\ Main \notin Workers
  BY SchedAssumption DEF TypeInv, TypeOK, Threads, SchedAssumption
<1>1. CASE JoinMark
  BY <1>0, <1>1 DEF JoinMark, Goto, JoinInv
<1>2. CASE \E w \in Workers : JoinOne(w)
  BY <1>0, <1>2 DEF JoinOne, threadVars, JoinInv
<1>3. CASE JoinEnd
  BY <1>0, <1>3 DEF JoinEnd, Goto, JoinInv
<1>4. CASE CallJoin
  BY <1>0, <1>4, JoinInvMove DEF CallJoin
<1>5. CASE UNCHANGED vars
  BY <1>5 DEF vars, threadVars, JoinInv
<1> QED
  BY <1>1, <1>2, <1>3, <1>4, <1>5 DEF JoinStep

\* Unless lua processes change the number of workers, the main state leaves
\* sched_join_workers only when no worker can touch the scheduler any more.
THEOREM JoinIsSafe == "setnumworkers" \notin ProcCalls => (Spec => []JoinSafe)
<1> SUFFICES ASSUME "setnumworkers" \notin ProcCalls PROVE Spec => []JoinSafe
  OBVIOUS
<1>1. TypeInv /\ JoinInv /\ [Next]_vars => JoinInv'
  BY WorkerJoin, LibraryJoin, JoinJoin DEF Next
<1>2. JoinInv => JoinSafe
  BY DEF JoinInv, Joining, JoinSafe
<1> QED
  BY <1>1, <1>2, InitTypeInv, TypeInvStep, InitJoinInv, PTL DEF Spec
=============================================================================
