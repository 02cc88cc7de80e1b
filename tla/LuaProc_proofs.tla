---------------------------- MODULE LuaProc_proofs ----------------------------
(***************************************************************************)
(* Proofs about LuaProc.  For any number of workers: with its channels     *)
(* hidden it implements the scheduler, and so inherits what is proved of   *)
(* LpSched; and every variable has its type.                               *)
(***************************************************************************)
EXTENDS LuaProc, LpSchedPlaces_proofs

\* Where the scheduler sees a thread stand that LuaProc has at a place.
Seen(place) == CASE place \in {"drop_send", "drop_recv"} -> "wake"
                 [] place \in ChannelPCs \ {"drop_send", "drop_recv"} -> "lua"
                 [] OTHER -> place

Stand == [t \in Threads |->
            CASE pc[t] \in {"drop_send", "drop_recv"} -> "wake"
              [] pc[t] \in ChannelPCs \ {"drop_send", "drop_recv"} -> "lua"
              [] OTHER -> pc[t]]

\* The theorems about the scheduler, for the places it sees.
P == INSTANCE LpSchedPlaces_proofs WITH pc <- Stand

LEMMA SchedAssumptionSeen == P!SchedAssumption
BY SchedAssumption DEF SchedAssumption, P!SchedAssumption, Threads, P!Threads,
                       IsFiniteSet, P!IsFiniteSet

LEMMA SchedStep ==
  ASSUME P!PlaceInv, [P!Next]_(P!vars)
  PROVE  P!PlaceInv'
BY P!EveryStep, SchedAssumptionSeen

LEMMA SchedInit == P!Init => P!PlaceInv
BY P!InitPlaceInv, SchedAssumptionSeen

-----------------------------------------------------------------------------
(* What the scheduler's invariant says in LuaProc's own terms. *)

Places == PCs \cup ChannelPCs

\* A thread at one of these has a process in its hands.
Handing == Holding \cup {"drop_send", "drop_recv"}

SchedFacts ==
    /\ ready \in Seq(Procs)
    /\ recycle \in Seq(Procs)
    /\ status \in [Procs -> Statuses]
    /\ parked \subseteq Procs
    /\ cur \in [Threads -> Procs \cup {Nil}]
    /\ obj \in [Threads -> Procs \cup {Nil}]
    /\ CurHeld
    /\ \A t \in Threads : pc[t] \in Handing => obj[t] \in Procs
    /\ \A t \in Threads : pc[t] \notin Handing => obj[t] = Nil
    /\ InPlaces

LEMMA SeenPlace ==
  ASSUME pc \in [Threads -> Places], NEW t \in Threads
  PROVE  /\ Stand[t] = Seen(pc[t])
         /\ pc[t] \in PCs => Stand[t] = pc[t]
         /\ pc[t] \in {"drop_send", "drop_recv"} => Stand[t] = "wake"
         /\ pc[t] \in ChannelPCs \ {"drop_send", "drop_recv"} => Stand[t] = "lua"
BY DEF Stand, Seen, Places, PCs, ChannelPCs

LEMMA SchedHolds ==
  ASSUME P!PlaceInv, pc \in [Threads -> Places]
  PROVE  SchedFacts
<1>1. /\ ready \in Seq(Procs) /\ recycle \in Seq(Procs)
      /\ status \in [Procs -> Statuses] /\ parked \subseteq Procs
      /\ cur \in [Threads -> Procs \cup {Nil}]
      /\ obj \in [Threads -> Procs \cup {Nil}]
  BY DEF P!PlaceInv, P!TypeInv, P!TypeOK, P!Statuses, Statuses, P!Threads, Threads
<1>2. CurHeld
  <2>1. \A w \in Workers : Stand[w] \notin P!Idle => cur[w] \in Procs
    BY DEF P!PlaceInv, P!TypeInv, P!CurHeld
  <2>2. \A w \in Workers : pc[w] \notin Idle => Stand[w] \notin P!Idle
    BY SeenPlace DEF Threads, Idle, P!Idle, Places, PCs, ChannelPCs
  <2> QED
    BY <2>1, <2>2 DEF CurHeld
<1>3. /\ \A t \in Threads : pc[t] \in Handing => obj[t] \in Procs
      /\ \A t \in Threads : pc[t] \notin Handing => obj[t] = Nil
  <2>1. \A t \in Threads : Stand[t] \in P!Holding <=> pc[t] \in Handing
    BY SeenPlace DEF Holding, P!Holding, Handing, Places, PCs, ChannelPCs
  <2> QED
    BY <2>1 DEF P!PlaceInv, P!TypeInv, P!ObjHeld, P!ObjOut, P!Threads, Threads
<1>4. InPlaces
  BY DEF P!PlaceInv, P!InPlaces, InPlaces, P!NoRepeats, NoRepeats, P!Distinct,
         Distinct, P!Apart, Apart, P!Elements, Elements, P!Running, Running,
         P!Held, Held, P!Free, Free, P!Threads, Threads
<1> QED
  BY <1>1, <1>2, <1>3, <1>4 DEF SchedFacts

LEMMA GotoSeen ==
  ASSUME pc \in [Threads -> Places], NEW t \in Threads, NEW from, NEW to,
         Goto(t, from, to)
  PROVE  P!Goto(t, Seen(from), Seen(to))
BY DEF Goto, P!Goto, Stand, Seen

LEMMA GotoSame ==
  ASSUME pc \in [Threads -> Places], NEW t \in Threads, NEW from \in PCs,
         NEW to \in PCs, Goto(t, from, to)
  PROVE  P!Goto(t, from, to)
BY GotoSeen DEF Seen, PCs, ChannelPCs

LEMMA CardinalitySeen == \A S : P!Cardinality(S) = Cardinality(S)
BY DEF Cardinality, P!Cardinality, IsFiniteSet, P!IsFiniteSet
-----------------------------------------------------------------------------
(* The steps that LuaProc shares with the scheduler. *)

LEMMA WorkerSeen ==
  ASSUME pc \in [Threads -> Places], NEW w \in Workers,
         \/ GoIdle(w) \/ WakeUp(w) \/ Take(w) \/ Requeue(w) \/ Retire(w)
         \/ DecLpcount(w) \/ Park(w)
  PROVE  P!WorkerStep(w)
<1> USE DEF PCs, Threads, schedVars, procVars, recycleVars, joinVars, P!schedVars,
            P!procVars, P!recycleVars, P!joinVars, P!WorkerStep
<1>1. CASE GoIdle(w)
  BY <1>1, GotoSame DEF GoIdle, P!GoIdle
<1>2. CASE WakeUp(w)
  BY <1>2, GotoSame DEF WakeUp, P!WakeUp
<1>3. CASE Take(w)
  BY <1>3, GotoSame DEF Take, P!Take
<1>4. CASE Requeue(w)
  BY <1>4, GotoSame DEF Requeue, P!Requeue, Blocked, P!Blocked
<1>5. CASE Retire(w)
  BY <1>5, GotoSame DEF Retire, P!Retire, Acquirable, P!Acquirable,
                        RecycleInsert, P!RecycleInsert
<1>6. CASE DecLpcount(w)
  BY <1>6, GotoSame DEF DecLpcount, P!DecLpcount
<1>7. CASE Park(w)
  BY <1>7, GotoSame DEF Park, P!Park, Blocked, P!Blocked
<1> QED
  BY <1>1, <1>2, <1>3, <1>4, <1>5, <1>6, <1>7

LEMMA ReturnSeen ==
  ASSUME pc \in [Threads -> Places], NEW w \in Workers,
         Finish(w) \/ Fail(w) \/ Yield(w)
  PROVE  P!Return(w)
<1> USE DEF PCs, Threads, schedVars, procVars, recycleVars, joinVars, P!schedVars,
            P!procVars, P!recycleVars, P!joinVars, P!Return
<1>1. CASE Finish(w)
  BY <1>1, GotoSame DEF Finish, P!Finish
<1>2. CASE Fail(w)
  BY <1>2, GotoSame DEF Fail, P!Fail
<1>3. CASE Yield(w)
  BY <1>3, GotoSame DEF Yield, P!Yield
<1> QED
  BY <1>1, <1>2, <1>3

LEMMA NewprocSeen ==
  ASSUME pc \in [Threads -> Places], NEW t \in Threads, NewprocStep(t) \/ Wake(t)
  PROVE  P!CallStep(t)
<1> USE DEF PCs, schedVars, procVars, recycleVars, joinVars, P!schedVars,
            P!procVars, P!recycleVars, P!joinVars, P!NewprocStep, P!CallStep
<1>1. CASE NewprocLock(t)
  BY <1>1, GotoSame DEF NewprocLock, P!NewprocLock, Acquirable, P!Acquirable
<1>2. CASE NewprocReuse(t)
  BY <1>2, GotoSame DEF NewprocReuse, P!NewprocReuse
<1>3. CASE \E p \in Procs, h \in Handles : NewprocCreate(t, p, h)
  <2>1. PICK p \in Procs, h \in Handles : NewprocCreate(t, p, h)
    BY <1>3
  <2>2. P!Handles = Handles
    BY CardinalitySeen DEF Handles, P!Handles, Threads, P!Threads
  <2>3. \A g : P!FreshHandle(g) <=> FreshHandle(g)
    BY DEF FreshHandle, P!FreshHandle, Threads, P!Threads
  <2>4. P!Goto(t, "np_make", "np_load")
    BY <2>1, GotoSame DEF NewprocCreate
  <2>5. P!NewprocCreate(t, p, h)
    BY <2>1, <2>2, <2>3, <2>4 DEF NewprocCreate, P!NewprocCreate
  <2> QED
    BY <2>2, <2>5
<1>4. CASE NewprocLoaded(t)
  BY <1>4, GotoSame DEF NewprocLoaded, P!NewprocLoaded
<1>5. CASE NewprocBadCode(t)
  BY <1>5, GotoSame DEF NewprocBadCode, P!NewprocBadCode
<1>6. CASE NewprocBadUpvalue(t)
  BY <1>6, GotoSame DEF NewprocBadUpvalue, P!NewprocBadUpvalue
<1>7. CASE NewprocUndo(t)
  BY <1>7, GotoSame DEF NewprocUndo, P!NewprocUndo, Acquirable, P!Acquirable,
                        RecycleInsert, P!RecycleInsert
<1>8. CASE NewprocInc(t)
  BY <1>8, GotoSame DEF NewprocInc, P!NewprocInc
<1>9. CASE NewprocQueue(t)
  BY <1>9, GotoSame DEF NewprocQueue, P!NewprocQueue, QueueProc, P!QueueProc,
                        PostWakeup, P!PostWakeup
<1>10. CASE Wake(t)
  BY <1>10, GotoSame DEF Wake, P!Wake, QueueProc, P!QueueProc, PostWakeup,
                         P!PostWakeup
<1> QED
  BY <1>1, <1>2, <1>3, <1>4, <1>5, <1>6, <1>7, <1>8, <1>9, <1>10 DEF NewprocStep

LEMMA CallNewprocSeen ==
  ASSUME pc \in [Threads -> Places], NEW t \in Threads, CallNewproc(t)
  PROVE  P!Call(t)
<1>1. P!StructureLeft
  <2>1. {u \in P!Threads : Stand[u] \in {"np_lock", "np_make"}}
          = {u \in Threads : pc[u] \in {"np_lock", "np_make"}}
    BY SeenPlace DEF Places, PCs, ChannelPCs, Threads, P!Threads
  <2> QED
    BY <2>1, CardinalitySeen DEF CallNewproc, StructureLeft, P!StructureLeft
<1>2. P!Goto(t, "lua", "np_lock")
  BY GotoSame DEF CallNewproc, PCs
<1>3. P!MayCall(t, "newproc")
  BY <1>2 DEF CallNewproc, MayCall, P!MayCall, P!Goto
<1> QED
  BY <1>1, <1>2, <1>3
     DEF CallNewproc, P!CallNewproc, P!Call, schedVars, procVars, recycleVars,
         joinVars, P!schedVars, P!procVars, P!recycleVars, P!joinVars
-----------------------------------------------------------------------------
(* The channels' part of the state.  LTypeOK is not inductive: a call needs *)
(* the name it creates a channel for, and the lists must be functions; and  *)
(* a process that is taken from a list must be parked, or the scheduler     *)
(* would see it come from nowhere.                                          *)

ChanTypes ==
    /\ pc \in [Threads -> Places]
    /\ chans \in [Names -> Chans \cup {NoChan}]
    /\ wait \in [Sides -> [Chans -> Seq(Procs)]]
    /\ chan \in [Procs -> Chans \cup {NoChan}]
    /\ using \in [Threads -> Chans \cup {NoChan}]
    /\ naming \in [Threads -> Names \cup {Nil}]
    /\ result \in [Procs -> {"none", "ok", "error"}]
    /\ \A t \in Threads : pc[t] = "create" => naming[t] \in Names
    /\ \A t \in Threads : using[t] \in Chans <=> pc[t] \in ChannelPCs \ {"create"}
    /\ \A p \in Procs : Blocked(p) => chan[p] \in Chans

Lists ==
    /\ \A s \in Sides, c \in Chans : NoRepeats(wait[s][c])
    /\ \A s \in Sides, c \in Chans : Elements(wait[s][c]) \subseteq parked
    /\ \A s, r \in Sides, c, d \in Chans, p \in Procs :
          p \in Elements(wait[s][c]) /\ p \in Elements(wait[r][d]) => s = r /\ c = d

LInv == P!PlaceInv /\ ChanTypes /\ Lists

LEMMA LInvIsLTypeOK == LInv => LTypeOK
<1> SUFFICES ASSUME LInv PROVE LTypeOK
  OBVIOUS
<1>1. status \in [Procs -> Statuses]
  BY SchedHolds DEF LInv, ChanTypes, SchedFacts
<1> QED
  BY <1>1 DEF LInv, ChanTypes, LTypeOK, Places

LEMMA InitLInv == LInit => LInv
<1> SUFFICES ASSUME LInit PROVE LInv
  OBVIOUS
<1>1. ChanTypes
  BY SchedAssumption, ChannelAssumption
     DEF LInit, Init, InitWith, ChanInit, ChanTypes, Places, PCs, ChannelPCs,
         Threads, SchedAssumption, Blocked, Sides
<1>2. Lists
  BY DEF LInit, ChanInit, Lists, Elements, NoRepeats
<1>3. P!Init
  <2>1. Stand = [t \in P!Threads |-> CASE t = Main -> "lua"
                                       [] t \in InitialWorkers -> "loop"
                                       [] OTHER -> "unborn"]
    BY DEF Stand, LInit, Init, InitWith, Threads, P!Threads, ChannelPCs
  <2>2. P!Handles = Handles
    BY CardinalitySeen DEF Handles, P!Handles, Threads, P!Threads
  <2> QED
    BY <2>1, <2>2, CardinalitySeen
       DEF LInit, Init, InitWith, P!Init, P!InitWith, Threads, P!Threads
<1> QED
  BY <1>1, <1>2, <1>3, SchedInit DEF LInv

\* A process is queued on a list, or the first of a list is taken off.
LEMMA Queued ==
  ASSUME Lists, wait \in [Sides -> [Chans -> Seq(Procs)]], parked \subseteq Procs,
         NEW s \in Sides, NEW c \in Chans, NEW p \in Procs, p \notin parked,
         Enlist(s, c, p), parked' = parked \cup {p}
  PROVE  /\ Lists'
         /\ wait' \in [Sides -> [Chans -> Seq(Procs)]]
         /\ Elements(wait'[s][c]) = Elements(wait[s][c]) \cup {p}
         /\ \A r \in Sides, d \in Chans : r # s \/ d # c => wait'[r][d] = wait[r][d]
<1>1. /\ wait'[s][c] = Append(wait[s][c], p)
      /\ \A r \in Sides, d \in Chans : r # s \/ d # c => wait'[r][d] = wait[r][d]
      /\ wait' \in [Sides -> [Chans -> Seq(Procs)]]
  BY DEF Enlist
<1>2. p \notin Elements(wait[s][c]) /\ NoRepeats(wait[s][c])
  BY DEF Lists
<1>3. /\ Elements(wait'[s][c]) = Elements(wait[s][c]) \cup {p}
      /\ NoRepeats(wait'[s][c])
  BY <1>1, <1>2, AppendPlace
<1>4. ASSUME NEW r \in Sides, NEW d \in Chans
      PROVE  /\ NoRepeats(wait'[r][d])
             /\ Elements(wait'[r][d]) \subseteq Elements(wait[r][d]) \cup {p}
             /\ p \in Elements(wait'[r][d]) => r = s /\ d = c
  <2>1. CASE r = s /\ d = c
    BY <1>3, <2>1
  <2>2. CASE r # s \/ d # c
    BY <1>1, <2>2 DEF Lists
  <2> QED
    BY <2>1, <2>2
<1>5. \A r \in Sides, d \in Chans : Elements(wait'[r][d]) \subseteq parked'
  BY <1>4 DEF Lists
<1>6. ASSUME NEW r \in Sides, NEW q \in Sides, NEW d \in Chans, NEW e \in Chans,
             NEW x \in Procs, x \in Elements(wait'[r][d]), x \in Elements(wait'[q][e])
      PROVE  r = q /\ d = e
  <2>1. CASE x = p
    BY <1>4, <1>6, <2>1
  <2>2. CASE x # p
    <3>1. x \in Elements(wait[r][d]) /\ x \in Elements(wait[q][e])
      BY <1>4, <1>6, <2>2
    <3> QED
      BY <3>1 DEF Lists
  <2> QED
    BY <2>1, <2>2
<1>7. Lists'
  <2>1. \A r \in Sides, d \in Chans : NoRepeats(wait'[r][d])
    BY <1>4
  <2>2. \A r, q \in Sides, d, e \in Chans, x \in Procs :
          x \in Elements(wait'[r][d]) /\ x \in Elements(wait'[q][e]) => r = q /\ d = e
    BY <1>6
  <2> QED
    BY <1>5, <2>1, <2>2, Zenon DEF Lists
<1> QED
  BY <1>1, <1>3, <1>7

LEMMA TakenOff ==
  ASSUME Lists, wait \in [Sides -> [Chans -> Seq(Procs)]], parked \subseteq Procs,
         NEW s \in Sides, NEW c \in Chans, wait[s][c] # <<>>, Delist(s, c),
         parked' = parked \ {Head(wait[s][c])}
  PROVE  /\ Lists'
         /\ wait' \in [Sides -> [Chans -> Seq(Procs)]]
         /\ Head(wait[s][c]) \in Elements(wait[s][c]) \cap parked
         /\ Elements(wait'[s][c]) = Elements(wait[s][c]) \ {Head(wait[s][c])}
         /\ \A r \in Sides, d \in Chans : r # s \/ d # c => wait'[r][d] = wait[r][d]
<1>0. wait[s][c] \in Seq(Procs)
  OBVIOUS
<1>1. /\ wait'[s][c] = Tail(wait[s][c])
      /\ \A r \in Sides, d \in Chans : r # s \/ d # c => wait'[r][d] = wait[r][d]
      /\ wait' \in [Sides -> [Chans -> Seq(Procs)]]
  BY <1>0 DEF Delist
<1>2. NoRepeats(wait[s][c])
  BY DEF Lists
<1>3. /\ Head(wait[s][c]) \in Elements(wait[s][c])
      /\ Elements(wait'[s][c]) = Elements(wait[s][c]) \ {Head(wait[s][c])}
      /\ NoRepeats(wait'[s][c])
  BY <1>0, <1>1, <1>2, TailPlace, Zenon
<1>4. Head(wait[s][c]) \in parked /\ Head(wait[s][c]) \in Procs
  BY <1>3 DEF Lists
<1>5. \A r \in Sides, d \in Chans :
        Elements(wait'[r][d]) = Elements(wait[r][d]) \ {Head(wait[s][c])}
  <2> SUFFICES ASSUME NEW r \in Sides, NEW d \in Chans
               PROVE  Elements(wait'[r][d]) = Elements(wait[r][d]) \ {Head(wait[s][c])}
    OBVIOUS
  <2>1. CASE r = s /\ d = c
    BY <1>3, <2>1
  <2>2. CASE r # s \/ d # c
    <3>1. Head(wait[s][c]) \notin Elements(wait[r][d])
      BY <1>3, <1>4, <2>2 DEF Lists
    <3> QED
      BY <1>1, <2>2, <3>1
  <2> QED
    BY <2>1, <2>2
<1>6. \A r \in Sides, d \in Chans :
        NoRepeats(wait'[r][d]) /\ Elements(wait'[r][d]) \subseteq parked'
  <2> SUFFICES ASSUME NEW r \in Sides, NEW d \in Chans
               PROVE  NoRepeats(wait'[r][d]) /\ Elements(wait'[r][d]) \subseteq parked'
    OBVIOUS
  <2>1. NoRepeats(wait'[r][d])
    BY <1>1, <1>3 DEF Lists
  <2>2. Elements(wait[r][d]) \subseteq parked
    BY DEF Lists
  <2> QED
    BY <1>5, <2>1, <2>2
<1>7. \A r, q \in Sides, d, e \in Chans, x \in Procs :
        x \in Elements(wait'[r][d]) /\ x \in Elements(wait'[q][e]) => r = q /\ d = e
  <2> SUFFICES ASSUME NEW r \in Sides, NEW q \in Sides, NEW d \in Chans,
                      NEW e \in Chans, NEW x \in Procs,
                      x \in Elements(wait'[r][d]), x \in Elements(wait'[q][e])
               PROVE  r = q /\ d = e
    OBVIOUS
  <2>1. x \in Elements(wait[r][d]) /\ x \in Elements(wait[q][e])
    BY <1>5
  <2> QED
    BY <2>1 DEF Lists
<1>8. Lists'
  BY <1>6, <1>7, Zenon DEF Lists
<1> QED
  BY <1>1, <1>3, <1>4, <1>8
-----------------------------------------------------------------------------
(* Every step keeps the channels' part, and is a step of the scheduler or   *)
(* none.                                                                    *)

SchedNext == [P!Next]_(P!vars)

\* A step of the scheduler that blocks no process and leaves the channels alone.
LEMMA QuietChan ==
  ASSUME ChanTypes, Lists, NEW t \in Threads, NEW from \in PCs, NEW to \in PCs,
         Goto(t, from, to), UNCHANGED chanVars, parked' = parked,
         \A p \in Procs : \/ status'[p] = status[p]
                          \/ status'[p] \notin {"BLOCKED_SEND", "BLOCKED_RECV"}
  PROVE  ChanTypes' /\ Lists'
<1>1. /\ pc' \in [Threads -> Places]
      /\ \A u \in Threads : pc'[u] = pc[u] \/ (pc[u] \in PCs /\ pc'[u] \in PCs)
  BY DEF ChanTypes, Goto, Places
<1>2. \A u \in Threads : /\ pc'[u] = "create" <=> pc[u] = "create"
                         /\ pc'[u] \in ChannelPCs <=> pc[u] \in ChannelPCs
  BY <1>1 DEF PCs, ChannelPCs
<1>3. ChanTypes'
  BY <1>1, <1>2 DEF ChanTypes, chanVars, Blocked
<1>4. Lists'
  BY Zenon DEF Lists, chanVars
<1> QED
  BY <1>3, <1>4

\* The same for newproc, which clears the channel of a process it has got.
LEMMA FreshChanStep ==
  ASSUME ChanTypes, Lists, NEW t \in Threads, Goto(t, "np_make", "np_load"),
         UNCHANGED <<chans, wait, using, naming, result>>, parked' = parked,
         NEW p \in Procs, chan' = [chan EXCEPT ![p] = NoChan],
         status \in [Procs -> Statuses], status' = [status EXCEPT ![p] = "IDLE"]
  PROVE  ChanTypes' /\ Lists'
<1>1. /\ pc' \in [Threads -> Places]
      /\ \A u \in Threads : pc'[u] = pc[u] \/ (pc[u] \in PCs /\ pc'[u] \in PCs)
  BY DEF ChanTypes, Goto, Places, PCs
<1>2. \A u \in Threads : /\ pc'[u] = "create" <=> pc[u] = "create"
                         /\ pc'[u] \in ChannelPCs <=> pc[u] \in ChannelPCs
  BY <1>1 DEF PCs, ChannelPCs
<1>3. ChanTypes'
  BY <1>1, <1>2 DEF ChanTypes, Blocked
<1>4. Lists'
  BY Zenon DEF Lists
<1> QED
  BY <1>3, <1>4

LEMMA WorkerChan ==
  ASSUME LInv, NEW w \in Workers, LWorkerStep(w)
  PROVE  ChanTypes' /\ Lists' /\ SchedNext
<1>0. ChanTypes /\ Lists /\ SchedFacts /\ w \in Threads /\ pc \in [Threads -> Places]
  BY SchedHolds DEF LInv, ChanTypes, Threads
<1>1. SchedNext
  BY <1>0, WorkerSeen DEF LWorkerStep, ParkOn, SchedNext, P!Next
<1>2. CASE ParkOn(w)
  <2>1. Goto(w, "yielded", "loop") /\ cur[w] \in Procs /\ Blocked(cur[w])
    BY <1>0, <1>2 DEF ParkOn, Park, Goto, SchedFacts, CurHeld, Idle
  <2>2. cur[w] \notin parked /\ parked \subseteq Procs
    BY <1>0, <2>1, SchedAssumption
       DEF SchedFacts, InPlaces, Apart, Running, SchedAssumption
  <2>3. PICK s \in Sides : Enlist(s, chan[cur[w]], cur[w])
    BY <1>2 DEF ParkOn
  <2>4. chan[cur[w]] \in Chans /\ wait \in [Sides -> [Chans -> Seq(Procs)]]
    BY <1>0, <2>1 DEF ChanTypes
  <2>5. parked' = parked \cup {cur[w]}
    BY <1>2 DEF ParkOn, Park
  <2>6. Lists' /\ wait' \in [Sides -> [Chans -> Seq(Procs)]]
    BY <1>0, <2>1, <2>2, <2>3, <2>4, <2>5, Queued
  <2>7. /\ pc' \in [Threads -> Places]
        /\ \A u \in Threads : pc'[u] = pc[u] \/ (pc[u] \in PCs /\ pc'[u] \in PCs)
    BY <1>0, <2>1 DEF ChanTypes, Goto, Places, PCs
  <2>8. \A u \in Threads : /\ pc'[u] = "create" <=> pc[u] = "create"
                           /\ pc'[u] \in ChannelPCs <=> pc[u] \in ChannelPCs
    BY <2>7 DEF PCs, ChannelPCs
  <2>9. status' = status /\ UNCHANGED <<chans, chan, using, naming, result>>
    BY <1>2 DEF ParkOn, Park
  <2>10. ChanTypes'
    BY <1>0, <2>6, <2>7, <2>8, <2>9 DEF ChanTypes, Blocked
  <2> QED
    BY <1>1, <2>6, <2>10
<1>3. CASE /\ GoIdle(w) \/ WakeUp(w) \/ Take(w) \/ Requeue(w) \/ DecLpcount(w)
           /\ UNCHANGED chanVars
  <2>1. /\ \E from, to \in PCs : Goto(w, from, to)
        /\ parked' = parked /\ status' = status
    BY <1>3, Zenon DEF GoIdle, WakeUp, Take, Requeue, DecLpcount, procVars, PCs
  <2> QED
    BY <1>0, <1>1, <1>3, <2>1, QuietChan
<1>4. CASE Retire(w) /\ UNCHANGED chanVars
  <2>1. Goto(w, "recycle", "dec") /\ parked' = parked /\ RecycleInsert(cur[w])
    BY <1>4 DEF Retire
  <2>2. \A p \in Procs : \/ status'[p] = status[p]
                         \/ status'[p] \notin {"BLOCKED_SEND", "BLOCKED_RECV"}
    BY <1>0, <2>1 DEF SchedFacts, RecycleInsert
  <2> QED
    BY <1>0, <1>1, <1>4, <2>1, <2>2, QuietChan DEF PCs
<1> QED
  BY <1>2, <1>3, <1>4 DEF LWorkerStep

LEMMA ReturnChan ==
  ASSUME LInv, NEW w \in Workers, LReturn(w)
  PROVE  ChanTypes' /\ Lists' /\ SchedNext
<1>0. ChanTypes /\ Lists /\ SchedFacts /\ w \in Threads /\ pc \in [Threads -> Places]
  BY SchedHolds DEF LInv, ChanTypes, Threads
<1>1. SchedNext
  BY <1>0, ReturnSeen DEF LReturn, SchedNext, P!Next
<1>2. /\ \E from, to \in PCs : Goto(w, from, to)
      /\ parked' = parked
  BY Zenon DEF LReturn, Finish, Fail, Yield, procVars, PCs
<1>3. \A p \in Procs : \/ status'[p] = status[p]
                       \/ status'[p] \notin {"BLOCKED_SEND", "BLOCKED_RECV"}
  BY <1>0 DEF SchedFacts, LReturn, Finish, Fail, Yield, procVars
<1> QED
  BY <1>0, <1>1, <1>2, <1>3, QuietChan DEF LReturn

LEMMA LibraryChan ==
  ASSUME LInv, NEW t \in Threads,
         \/ NewprocFresh(t)
         \/ /\ \/ NewprocLock(t) \/ NewprocLoaded(t) \/ NewprocBadCode(t)
               \/ NewprocBadUpvalue(t) \/ NewprocUndo(t) \/ NewprocInc(t)
               \/ NewprocQueue(t) \/ Wake(t) \/ CallNewproc(t)
            /\ UNCHANGED chanVars
  PROVE  ChanTypes' /\ Lists' /\ SchedNext
<1>0. ChanTypes /\ Lists /\ SchedFacts /\ pc \in [Threads -> Places]
  BY SchedHolds DEF LInv, ChanTypes
<1>1. SchedNext
  <2>1. P!CallStep(t) \/ P!Call(t)
    BY <1>0, NewprocSeen, CallNewprocSeen DEF NewprocFresh, NewprocStep
  <2> QED
    BY <2>1 DEF SchedNext, P!Next, P!Threads, Threads
<1>2. CASE NewprocFresh(t)
  <2>1. /\ Goto(t, "np_make", "np_load")
        /\ parked' = parked
        /\ \E p \in Procs : /\ obj' = [obj EXCEPT ![t] = p]
                            /\ status' = [status EXCEPT ![p] = "IDLE"]
    <3>1. CASE NewprocReuse(t)
      <4>1. Head(recycle) \in Procs
        BY <1>0, <3>1 DEF NewprocReuse, SchedFacts
      <4> QED
        BY <3>1, <4>1 DEF NewprocReuse
    <3>2. CASE \E p \in Procs, h \in Handles : NewprocCreate(t, p, h)
      BY <3>2 DEF NewprocCreate
    <3> QED
      BY <1>2, <3>1, <3>2 DEF NewprocFresh
  <2>2. PICK p \in Procs : /\ obj' = [obj EXCEPT ![t] = p]
                           /\ status' = [status EXCEPT ![p] = "IDLE"]
    BY <2>1
  <2>3. obj'[t] = p
    BY <1>0, <2>2 DEF SchedFacts
  <2>4. /\ chan' = [chan EXCEPT ![p] = NoChan]
        /\ UNCHANGED <<chans, wait, using, naming, result>>
    BY <1>2, <2>3 DEF NewprocFresh
  <2> QED
    BY <1>0, <1>1, <2>1, <2>2, <2>4, FreshChanStep DEF SchedFacts
<1>3. CASE /\ \/ NewprocLock(t) \/ NewprocLoaded(t) \/ NewprocBadCode(t)
              \/ NewprocBadUpvalue(t) \/ NewprocUndo(t) \/ NewprocInc(t)
              \/ NewprocQueue(t) \/ Wake(t) \/ CallNewproc(t)
           /\ UNCHANGED chanVars
  <2>1. /\ \E from, to \in PCs : Goto(t, from, to)
        /\ parked' = parked
    BY <1>3, Zenon
       DEF NewprocLock, NewprocLoaded, NewprocBadCode, NewprocBadUpvalue,
           NewprocUndo, NewprocInc, NewprocQueue, Wake, CallNewproc, procVars, PCs
  <2>2. \A p \in Procs : \/ status'[p] = status[p]
                         \/ status'[p] \notin {"BLOCKED_SEND", "BLOCKED_RECV"}
    BY <1>0, <1>3
       DEF NewprocLock, NewprocLoaded, NewprocBadCode, NewprocBadUpvalue,
           NewprocUndo, NewprocInc, NewprocQueue, Wake, CallNewproc, procVars,
           SchedFacts, RecycleInsert, QueueProc
  <2> QED
    BY <1>0, <1>1, <1>3, <2>1, <2>2, QuietChan
<1> QED
  BY <1>2, <1>3
-----------------------------------------------------------------------------
(* The channel functions.  The scheduler sees the thread execute Lua code,  *)
(* take a parked process, or schedule it.                                   *)

\* The scheduler sees nothing of a step that only moves a thread about.
LEMMA HiddenStep ==
  ASSUME pc \in [Threads -> Places], NEW t \in Threads, NEW from, NEW to,
         Goto(t, from, to), Seen(from) = "lua", Seen(to) = "lua",
         UNCHANGED <<schedVars, procVars, recycleVars, joinVars, cur, obj, handle>>
  PROVE  SchedNext
<1>1. Stand' = Stand
  BY DEF Goto, Stand, Seen
<1> QED
  BY <1>1 DEF SchedNext, P!vars, P!schedVars, P!procVars, P!recycleVars,
              P!threadVars, P!joinVars, schedVars, procVars, recycleVars, joinVars

\* A thread inside a channel function goes on to another place.
LEMMA PlaceTypes ==
  ASSUME ChanTypes, NEW t \in Threads, NEW from, NEW to \in Places,
         Goto(t, from, to), to # "create",
         \/ /\ using' = using
            /\ from \in ChannelPCs \ {"create"} <=> to \in ChannelPCs \ {"create"}
         \/ /\ using' = [using EXCEPT ![t] = NoChan]
            /\ to \notin ChannelPCs \ {"create"}
         \/ \E c \in Chans : /\ using' = [using EXCEPT ![t] = c]
                             /\ to \in ChannelPCs \ {"create"}
  PROVE  /\ pc' \in [Threads -> Places]
         /\ using' \in [Threads -> Chans \cup {NoChan}]
         /\ \A u \in Threads : pc'[u] = "create" => pc[u] = "create" /\ u # t
         /\ \A u \in Threads :
               using'[u] \in Chans <=> pc'[u] \in ChannelPCs \ {"create"}
BY ChannelAssumption DEF ChanTypes, Goto

\* A process is taken from a list and is in the hands of the thread.
LEMMA TakeChan ==
  ASSUME LInv, NEW t \in Threads, NEW from \in ChannelPCs \ {"create"}, NEW to \in Places,
         Seen(from) = "lua", Seen(to) = "wake", Goto(t, from, to),
         \/ using' = using /\ to \in ChannelPCs \ {"create"}
         \/ using' = [using EXCEPT ![t] = NoChan] /\ to = "wake",
         NEW s \in Sides, wait[s][using[t]] # <<>>, Delist(s, using[t]),
         parked' = parked \ {Head(wait[s][using[t]])},
         obj' = [obj EXCEPT ![t] = Head(wait[s][using[t]])],
         NEW outcome \in {"ok", "error"},
         result' = [result EXCEPT ![Head(wait[s][using[t]])] = outcome],
         UNCHANGED <<schedVars, status, lpcount, recycleVars, joinVars, cur,
                     handle, chans, chan, naming>>
  PROVE  ChanTypes' /\ Lists' /\ SchedNext
<1> DEFINE c == using[t]
           lp == Head(wait[s][c])
<1>0. ChanTypes /\ Lists /\ SchedFacts /\ pc \in [Threads -> Places]
  BY SchedHolds DEF LInv, ChanTypes
<1>1. c \in Chans /\ pc[t] = from
  BY <1>0 DEF ChanTypes, Goto
<1>2. parked \subseteq Procs /\ wait \in [Sides -> [Chans -> Seq(Procs)]]
  BY <1>0 DEF SchedFacts, ChanTypes
<1>3. /\ Lists' /\ wait' \in [Sides -> [Chans -> Seq(Procs)]]
      /\ lp \in parked
  BY <1>0, <1>1, <1>2, TakenOff
<1>4. lp \in Procs
  BY <1>2, <1>3
<1>5. /\ pc' \in [Threads -> Places]
      /\ using' \in [Threads -> Chans \cup {NoChan}]
      /\ \A u \in Threads : pc'[u] = "create" => pc[u] = "create"
      /\ \A u \in Threads : using'[u] \in Chans <=> pc'[u] \in ChannelPCs \ {"create"}
  <2>1. to # "create"
    BY DEF Seen, ChannelPCs
  <2>2. "wake" \notin ChannelPCs
    BY DEF ChannelPCs
  <2> QED
    BY <1>0, <2>1, <2>2, PlaceTypes
<1>6. ChanTypes'
  BY <1>0, <1>3, <1>4, <1>5 DEF ChanTypes, Blocked
<1>7. P!Unpark(t, lp)
  <2>1. P!Goto(t, "lua", "wake")
    BY <1>0, GotoSeen
  <2> QED
    BY <1>3, <2>1 DEF P!Unpark, P!schedVars, P!recycleVars, P!joinVars,
                      schedVars, recycleVars, joinVars
<1>8. SchedNext
  BY <1>4, <1>7 DEF SchedNext, P!Next, P!Call, P!Threads, Threads
<1> QED
  BY <1>3, <1>6, <1>8

LEMMA ChannelStepChan ==
  ASSUME LInv, NEW t \in Threads, ChannelStep(t)
  PROVE  ChanTypes' /\ Lists' /\ SchedNext
<1>0. ChanTypes /\ Lists /\ SchedFacts /\ pc \in [Threads -> Places]
  BY SchedHolds DEF LInv, ChanTypes
<1>1. CASE \E c \in Chans : CreateChannel(t, c)
  <2>1. PICK c \in Chans : CreateChannel(t, c)
    BY <1>1
  <2>2. Goto(t, "create", "lua") /\ parked' = parked /\ status' = status
        /\ UNCHANGED <<wait, chan, using, result>>
    BY <2>1 DEF CreateChannel, procVars
  <2>3. /\ pc' \in [Threads -> Places]
        /\ using' \in [Threads -> Chans \cup {NoChan}]
        /\ \A u \in Threads : pc'[u] = "create" => pc[u] = "create" /\ u # t
        /\ \A u \in Threads : using'[u] \in Chans <=> pc'[u] \in ChannelPCs \ {"create"}
    BY <1>0, <2>2, PlaceTypes DEF Places, PCs, ChannelPCs
  <2>4. /\ chans' \in [Names -> Chans \cup {NoChan}]
        /\ naming' = [naming EXCEPT ![t] = Nil]
    BY <1>0, <2>1 DEF CreateChannel, ChanTypes, Goto
  <2>5. ChanTypes'
    BY <1>0, <2>2, <2>3, <2>4 DEF ChanTypes, Blocked
  <2>6. Lists'
    BY <1>0, <2>2, Zenon DEF Lists
  <2>7. SchedNext
    BY <1>0, <2>1, HiddenStep DEF CreateChannel, Seen, ChannelPCs
  <2> QED
    BY <2>5, <2>6, <2>7
<1>2. CASE \E f \in {"send", "receive", "areceive"}, outcome \in {"ok", "error"} :
             Meet(t, f, outcome)
  <2>1. PICK f \in {"send", "receive", "areceive"}, outcome \in {"ok", "error"} :
               Meet(t, f, outcome)
    BY <1>2
  <2>2. /\ f \in ChannelPCs \ {"create"} /\ "wake" \in Places
        /\ Seen(f) = "lua" /\ Seen("wake") = "wake"
        /\ PartnerOf(f) \in Sides
    BY DEF Seen, ChannelPCs, Places, PCs, PartnerOf, Sides
  <2> QED
    BY <2>1, <2>2, TakeChan DEF Meet
<1>3. CASE FindNobody(t)
  <2>1. Goto(t, "areceive", "lua") /\ parked' = parked /\ status' = status
        /\ UNCHANGED <<wait, chans, chan, naming, result>>
        /\ using' = [using EXCEPT ![t] = NoChan]
    BY <1>3 DEF FindNobody, procVars
  <2>2. /\ pc' \in [Threads -> Places]
        /\ using' \in [Threads -> Chans \cup {NoChan}]
        /\ \A u \in Threads : pc'[u] = "create" => pc[u] = "create" /\ u # t
        /\ \A u \in Threads : using'[u] \in Chans <=> pc'[u] \in ChannelPCs \ {"create"}
    BY <1>0, <2>1, PlaceTypes DEF Places, PCs, ChannelPCs
  <2>3. ChanTypes'
    BY <1>0, <2>1, <2>2 DEF ChanTypes, Blocked
  <2>4. Lists'
    BY <1>0, <2>1, Zenon DEF Lists
  <2>5. SchedNext
    BY <1>0, <1>3, HiddenStep DEF FindNobody, Seen, ChannelPCs
  <2> QED
    BY <2>3, <2>4, <2>5
<1>4. CASE \E f \in {"send", "receive"} : t \in Workers /\ BlockOn(t, f)
  <2>1. PICK f \in {"send", "receive"} : t \in Workers /\ BlockOn(t, f)
    BY <1>4
  <2>2. Goto(t, f, "yielded") /\ parked' = parked
        /\ UNCHANGED <<wait, chans, naming>>
        /\ using' = [using EXCEPT ![t] = NoChan]
    BY <2>1 DEF BlockOn
  <2>3. /\ pc' \in [Threads -> Places]
        /\ using' \in [Threads -> Chans \cup {NoChan}]
        /\ \A u \in Threads : pc'[u] = "create" => pc[u] = "create" /\ u # t
        /\ \A u \in Threads : using'[u] \in Chans <=> pc'[u] \in ChannelPCs \ {"create"}
    BY <1>0, <2>2, PlaceTypes DEF Places, PCs, ChannelPCs
  <2>4. using[t] \in Chans /\ cur[t] \in Procs
    BY <1>0, <2>1, <2>2
       DEF ChanTypes, Goto, ChannelPCs, SchedFacts, CurHeld, Idle
  <2>5. /\ chan' = [chan EXCEPT ![cur[t]] = using[t]]
        /\ status' = [status EXCEPT ![cur[t]] = Wish(SideOf(f))]
        /\ result' = [result EXCEPT ![cur[t]] = "none"]
    BY <2>1 DEF BlockOn
  <2>6. /\ chan' \in [Procs -> Chans \cup {NoChan}]
        /\ result' \in [Procs -> {"none", "ok", "error"}]
        /\ \A p \in Procs : Blocked(p)' => chan'[p] \in Chans
    BY <1>0, <2>4, <2>5 DEF ChanTypes, SchedFacts, Blocked
  <2>7. ChanTypes'
    BY <1>0, <2>2, <2>3, <2>6, Zenon DEF ChanTypes
  <2>8. Lists'
    BY <1>0, <2>2, Zenon DEF Lists
  <2>9. P!Block(t, Wish(SideOf(f)))
    <3>1. Seen(f) = "lua" /\ Seen("yielded") = "yielded"
      BY DEF Seen, ChannelPCs
    <3>2. P!Goto(t, "lua", "yielded")
      BY <1>0, <2>2, <3>1, GotoSeen
    <3> QED
      BY <2>1, <3>2 DEF BlockOn, P!Block, P!schedVars, P!recycleVars, P!joinVars,
                        schedVars, recycleVars, joinVars
  <2>10. SchedNext
    BY <2>1, <2>9 DEF SchedNext, P!Next, P!Return, Wish, SideOf
  <2> QED
    BY <2>7, <2>8, <2>10
<1>5. CASE \E s \in Sides : DrainTake(t, s)
  <2>1. PICK s \in Sides : DrainTake(t, s)
    BY <1>5
  <2>2. /\ Draining[s] \in ChannelPCs \ {"create"}
        /\ Dropping[s] \in ChannelPCs \ {"create"} /\ Dropping[s] \in Places
        /\ Seen(Draining[s]) = "lua" /\ Seen(Dropping[s]) = "wake"
    BY DEF Seen, ChannelPCs, Places, Draining, Dropping, Sides
  <2>3. using' = using
    BY <2>1 DEF DrainTake
  <2> QED
    BY <2>1, <2>2, <2>3, TakeChan DEF DrainTake
<1>6. CASE \E s \in Sides : DrainWake(t, s)
  <2>1. PICK s \in Sides : DrainWake(t, s)
    BY <1>6
  <2>2. /\ Draining[s] \in ChannelPCs \ {"create"} /\ Draining[s] \in Places
        /\ Dropping[s] \in ChannelPCs \ {"create"}
        /\ Seen(Draining[s]) = "lua" /\ Seen(Dropping[s]) = "wake"
    BY DEF Seen, ChannelPCs, Places, Draining, Dropping, Sides
  <2>3. Goto(t, Dropping[s], Draining[s]) /\ parked' = parked
        /\ UNCHANGED chanVars /\ QueueProc(obj[t])
    BY <2>1 DEF DrainWake
  <2>4. /\ pc' \in [Threads -> Places]
        /\ using' \in [Threads -> Chans \cup {NoChan}]
        /\ \A u \in Threads : pc'[u] = "create" => pc[u] = "create" /\ u # t
        /\ \A u \in Threads : using'[u] \in Chans <=> pc'[u] \in ChannelPCs \ {"create"}
    BY <1>0, <2>2, <2>3, PlaceTypes DEF chanVars
  <2>5. \A p \in Procs : Blocked(p)' => Blocked(p)
    BY <1>0, <2>3 DEF QueueProc, Blocked, SchedFacts
  <2>6. ChanTypes'
    BY <1>0, <2>3, <2>4, <2>5, Zenon DEF ChanTypes, chanVars
  <2>7. Lists'
    BY <1>0, <2>3, Zenon DEF Lists, chanVars
  <2>8. P!Wake(t)
    <3>1. P!Goto(t, "wake", "lua")
      BY <1>0, <2>2, <2>3, GotoSeen
    <3> QED
      BY <2>1, <3>1 DEF DrainWake, P!Wake, QueueProc, P!QueueProc, PostWakeup,
                        P!PostWakeup, P!recycleVars, P!joinVars, recycleVars, joinVars
  <2>9. SchedNext
    BY <2>8 DEF SchedNext, P!Next, P!CallStep, P!Threads, Threads
  <2> QED
    BY <2>6, <2>7, <2>9
<1>7. CASE \E s \in Sides : DrainEnd(t, s)
  <2>1. PICK s \in Sides : DrainEnd(t, s)
    BY <1>7
  <2>2. Draining[s] \in ChannelPCs /\ Seen(Draining[s]) = "lua" /\ Seen("lua") = "lua"
    BY DEF Seen, ChannelPCs, Draining, Sides
  <2>3. Goto(t, Draining[s], "lua") /\ parked' = parked /\ status' = status
        /\ UNCHANGED <<wait, chans, chan, naming, result>>
        /\ using' = [using EXCEPT ![t] = NoChan]
    BY <2>1 DEF DrainEnd, procVars
  <2>4. /\ pc' \in [Threads -> Places]
        /\ using' \in [Threads -> Chans \cup {NoChan}]
        /\ \A u \in Threads : pc'[u] = "create" => pc[u] = "create" /\ u # t
        /\ \A u \in Threads : using'[u] \in Chans <=> pc'[u] \in ChannelPCs \ {"create"}
    BY <1>0, <2>3, PlaceTypes DEF Places, PCs, ChannelPCs
  <2>5. ChanTypes'
    BY <1>0, <2>3, <2>4 DEF ChanTypes, Blocked
  <2>6. Lists'
    BY <1>0, <2>3, Zenon DEF Lists
  <2>7. SchedNext
    BY <1>0, <2>1, <2>2, HiddenStep DEF DrainEnd
  <2> QED
    BY <2>5, <2>6, <2>7
<1> QED
  BY <1>1, <1>2, <1>3, <1>4, <1>5, <1>6, <1>7 DEF ChannelStep

\* A thread enters a channel function: its place, its channel and the name it
\* creates a channel for.
LEMMA LCallChan ==
  ASSUME LInv, NEW t \in Threads, NEW n \in Names,
         \/ CallNewchannel(t, n) \/ CallDelchannel(t, n)
         \/ \E f \in {"send", "receive", "areceive"} : CallChannel(t, f, n)
  PROVE  ChanTypes' /\ Lists' /\ SchedNext
<1>0. ChanTypes /\ Lists /\ pc \in [Threads -> Places]
  BY DEF LInv, ChanTypes
<1>1. CASE CallNewchannel(t, n)
  <2>1. Goto(t, "lua", "create") /\ parked' = parked /\ status' = status
        /\ UNCHANGED <<wait, chans, chan, using, result>>
        /\ naming' = [naming EXCEPT ![t] = n]
    BY <1>1 DEF CallNewchannel, procVars
  <2>2. ChanTypes'
    BY <1>0, <2>1 DEF ChanTypes, Goto, Blocked, Places, PCs, ChannelPCs
  <2>3. Lists'
    BY <1>0, <2>1, Zenon DEF Lists
  <2>4. SchedNext
    BY <1>0, <1>1, HiddenStep DEF CallNewchannel, Seen, ChannelPCs
  <2> QED
    BY <2>2, <2>3, <2>4
<1>2. CASE CallDelchannel(t, n)
  <2> DEFINE to == Draining[DrainSide(chans[n])]
  <2>1. to \in {"drain_send", "drain_recv"}
    BY DEF Draining, DrainSide
  <2>2. /\ Goto(t, "lua", to) /\ parked' = parked /\ status' = status
        /\ UNCHANGED <<wait, chan, naming, result>>
        /\ using' = [using EXCEPT ![t] = chans[n]]
        /\ chans' = [chans EXCEPT ![n] = NoChan]
        /\ chans[n] \in Chans
    BY <1>0, <1>2 DEF CallDelchannel, procVars, ChanTypes
  <2> HIDE DEF to
  <2>3. /\ pc' \in [Threads -> Places]
        /\ using' \in [Threads -> Chans \cup {NoChan}]
        /\ \A u \in Threads : pc'[u] = "create" => pc[u] = "create" /\ u # t
        /\ \A u \in Threads : using'[u] \in Chans <=> pc'[u] \in ChannelPCs \ {"create"}
    BY <1>0, <2>1, <2>2, PlaceTypes DEF Places, PCs, ChannelPCs
  <2>4. ChanTypes'
    BY <1>0, <2>2, <2>3 DEF ChanTypes, Blocked
  <2>5. Lists'
    BY <1>0, <2>2, Zenon DEF Lists
  <2>6. UNCHANGED <<schedVars, procVars, recycleVars, joinVars, cur, obj, handle>>
    BY <1>2 DEF CallDelchannel
  <2>7. Seen("lua") = "lua" /\ Seen(to) = "lua"
    BY <2>1 DEF Seen, ChannelPCs
  <2>8. SchedNext
    BY <1>0, <2>2, <2>6, <2>7, HiddenStep
  <2> QED
    BY <2>4, <2>5, <2>8
<1>3. CASE \E f \in {"send", "receive", "areceive"} : CallChannel(t, f, n)
  <2>1. PICK f \in {"send", "receive", "areceive"} : CallChannel(t, f, n)
    BY <1>3
  <2>2. /\ Goto(t, "lua", f) /\ parked' = parked /\ status' = status
        /\ UNCHANGED <<wait, chans, chan, naming, result>>
        /\ using' = [using EXCEPT ![t] = chans[n]]
        /\ chans[n] \in Chans
    BY <1>0, <2>1 DEF CallChannel, procVars, ChanTypes
  <2>3. /\ pc' \in [Threads -> Places]
        /\ using' \in [Threads -> Chans \cup {NoChan}]
        /\ \A u \in Threads : pc'[u] = "create" => pc[u] = "create" /\ u # t
        /\ \A u \in Threads : using'[u] \in Chans <=> pc'[u] \in ChannelPCs \ {"create"}
    BY <1>0, <2>2, PlaceTypes DEF Places, PCs, ChannelPCs
  <2>4. ChanTypes'
    BY <1>0, <2>2, <2>3 DEF ChanTypes, Blocked
  <2>5. Lists'
    BY <1>0, <2>2, Zenon DEF Lists
  <2>6. SchedNext
    BY <1>0, <2>1, HiddenStep DEF CallChannel, Seen, ChannelPCs
  <2> QED
    BY <2>4, <2>5, <2>6
<1> QED
  BY <1>1, <1>2, <1>3

LEMMA LInvStep ==
  ASSUME LInv, [LNext]_allVars
  PROVE  LInv' /\ SchedNext
<1>1. CASE LNext
  <2>1. ASSUME NEW w \in Workers, LWorkerStep(w) \/ LReturn(w)
        PROVE  ChanTypes' /\ Lists' /\ SchedNext
    BY <2>1, WorkerChan, ReturnChan
  <2>2. ASSUME NEW t \in Threads, LCall(t) \/ LCallStep(t)
        PROVE  ChanTypes' /\ Lists' /\ SchedNext
    BY <2>2, LCallChan, ChannelStepChan, LibraryChan DEF LCall, LCallStep
  <2>3. ChanTypes' /\ Lists' /\ SchedNext
    BY <1>1, <2>1, <2>2 DEF LNext
  <2> QED
    BY <2>3, SchedStep DEF LInv, SchedNext
<1>2. CASE UNCHANGED allVars
  <2>1. UNCHANGED <<ready, workerscount, destroyworkers, wakeup, table, status,
                    parked, lpcount, recycle, recyclemax, rlock, owner, pc, cur,
                    obj, handle, tojoin, exitsem>>
        /\ UNCHANGED <<chans, wait, chan, using, naming, result>>
    BY <1>2 DEF allVars, vars, chanVars, schedVars, procVars, recycleVars,
                threadVars, joinVars
  <2>2. SchedNext
    BY <2>1 DEF SchedNext, P!vars, P!schedVars, P!procVars, P!recycleVars,
                P!threadVars, P!joinVars, Stand
  <2>3. ChanTypes'
    BY <2>1 DEF LInv, ChanTypes, Blocked
  <2>4. Lists'
    BY <2>1, Zenon DEF LInv, Lists
  <2> QED
    BY <2>2, <2>3, <2>4, SchedStep DEF LInv, SchedNext
<1> QED
  BY <1>1, <1>2

LEMMA LInvCorrect == LSpec => []LInv
<1>1. LInv /\ [LNext]_allVars => LInv'
  BY LInvStep
<1> QED
  BY <1>1, InitLInv, PTL DEF LSpec

\* Every variable of luaproc's channels has its type, whatever the threads do:
\* a blocked process knows its channel, and a thread works on a channel exactly
\* while it is inside a channel function.
THEOREM ChannelTypesCorrect == LSpec => []LTypeOK
BY LInvCorrect, LInvIsLTypeOK, PTL

\* No process is resumed by two workers, or lost, when processes block and wake
\* in channels: what is proved of the scheduler holds with channels.
THEOREM ProcsInOnePlaceWithChannels == LSpec => []OnePlace
<1>1. LInv => OnePlace
  BY SchedHolds, InPlacesIsOnePlace DEF LInv, ChanTypes, SchedFacts
<1> QED
  BY <1>1, LInvCorrect, PTL
-----------------------------------------------------------------------------
(* LuaProc's own instance of the scheduler is the one the lemmas above are   *)
(* about.                                                                   *)

LEMMA SameCardinality == \A S : P!Cardinality(S) = Sched!Cardinality(S)
BY DEF P!Cardinality, Sched!Cardinality, P!IsFiniteSet, Sched!IsFiniteSet

LEMMA SameHandles ==
  /\ P!Handles = Sched!Handles
  /\ \A h : P!FreshHandle(h) <=> Sched!FreshHandle(h)
BY SameCardinality
   DEF P!Handles, Sched!Handles, P!FreshHandle, Sched!FreshHandle, P!Threads,
       Sched!Threads

LEMMA SameWorkerStep ==
  ASSUME NEW w \in Workers, P!WorkerStep(w)
  PROVE  Sched!WorkerStep(w)
BY DEF Stand, P!Threads, Sched!Threads, P!Goto, Sched!Goto, P!schedVars,
      Sched!schedVars, P!procVars, Sched!procVars, P!recycleVars,
      Sched!recycleVars, P!joinVars, Sched!joinVars, P!WorkerStep,
      Sched!WorkerStep, P!GoIdle, Sched!GoIdle, P!WakeUp, Sched!WakeUp,
      P!Destroy, Sched!Destroy, P!PostExit, Sched!PostExit, P!DeleteThread,
      Sched!DeleteThread, P!Take, Sched!Take, P!Retire, Sched!Retire,
      P!DecLpcount, Sched!DecLpcount, P!Park, Sched!Park, P!Requeue,
      Sched!Requeue, P!PostWakeup, Sched!PostWakeup, P!Blocked, Sched!Blocked,
      P!Acquirable, Sched!Acquirable, P!RecycleInsert, Sched!RecycleInsert

LEMMA SameReturn ==
  ASSUME NEW w \in Workers, P!Return(w)
  PROVE  Sched!Return(w)
BY DEF Stand, P!Threads, Sched!Threads, P!Goto, Sched!Goto, P!schedVars,
      Sched!schedVars, P!procVars, Sched!procVars, P!recycleVars,
      Sched!recycleVars, P!joinVars, Sched!joinVars, P!Return, Sched!Return,
      P!Finish, Sched!Finish, P!Fail, Sched!Fail, P!Yield, Sched!Yield,
      P!Block, Sched!Block

LEMMA SameNewproc ==
  ASSUME NEW t \in Threads, P!NewprocStep(t)
  PROVE  Sched!NewprocStep(t)
BY SameHandles
   DEF Stand, P!Threads, Sched!Threads, P!Goto, Sched!Goto, P!schedVars,
      Sched!schedVars, P!procVars, Sched!procVars, P!recycleVars,
      Sched!recycleVars, P!joinVars, Sched!joinVars, P!NewprocStep,
      Sched!NewprocStep, P!NewprocLock, Sched!NewprocLock, P!NewprocReuse,
      Sched!NewprocReuse, P!NewprocCreate, Sched!NewprocCreate,
      P!NewprocLoaded, Sched!NewprocLoaded, P!NewprocBadCode,
      Sched!NewprocBadCode, P!NewprocBadUpvalue, Sched!NewprocBadUpvalue,
      P!NewprocUndo, Sched!NewprocUndo, P!NewprocInc, Sched!NewprocInc,
      P!NewprocQueue, Sched!NewprocQueue, P!PostWakeup, Sched!PostWakeup,
      P!QueueProc, Sched!QueueProc, P!Acquirable, Sched!Acquirable,
      P!RecycleInsert, Sched!RecycleInsert

LEMMA SameCallStep ==
  ASSUME NEW t \in Threads, P!CallStep(t)
  PROVE  Sched!CallStep(t)
BY SameNewproc
   DEF Stand, P!Threads, Sched!Threads, P!Goto, Sched!Goto, P!schedVars,
      Sched!schedVars, P!procVars, Sched!procVars, P!recycleVars,
      Sched!recycleVars, P!joinVars, Sched!joinVars, P!CallStep,
      Sched!CallStep, P!Wake, Sched!Wake, P!RecycleSet, Sched!RecycleSet,
      P!SchedWait, Sched!SchedWait, P!QueueProc, Sched!QueueProc,
      P!PostWakeup, Sched!PostWakeup, P!Acquirable, Sched!Acquirable

LEMMA SameCall ==
  ASSUME NEW t \in Threads, P!Call(t)
  PROVE  Sched!Call(t)
<1>1. P!StructureLeft <=> Sched!StructureLeft
  BY SameCardinality DEF Stand, P!StructureLeft, Sched!StructureLeft, P!Threads, Sched!Threads
<1> QED
  BY <1>1, SameCardinality
     DEF Stand, P!Threads, Sched!Threads, P!Goto, Sched!Goto, P!schedVars,
      Sched!schedVars, P!procVars, Sched!procVars, P!recycleVars,
      Sched!recycleVars, P!joinVars, Sched!joinVars, P!Call, Sched!Call,
      P!CallNewproc, Sched!CallNewproc, P!Unpark, Sched!Unpark, P!Grow,
      Sched!Grow, P!Shrink, Sched!Shrink, P!CallRecycle, Sched!CallRecycle,
      P!CallWait, Sched!CallWait, P!MayCall, Sched!MayCall, P!PostWakeup,
      Sched!PostWakeup, P!GrownCount, Sched!GrownCount, P!threadVars,
      Sched!threadVars

LEMMA SameJoin ==
  ASSUME P!JoinStep \/ P!CallJoin
  PROVE  Sched!JoinStep \/ Sched!CallJoin
BY DEF Stand, P!Threads, Sched!Threads, P!Goto, Sched!Goto, P!schedVars,
      Sched!schedVars, P!procVars, Sched!procVars, P!recycleVars,
      Sched!recycleVars, P!joinVars, Sched!joinVars, P!JoinStep,
      Sched!JoinStep, P!CallJoin, Sched!CallJoin, P!MayCall, Sched!MayCall,
      P!JoinMark, Sched!JoinMark, P!JoinOne, Sched!JoinOne, P!JoinEnd,
      Sched!JoinEnd, P!PostWakeup, Sched!PostWakeup, P!threadVars,
      Sched!threadVars

LEMMA SameNext == SchedNext => [Sched!Next]_(Sched!vars)
BY SameWorkerStep, SameReturn, SameCallStep, SameCall, SameJoin
   DEF Stand, SchedNext, Threads, P!Next, Sched!Next, P!Threads, Sched!Threads,
      P!vars, Sched!vars, P!schedVars, Sched!schedVars, P!procVars,
      Sched!procVars, P!recycleVars, Sched!recycleVars, P!threadVars,
      Sched!threadVars, P!joinVars, Sched!joinVars

LEMMA LInitIsSchedInit == LInit => Sched!Init
<1> SUFFICES ASSUME LInit PROVE Sched!Init
  OBVIOUS
<1>1. Stand = [t \in Sched!Threads |-> CASE t = Main -> "lua"
                                         [] t \in InitialWorkers -> "loop"
                                         [] OTHER -> "unborn"]
  BY DEF Stand, LInit, Init, InitWith, Threads, Sched!Threads, ChannelPCs
<1>2. \A S : Sched!Cardinality(S) = Cardinality(S)
  BY SameCardinality, CardinalitySeen
<1>3. Sched!Handles = Handles
  BY <1>2 DEF Handles, Sched!Handles, Threads, Sched!Threads
<1> QED
  BY <1>1, <1>2, <1>3
     DEF LInit, Init, InitWith, Sched!Init, Sched!InitWith, Threads,
         Sched!Threads, Stand

\* With its channels hidden, LuaProc does what the scheduler does, for any
\* number of workers, however their channel functions interleave: send, receive
\* and delchannel wake only processes that are parked, each of them once.
THEOREM SchedImplementedWithChannels == LSpec => ImplementsSched
<1>1. LInv /\ [LNext]_allVars => [Sched!Next]_(Sched!vars)
  BY LInvStep, SameNext
<1> QED
  BY <1>1, LInitIsSchedInit, LInvCorrect, PTL DEF LSpec, ImplementsSched, Sched!Spec
=============================================================================
