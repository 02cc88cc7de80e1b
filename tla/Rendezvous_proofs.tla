--------------------------- MODULE Rendezvous_proofs ---------------------------
(***************************************************************************)
(* Proofs about LuaProc when one worker executes the lua processes and the *)
(* main state calls no channel function: no sender and receiver miss each  *)
(* other, no process is stranded, and the channels implement the           *)
(* rendezvous they promise.  (With two workers the code breaks the first:  *)
(* the run LuaProcTwo.)                                                    *)
(***************************************************************************)
EXTENDS LuaProc_proofs

ChannelCalls == {"newchannel", "delchannel", "send", "receive", "areceive"}

OneAtATime ==
    /\ \A v, w \in Workers : v = w
    /\ MainCalls \cap ChannelCalls = {}

-----------------------------------------------------------------------------
(* Why nobody is missed or stranded.  No channel function of another thread *)
(* runs between the moment the worker looks for a partner and the moment it *)
(* has queued the process, so what it saw is still true: the other list is  *)
(* empty and the channel is in the table.                                   *)

Other(s) == IF s = "send" THEN "recv" ELSE "send"

\* The channel can be found under some name.
Named(c) == \E n \in Names : chans[n] = c

MainOut == pc[Main] \notin ChannelPCs

\* A process that is ready, or executing, wishes for nothing.
NotBlocked ==
    /\ \A p \in Elements(ready) : ~Blocked(p)
    /\ \A w \in Workers : pc[w] \notin Idle \cup {"yielded"} => ~Blocked(cur[w])

\* Who is in a list has noted it; who is parked is in a list.
WaitNoted ==
    \A s \in Sides, c \in Chans :
        \A p \in Elements(wait[s][c]) : status[p] = Wish(s) /\ chan[p] = c

ParkedWaits ==
    \A p \in parked : \E s \in Sides, c \in Chans : p \in Elements(wait[s][c])

\* The process on its way to a list will be found there, and misses nobody.
Coming ==
    \A w \in Workers, s \in Sides :
        pc[w] = "yielded" /\ status[cur[w]] = Wish(s)
            => Named(chan[cur[w]]) /\ wait[Other(s)][chan[cur[w]]] = <<>>

OneName ==
    \A n, m \in Names : chans[n] = chans[m] => n = m \/ chans[n] = NoChan

Creating == \A w \in Workers : pc[w] = "create" => chans[naming[w]] = NoChan

UsingNamed ==
    \A w \in Workers : pc[w] \in {"send", "receive", "areceive"} => Named(using[w])

Emptying ==
    \A w \in Workers, s \in Sides :
        pc[w] \in {Draining[s], Dropping[s]}
            => ~Named(using[w]) /\ wait[Other(s)][using[w]] = <<>>

ListReached ==
    \A s \in Sides, c \in Chans :
        wait[s][c] # <<>>
            => \/ Named(c)
               \/ \E w \in Workers : /\ using[w] = c
                                     /\ pc[w] \in {Draining[s], Dropping[s]}

MeetInv ==
    /\ MainOut
    /\ NotBlocked
    /\ WaitNoted
    /\ ParkedWaits
    /\ Coming
    /\ OneName
    /\ Creating
    /\ UsingNamed
    /\ Emptying
    /\ ListReached
    /\ NoMissedRendezvous

LEMMA InitMeetInv == LInit => MeetInv
<1> SUFFICES ASSUME LInit PROVE MeetInv
  OBVIOUS
<1>1. /\ \A w \in Workers : pc[w] \in {"loop", "unborn"}
      /\ pc[Main] = "lua" /\ ready = <<>> /\ parked = {}
  BY SchedAssumption DEF LInit, Init, InitWith, Threads, SchedAssumption
<1>2. /\ chans = [n \in Names |-> NoChan]
      /\ \A s \in Sides, c \in Chans : wait[s][c] = <<>>
  BY DEF LInit, ChanInit
<1> QED
  BY <1>1, <1>2
     DEF MeetInv, MainOut, NotBlocked, WaitNoted, ParkedWaits, Coming, OneName,
         Creating, UsingNamed, Emptying, ListReached, NoMissedRendezvous,
         ChannelPCs, Elements, Idle, Draining, Dropping, Sides

LEMMA NoneStrandedFollows == LInv /\ MeetInv => NoneStranded
<1> SUFFICES ASSUME LInv, MeetInv, NEW p \in parked PROVE Reachable(p)
  BY DEF NoneStranded
<1>1. PICK s \in Sides, c \in Chans : p \in Elements(wait[s][c])
  BY DEF MeetInv, ParkedWaits
<1>2. status[p] = Wish(s) /\ chan[p] = c
  BY <1>1 DEF MeetInv, WaitNoted
<1>3. wait[s][c] # <<>>
  BY <1>1 DEF Elements
<1>4. \/ \E n \in Names : chans[n] = c
      \/ \E t \in Threads : using[t] = c /\ pc[t] \in {Draining[s], Dropping[s]}
  BY <1>3 DEF MeetInv, ListReached, Named, Threads
<1> QED
  BY <1>1, <1>2, <1>4 DEF Reachable
-----------------------------------------------------------------------------
(* The steps LuaProc shares with the scheduler. *)

WorkerMove(w) ==
    \/ GoIdle(w) \/ WakeUp(w) \/ Take(w) \/ Requeue(w) \/ Retire(w)
    \/ DecLpcount(w) \/ Finish(w) \/ Fail(w) \/ Yield(w)

NewprocMove(t) ==
    \/ NewprocLock(t) \/ NewprocLoaded(t) \/ NewprocBadCode(t)
    \/ NewprocBadUpvalue(t) \/ NewprocUndo(t) \/ NewprocInc(t)
    \/ NewprocQueue(t) \/ Wake(t) \/ CallNewproc(t)

SharedStep(t) ==
    \/ t \in Workers /\ WorkerMove(t) /\ UNCHANGED chanVars
    \/ NewprocMove(t) /\ UNCHANGED chanVars
    \/ NewprocFresh(t)

\* The processes that a step of t leaves alone.
Kept(p) == status'[p] = status[p] /\ chan'[p] = chan[p]

\* What such a step does to the channels' part of the state.
Aside(t) ==
    /\ \E from, to \in PCs : Goto(t, from, to)
    /\ UNCHANGED <<parked, chans, wait, using, naming, result>>
    /\ \A p \in Procs : \/ Kept(p)
                        \/ /\ p \notin parked
                           /\ status'[p] \notin {"BLOCKED_SEND", "BLOCKED_RECV"}
                           /\ \A v \in Workers \ {t} : cur[v] # p
    /\ \A v \in Workers \ {t} : cur'[v] = cur[v]
    /\ t \in Workers /\ pc[t] = "yielded" => ~Blocked(cur[t])
    /\ t \in Workers /\ pc'[t] = "yielded" => ~Blocked(cur[t])'

LEMMA ProcApart ==
  ASSUME SchedFacts, NEW p \in Procs
  PROVE  /\ p \in Elements(ready) => p \notin Running /\ p \notin parked /\ p \notin Held
                                     /\ p \notin Elements(recycle) /\ status[p] # "FREE"
         /\ p \in Running => p \notin parked /\ p \notin Held
                             /\ p \notin Elements(recycle) /\ status[p] # "FREE"
         /\ p \in parked => p \notin Held /\ p \notin Elements(recycle)
                            /\ status[p] # "FREE"
BY DEF SchedFacts, InPlaces, Apart, Free

LEMMA CurRuns ==
  ASSUME SchedFacts, NEW w \in Workers, pc[w] \notin Idle
  PROVE  /\ cur[w] \in Procs /\ cur[w] \in Running /\ cur[w] \notin parked
         /\ \A v \in Workers \ {w} : cur[v] # cur[w]
<1>1. cur[w] \in Procs /\ cur[w] # Nil
  BY SchedAssumption DEF SchedFacts, CurHeld, SchedAssumption
<1>2. cur[w] \in Running
  BY <1>1 DEF Running
<1> QED
  BY <1>1, <1>2, ProcApart DEF SchedFacts, InPlaces, Distinct

LEMMA ObjHeldApart ==
  ASSUME SchedFacts, NEW t \in Threads, pc[t] \in Handing
  PROVE  /\ obj[t] \in Procs /\ obj[t] \notin parked /\ obj[t] \notin Elements(ready)
         /\ \A v \in Workers : cur[v] # obj[t]
<1>1. obj[t] \in Procs /\ obj[t] # Nil
  BY SchedAssumption DEF SchedFacts, SchedAssumption
<1>2. obj[t] \in Held
  BY <1>1 DEF Held
<1>3. obj[t] \notin Running
  BY <1>1, <1>2, ProcApart
<1>4. \A v \in Workers : cur[v] # obj[t]
  BY <1>1, <1>3 DEF Running
<1> QED
  BY <1>1, <1>2, <1>4, ProcApart

LEMMA WorkerAside ==
  ASSUME LInv, NotBlocked, NEW w \in Workers, WorkerMove(w), UNCHANGED chanVars
  PROVE  Aside(w) /\ NotBlocked'
<1>0. /\ SchedFacts /\ w \in Threads /\ pc \in [Threads -> Places]
      /\ Workers \subseteq Threads
  BY SchedHolds DEF LInv, ChanTypes, Threads
<1> USE DEF chanVars, PCs, Goto, Kept
<1>1. CASE GoIdle(w) \/ WakeUp(w) \/ DecLpcount(w)
  <2>1. /\ ready' = ready /\ cur' = cur /\ status' = status /\ parked' = parked
        /\ \A v \in Workers \ {w} : pc'[v] = pc[v]
        /\ pc[w] \in Idle /\ pc'[w] \in Idle
        /\ \E from, to \in PCs : Goto(w, from, to)
    BY <1>0, <1>1 DEF GoIdle, WakeUp, DecLpcount, schedVars, procVars, Idle
  <2>2. NotBlocked'
    BY <1>0, <2>1 DEF NotBlocked, Blocked
  <2> QED
    BY <2>1, <2>2 DEF Aside, Idle
<1>2. CASE Take(w)
  <2>1. /\ ready # <<>> /\ ready \in Seq(Procs) /\ NoRepeats(ready)
        /\ cur' = [cur EXCEPT ![w] = Head(ready)] /\ ready' = Tail(ready)
        /\ status' = status /\ parked' = parked
        /\ pc[w] = "loop" /\ pc' = [pc EXCEPT ![w] = "lua"]
    BY <1>0, <1>2 DEF Take, procVars, SchedFacts, InPlaces
  <2>2. /\ Head(ready) \in Elements(ready)
        /\ Elements(ready') = Elements(ready) \ {Head(ready)}
    BY <2>1, TailPlace
  <2>3. cur'[w] = Head(ready) /\ \A v \in Workers \ {w} : cur'[v] = cur[v] /\ pc'[v] = pc[v]
    BY <1>0, <2>1 DEF SchedFacts
  <2>4. NotBlocked'
    BY <2>1, <2>2, <2>3 DEF NotBlocked, Blocked
  <2>5. pc'[w] = "lua"
    BY <1>0, <2>1
  <2> QED
    BY <2>1, <2>3, <2>4, <2>5 DEF Aside
<1>3. CASE Requeue(w)
  <2>1. /\ ready \in Seq(Procs) /\ cur[w] \in Procs /\ ~Blocked(cur[w])
        /\ cur' = [cur EXCEPT ![w] = Nil] /\ ready' = Append(ready, cur[w])
        /\ status' = status /\ parked' = parked
        /\ pc[w] = "yielded" /\ pc' = [pc EXCEPT ![w] = "loop"]
    BY <1>0, <1>3, CurRuns DEF Requeue, procVars, SchedFacts, Idle
  <2>2. Elements(ready') = Elements(ready) \cup {cur[w]}
    BY <2>1, AppendPlace
  <2>3. \A v \in Workers \ {w} : cur'[v] = cur[v] /\ pc'[v] = pc[v]
    BY <1>0, <2>1 DEF SchedFacts
  <2>4. pc'[w] = "loop"
    BY <1>0, <2>1
  <2>5. NotBlocked'
    BY <2>1, <2>2, <2>3, <2>4 DEF NotBlocked, Blocked, Idle
  <2> QED
    BY <2>1, <2>3, <2>4, <2>5 DEF Aside
<1>4. CASE Yield(w)
  <2>1. /\ ready' = ready /\ cur' = cur /\ status' = status /\ parked' = parked
        /\ pc[w] = "lua" /\ pc' = [pc EXCEPT ![w] = "yielded"]
    BY <1>4 DEF Yield, schedVars, procVars
  <2>2. pc'[w] = "yielded" /\ \A v \in Workers \ {w} : pc'[v] = pc[v]
    BY <1>0, <2>1
  <2>3. NotBlocked' /\ ~Blocked(cur[w])
    BY <2>1, <2>2 DEF NotBlocked, Blocked, Idle
  <2> QED
    BY <2>1, <2>2, <2>3 DEF Aside, Blocked
<1>5. CASE Finish(w) \/ Fail(w) \/ Retire(w)
  <2>1. /\ pc[w] \in {"lua", "recycle"} /\ ready' = ready /\ parked' = parked
        /\ \E from, to \in PCs : Goto(w, from, to)
        /\ pc'[w] \in {"recycle", "dec"}
        /\ \A v \in Workers \ {w} : pc'[v] = pc[v]
    BY <1>0, <1>5 DEF Finish, Fail, Retire, schedVars
  <2>2. cur[w] \in Procs /\ cur[w] \in Running /\ cur[w] \notin parked
        /\ \A v \in Workers \ {w} : cur[v] # cur[w]
    BY <1>0, <2>1, CurRuns DEF Idle
  <2>3. /\ \A p \in Procs : p # cur[w] => status'[p] = status[p]
        /\ status'[cur[w]] \notin {"BLOCKED_SEND", "BLOCKED_RECV"}
        /\ \A v \in Workers \ {w} : cur'[v] = cur[v]
    <3>1. ~Blocked(cur[w]) /\ status \in [Procs -> Statuses]
      BY <1>0, <2>1 DEF NotBlocked, Idle, SchedFacts
    <3> QED
      BY <1>0, <1>5, <2>2, <3>1
         DEF Finish, Fail, Retire, RecycleInsert, SchedFacts, Blocked
  <2>4. \A p \in Elements(ready') : ~Blocked(p)'
    <3>1. cur[w] \notin Elements(ready) /\ Elements(ready) \subseteq Procs
      BY <1>0, <2>2, ProcApart DEF SchedFacts, Elements
    <3> QED
      BY <2>1, <2>3, <3>1 DEF NotBlocked, Blocked
  <2>5. NotBlocked'
    <3>1. pc'[w] \notin Idle => cur'[w] = cur[w]
      BY <1>0, <1>5 DEF Finish, Fail, Retire, Idle
    <3>2. ASSUME NEW v \in Workers, pc'[v] \notin Idle \cup {"yielded"}
          PROVE  status'[cur'[v]] \notin {"BLOCKED_SEND", "BLOCKED_RECV"}
      <4>1. CASE v = w
        BY <2>3, <3>1, <3>2, <4>1
      <4>2. CASE v # w
        <5>1. pc[v] \notin Idle \cup {"yielded"} /\ cur'[v] = cur[v] /\ cur[v] # cur[w]
          BY <2>1, <2>2, <2>3, <3>2, <4>2
        <5>2. cur[v] \in Procs
          BY <1>0, <5>1 DEF SchedFacts, CurHeld
        <5> QED
          BY <2>3, <5>1, <5>2 DEF NotBlocked, Blocked
      <4> QED
        BY <4>1, <4>2
    <3> QED
      BY <2>4, <3>2 DEF NotBlocked, Blocked
  <2>6. \A p \in Procs : \/ Kept(p)
                         \/ /\ p \notin parked
                            /\ status'[p] \notin {"BLOCKED_SEND", "BLOCKED_RECV"}
                            /\ \A v \in Workers \ {w} : cur[v] # p
    BY <2>2, <2>3
  <2> QED
    BY <2>1, <2>3, <2>5, <2>6 DEF Aside
<1> QED
  BY <1>1, <1>2, <1>3, <1>4, <1>5 DEF WorkerMove

LEMMA NewprocAside ==
  ASSUME LInv, NotBlocked, NEW t \in Threads,
         \/ NewprocMove(t) /\ UNCHANGED chanVars
         \/ NewprocFresh(t)
  PROVE  Aside(t) /\ NotBlocked'
<1>0. /\ SchedFacts /\ pc \in [Threads -> Places] /\ chan \in [Procs -> Chans \cup {NoChan}]
      /\ Workers \subseteq Threads
  BY SchedHolds DEF LInv, ChanTypes, Threads
<1>1. /\ \E from, to \in PCs : Goto(t, from, to)
      /\ UNCHANGED <<parked, chans, wait, using, naming, result, cur>>
      /\ pc[t] \notin Idle \cup {"yielded"}
      /\ \A v \in Workers : pc'[v] \notin Idle \cup {"yielded"}
                              => pc[v] \notin Idle \cup {"yielded"}
      /\ pc'[t] # "yielded"
  <2>1. /\ \E from, to \in PCs \ (Idle \cup {"yielded"}) : Goto(t, from, to)
        /\ UNCHANGED <<parked, chans, wait, using, naming, result, cur>>
    BY Zenon
       DEF NewprocMove, NewprocLock, NewprocLoaded, NewprocBadCode,
           NewprocBadUpvalue, NewprocUndo, NewprocInc, NewprocQueue, Wake,
           CallNewproc, NewprocFresh, NewprocReuse, NewprocCreate, procVars,
           chanVars, PCs, Idle
  <2> QED
    BY <1>0, <2>1 DEF Goto
\* The one process it changes, and the one it schedules.
<1>2. \E x : /\ \A p \in Procs \ {x} : Kept(p)
             /\ \/ Kept(x)
                \/ /\ x \notin parked
                   /\ status'[x] \notin {"BLOCKED_SEND", "BLOCKED_RECV"}
                   /\ \A v \in Workers : cur[v] # x
             /\ Elements(ready') \subseteq Elements(ready) \cup {x}
             /\ x \in Elements(ready') =>
                   status'[x] \notin {"BLOCKED_SEND", "BLOCKED_RECV"}
  <2>1. CASE /\ \/ NewprocLock(t) \/ NewprocLoaded(t) \/ NewprocBadUpvalue(t)
                \/ NewprocInc(t) \/ CallNewproc(t)
             /\ UNCHANGED chanVars
    <3>1. ready' = ready /\ status' = status /\ chan' = chan
      BY <2>1, Zenon DEF NewprocLock, NewprocLoaded, NewprocBadUpvalue, NewprocInc,
                         CallNewproc, schedVars, procVars, chanVars
    <3>2. Nil \notin Elements(ready)
      BY <1>0, SchedAssumption DEF SchedFacts, SchedAssumption, Elements
    <3>3. /\ \A p \in Procs \ {Nil} : Kept(p)
          /\ Kept(Nil)
          /\ Elements(ready') \subseteq Elements(ready) \cup {Nil}
          /\ Nil \notin Elements(ready')
      BY <3>1, <3>2 DEF Kept
    <3> QED
      BY <3>3
  <2>2. CASE /\ \/ NewprocBadCode(t) \/ NewprocUndo(t) \/ NewprocQueue(t) \/ Wake(t)
             /\ UNCHANGED chanVars
    <3>1. pc[t] \in Handing
      BY <2>2, Zenon DEF NewprocBadCode, NewprocUndo, NewprocQueue, Wake, Goto,
                         Handing, Holding
    <3>2. /\ obj[t] \in Procs /\ obj[t] \notin parked
          /\ obj[t] \notin Elements(ready)
          /\ \A v \in Workers : cur[v] # obj[t]
      BY <1>0, <3>1, ObjHeldApart
    <3>3. ready \in Seq(Procs) /\ status \in [Procs -> Statuses]
      BY <1>0 DEF SchedFacts
    <3>4. CASE NewprocBadCode(t)
      <4>1. ready' = ready /\ status' = [status EXCEPT ![obj[t]] = "FREE"] /\ chan' = chan
        BY <2>2, <3>4 DEF NewprocBadCode, schedVars, chanVars
      <4> QED
        BY <3>2, <3>3, <4>1 DEF Kept
    <3>5. CASE NewprocUndo(t)
      <4>1. /\ ready' = ready /\ chan' = chan
            /\ status' \in {status, [status EXCEPT ![obj[t]] = "FREE"]}
        BY <2>2, <3>5 DEF NewprocUndo, schedVars, chanVars, RecycleInsert
      <4> QED
        BY <3>2, <3>3, <4>1 DEF Kept
    <3>6. CASE NewprocQueue(t) \/ Wake(t)
      <4>1. /\ ready' = Append(ready, obj[t]) /\ chan' = chan
            /\ status' = [status EXCEPT ![obj[t]] = "READY"]
        BY <2>2, <3>6 DEF NewprocQueue, Wake, QueueProc, chanVars
      <4>2. Elements(ready') = Elements(ready) \cup {obj[t]}
        BY <3>2, <3>3, <4>1, AppendPlace
      <4> QED
        BY <3>2, <3>3, <4>1, <4>2 DEF Kept
    <3> QED
      BY <2>2, <3>4, <3>5, <3>6
  <2>3. CASE NewprocFresh(t)
    <3>1. \E x \in Procs :
            /\ status' = [status EXCEPT ![x] = "IDLE"]
            /\ obj' = [obj EXCEPT ![t] = x]
            /\ ready' = ready
            /\ x \in Elements(recycle) \/ status[x] = "FREE"
      <4>1. CASE NewprocReuse(t)
        <5>1. Head(recycle) \in Procs /\ Head(recycle) \in Elements(recycle)
          BY <1>0, <4>1, TailPlace DEF NewprocReuse, SchedFacts, InPlaces
        <5> QED
          BY <4>1, <5>1 DEF NewprocReuse, schedVars
      <4>2. CASE \E p \in Procs, h \in Handles : NewprocCreate(t, p, h)
        BY <4>2 DEF NewprocCreate, schedVars
      <4> QED
        BY <2>3, <4>1, <4>2 DEF NewprocFresh
    <3>2. PICK x \in Procs :
            /\ status' = [status EXCEPT ![x] = "IDLE"]
            /\ obj' = [obj EXCEPT ![t] = x]
            /\ ready' = ready
            /\ x \in Elements(recycle) \/ status[x] = "FREE"
      BY <3>1
    <3>3. x \notin Elements(ready) /\ x \notin Running /\ x \notin parked
      BY <1>0, <3>2, ProcApart
    <3>4. \A v \in Workers : cur[v] # x
      BY <3>3, SchedAssumption DEF Running, SchedAssumption
    <3>5. chan' = [chan EXCEPT ![x] = NoChan]
      BY <1>0, <2>3, <3>2 DEF NewprocFresh, SchedFacts
    <3>6. status \in [Procs -> Statuses]
      BY <1>0 DEF SchedFacts
    <3> QED
      BY <1>0, <3>2, <3>3, <3>4, <3>5, <3>6 DEF Kept
  <2> QED
    BY <2>1, <2>2, <2>3 DEF NewprocMove
<1>3. PICK x : /\ \A p \in Procs \ {x} : Kept(p)
               /\ \/ Kept(x)
                  \/ /\ x \notin parked
                     /\ status'[x] \notin {"BLOCKED_SEND", "BLOCKED_RECV"}
                     /\ \A v \in Workers : cur[v] # x
               /\ Elements(ready') \subseteq Elements(ready) \cup {x}
               /\ x \in Elements(ready') =>
                     status'[x] \notin {"BLOCKED_SEND", "BLOCKED_RECV"}
  BY <1>2
<1>4. NotBlocked'
  <2>1. ASSUME NEW p \in Elements(ready')
        PROVE  status'[p] \notin {"BLOCKED_SEND", "BLOCKED_RECV"}
    <3>1. Elements(ready) \subseteq Procs
      BY <1>0 DEF SchedFacts, Elements
    <3> QED
      BY <1>3, <3>1 DEF NotBlocked, Blocked, Kept
  <2>2. ASSUME NEW v \in Workers, pc'[v] \notin Idle \cup {"yielded"}
        PROVE  status'[cur'[v]] \notin {"BLOCKED_SEND", "BLOCKED_RECV"}
    <3>1. pc[v] \notin Idle \cup {"yielded"} /\ cur'[v] = cur[v]
      BY <1>1, <2>2
    <3>2. cur[v] \in Procs
      BY <1>0, <3>1 DEF SchedFacts, CurHeld
    <3> QED
      BY <1>3, <3>1, <3>2 DEF NotBlocked, Blocked, Kept
  <2> QED
    BY <2>1, <2>2 DEF NotBlocked, Blocked
<1>5. \A p \in Procs : \/ Kept(p)
                       \/ /\ p \notin parked
                          /\ status'[p] \notin {"BLOCKED_SEND", "BLOCKED_RECV"}
                          /\ \A v \in Workers \ {t} : cur[v] # p
  BY <1>3
<1> QED
  BY <1>1, <1>4, <1>5 DEF Aside

LEMMA SharedAside ==
  ASSUME LInv, NotBlocked, NEW t \in Threads, SharedStep(t)
  PROVE  Aside(t) /\ NotBlocked'
BY WorkerAside, NewprocAside DEF SharedStep

\* Such a step breaks nothing: nobody in a list, or on the way to one, is
\* touched.
LEMMA AsideMeets ==
  ASSUME LInv, MeetInv, NEW t \in Threads, Aside(t), NotBlocked'
  PROVE  MeetInv'
<1>0. SchedFacts /\ pc \in [Threads -> Places] /\ Workers \subseteq Threads
      /\ Lists /\ parked \subseteq Procs
  BY SchedHolds DEF LInv, ChanTypes, Threads, SchedFacts
<1>1. UNCHANGED <<parked, chans, wait, using, naming>>
  BY DEF Aside
<1>2. \A u \in Threads : pc'[u] = pc[u] \/ (u = t /\ pc[u] \in PCs /\ pc'[u] \in PCs)
  BY <1>0 DEF Aside, Goto
<1>3. \A u \in Threads : pc'[u] \in ChannelPCs \/ pc[u] \in ChannelPCs => pc'[u] = pc[u]
  BY <1>2 DEF PCs, ChannelPCs
<1>4. \A s \in Sides : /\ Draining[s] \in ChannelPCs /\ Dropping[s] \in ChannelPCs
                       /\ Wish(s) \in {"BLOCKED_SEND", "BLOCKED_RECV"}
  BY DEF Draining, Dropping, ChannelPCs, Sides, Wish
<1>5. MainOut'
  BY <1>3 DEF MeetInv, MainOut, Threads
<1>6. WaitNoted'
  <2> SUFFICES ASSUME NEW s \in Sides, NEW c \in Chans, NEW p \in Elements(wait[s][c])
               PROVE  status'[p] = Wish(s) /\ chan'[p] = c
    BY <1>1 DEF WaitNoted
  <2>1. p \in parked /\ p \in Procs
    BY <1>0 DEF Lists
  <2> QED
    BY <2>1 DEF Aside, Kept, MeetInv, WaitNoted
<1>7. ParkedWaits' /\ OneName' /\ NoMissedRendezvous'
  BY <1>1, Zenon DEF MeetInv, ParkedWaits, OneName, NoMissedRendezvous
<1>8. Coming'
  <2> SUFFICES ASSUME NEW w \in Workers, NEW s \in Sides, pc'[w] = "yielded",
                      status'[cur'[w]] = Wish(s)
               PROVE  Named(chan'[cur'[w]]) /\ wait[Other(s)][chan'[cur'[w]]] = <<>>
    BY <1>1 DEF Coming, Named
  <2>1. w # t
    BY <1>4 DEF Aside, Blocked
  <2>2. pc[w] = "yielded" /\ cur'[w] = cur[w]
    BY <1>0, <1>2, <2>1 DEF Aside
  <2>3. cur[w] \in Procs
    BY <1>0, <2>2 DEF SchedFacts, CurHeld, Idle
  <2>4. Kept(cur[w])
    BY <1>4, <2>1, <2>2, <2>3 DEF Aside
  <2> QED
    BY <2>2, <2>4 DEF Kept, MeetInv, Coming
<1>9. Creating' /\ UsingNamed'
  BY <1>0, <1>1, <1>3 DEF MeetInv, Creating, UsingNamed, Named, ChannelPCs
<1>10. Emptying'
  BY <1>0, <1>1, <1>3, <1>4 DEF MeetInv, Emptying, Named
<1>11. ListReached'
  BY <1>0, <1>1, <1>3, <1>4 DEF MeetInv, ListReached, Named
<1> QED
  BY <1>5, <1>6, <1>7, <1>8, <1>9, <1>10, <1>11 DEF MeetInv
-----------------------------------------------------------------------------
(* The channel functions, which the one worker executes. *)

ChannelCall(t) ==
    \/ \E n \in Names : CallNewchannel(t, n) \/ CallDelchannel(t, n)
    \/ \E f \in {"send", "receive", "areceive"}, n \in Names :
          CallChannel(t, f, n)

LEMMA WorkersChannel ==
  ASSUME OneAtATime, MeetInv, NEW t \in Threads,
         \/ ChannelCall(t)
         \/ ChannelStep(t)
  PROVE  /\ t \in Workers
         /\ pc[t] \in ChannelPCs \cup {"lua"}
         /\ \A v \in Workers : v = t
<1>1. CASE ChannelCall(t)
  <2>1. \E f \in ChannelCalls : MayCall(t, f)
    BY <1>1 DEF ChannelCall, CallNewchannel, CallDelchannel, CallChannel, ChannelCalls
  <2> QED
    BY <2>1 DEF MayCall, OneAtATime, Threads
<1>2. CASE ChannelStep(t)
  <2>1. pc[t] \in ChannelPCs
    <3>1. \A s \in Sides : Draining[s] \in ChannelPCs /\ Dropping[s] \in ChannelPCs
      BY DEF Draining, Dropping, Sides, ChannelPCs
    <3>2. {"create", "send", "receive", "areceive"} \subseteq ChannelPCs
      BY DEF ChannelPCs
    <3> QED
      <4>1. CASE \E s \in Sides : DrainTake(t, s) \/ DrainWake(t, s) \/ DrainEnd(t, s)
        BY <3>1, <4>1 DEF DrainTake, DrainWake, DrainEnd, Goto
      <4>2. CASE \/ \E c \in Chans : CreateChannel(t, c)
                 \/ FindNobody(t)
                 \/ \E f \in {"send", "receive"} : t \in Workers /\ BlockOn(t, f)
        BY <3>2, <4>2 DEF CreateChannel, FindNobody, BlockOn, Goto
      <4>3. CASE \E f \in {"send", "receive", "areceive"}, outcome \in {"ok", "error"} :
                    Meet(t, f, outcome)
        BY <3>2, <4>3 DEF Meet, Goto
      <4> QED
        BY <1>2, <4>1, <4>2, <4>3 DEF ChannelStep
  <2> QED
    BY <2>1 DEF MeetInv, MainOut, Threads, OneAtATime
<1> QED
  BY <1>1, <1>2

\* A step of the one worker that keeps processes and lists.
LEMMA MoveMeets ==
  ASSUME LInv, MeetInv, NEW w \in Workers, \A v \in Workers : v = w,
         pc[w] \in ChannelPCs \cup {"lua"},
         NEW to \in (ChannelPCs \cup {"lua"}), pc' = [pc EXCEPT ![w] = to],
         UNCHANGED <<ready, status, parked, cur, wait, chan>>,
         OneName', Creating', UsingNamed', Emptying', ListReached'
  PROVE  MeetInv'
<1>0. /\ SchedFacts /\ pc \in [Threads -> Places] /\ w \in Threads
      /\ Main \in Threads /\ Main # w /\ pc'[w] = to
  BY SchedHolds, SchedAssumption DEF LInv, ChanTypes, Threads, SchedAssumption
<1>1. MainOut'
  BY <1>0 DEF MeetInv, MainOut
<1>2. NotBlocked'
  BY <1>0 DEF MeetInv, NotBlocked, Blocked, Idle, ChannelPCs
<1>3. WaitNoted' /\ ParkedWaits' /\ NoMissedRendezvous'
  BY Zenon DEF MeetInv, WaitNoted, ParkedWaits, NoMissedRendezvous
<1>4. Coming'
  BY <1>0 DEF Coming, ChannelPCs
<1> QED
  BY <1>1, <1>2, <1>3, <1>4 DEF MeetInv

LEMMA CallMeets ==
  ASSUME LInv, MeetInv, NEW w \in Workers, \A v \in Workers : v = w,
         ChannelCall(w)
  PROVE  MeetInv'
<1>0. ChanTypes /\ pc \in [Threads -> Places] /\ w \in Threads
  BY DEF LInv, ChanTypes, Threads
<1>1. CASE \E n \in Names : CallNewchannel(w, n)
  <2>1. PICK n \in Names : CallNewchannel(w, n)
    BY <1>1
  <2>2. /\ pc[w] = "lua" /\ pc' = [pc EXCEPT ![w] = "create"]
        /\ UNCHANGED <<ready, status, parked, cur, wait, chan, chans, using>>
        /\ chans[n] = NoChan /\ naming'[w] = n
    BY <1>0, <2>1 DEF CallNewchannel, Goto, schedVars, procVars, ChanTypes
  <2>3. pc'[w] = "create"
    BY <1>0, <2>2
  <2>4. OneName'
    BY <2>2 DEF MeetInv, OneName
  <2>5. Creating' /\ UsingNamed' /\ Emptying'
    BY <2>2, <2>3 DEF Creating, UsingNamed, Emptying, Draining, Dropping, Sides
  <2>6. ListReached'
    BY <2>2 DEF MeetInv, ListReached, Named, Draining, Dropping, Sides
  <2> QED
    BY <2>2, <2>4, <2>5, <2>6, MoveMeets DEF ChannelPCs
<1>2. CASE \E f \in {"send", "receive", "areceive"}, n \in Names : CallChannel(w, f, n)
  <2>1. PICK f \in {"send", "receive", "areceive"}, n \in Names : CallChannel(w, f, n)
    BY <1>2
  <2>2. /\ pc[w] = "lua" /\ pc' = [pc EXCEPT ![w] = f]
        /\ UNCHANGED <<ready, status, parked, cur, wait, chan, chans>>
        /\ using'[w] = chans[n]
    BY <1>0, <2>1 DEF CallChannel, Goto, schedVars, procVars, ChanTypes
  <2>3. pc'[w] = f
    BY <1>0, <2>2
  <2>4. OneName'
    BY <2>2 DEF MeetInv, OneName
  <2>5. Creating' /\ UsingNamed' /\ Emptying'
    BY <2>2, <2>3 DEF Creating, UsingNamed, Emptying, Named, Draining, Dropping, Sides
  <2>6. ListReached'
    BY <2>2 DEF MeetInv, ListReached, Named, Draining, Dropping, Sides
  <2> QED
    BY <2>2, <2>4, <2>5, <2>6, MoveMeets DEF ChannelPCs
<1>3. CASE \E n \in Names : CallDelchannel(w, n)
  <2>1. PICK n \in Names : CallDelchannel(w, n)
    BY <1>3
  <2>2. PICK c \in Chans, side \in Sides : c = chans[n] /\ side = DrainSide(c)
    BY <1>0, <2>1 DEF CallDelchannel, ChanTypes, DrainSide, Sides
  <2>3. /\ pc[w] = "lua" /\ pc' = [pc EXCEPT ![w] = Draining[side]]
        /\ UNCHANGED <<ready, status, parked, cur, wait, chan>>
        /\ using'[w] = c
        /\ chans' = [chans EXCEPT ![n] = NoChan]
    BY <1>0, <2>1, <2>2 DEF CallDelchannel, Goto, schedVars, procVars, ChanTypes
  <2>4. /\ wait[Other(side)][c] = <<>>
        /\ \A s \in Sides : wait[s][c] # <<>> => s = side
    BY <2>2 DEF DrainSide, Other, Sides, MeetInv, NoMissedRendezvous
  <2>5. /\ \A m \in Names : chans'[m] = (IF m = n THEN NoChan ELSE chans[m])
        /\ \A d \in Chans : Named(d) /\ d # c => Named(d)'
        /\ ~Named(c)'
    <3>1. \A m \in Names : chans'[m] = (IF m = n THEN NoChan ELSE chans[m])
      BY <1>0, <2>2, <2>3 DEF ChanTypes
    <3>2. \A m \in Names : chans[m] = c => m = n
      BY <2>2, ChannelAssumption DEF MeetInv, OneName
    <3>3. \A d \in Chans : Named(d) /\ d # c => Named(d)'
      BY <2>2, <3>1 DEF Named
    <3>4. ~Named(c)'
      BY <3>1, <3>2, ChannelAssumption DEF Named
    <3> QED
      BY <3>1, <3>3, <3>4
  <2>6. pc'[w] = Draining[side] /\ Draining[side] \in {"drain_send", "drain_recv"}
    BY <1>0, <2>2, <2>3, <2>4 DEF Draining, Sides
  <2>7. OneName'
    BY <2>5 DEF MeetInv, OneName
  <2>8. Creating' /\ UsingNamed'
    BY <2>6 DEF Creating, UsingNamed
  <2>9. Emptying'
    <3> SUFFICES ASSUME NEW s \in Sides, pc'[w] \in {Draining[s], Dropping[s]}
                 PROVE  ~Named(c)' /\ wait[Other(s)][c] = <<>>
      BY <2>2, <2>3 DEF Emptying
    <3>1. s = side
      BY <2>4, <2>6 DEF Draining, Dropping, Sides
    <3> QED
      BY <2>4, <2>5, <3>1
  <2>10. ListReached'
    <3> SUFFICES ASSUME NEW s \in Sides, NEW d \in Chans, wait[s][d] # <<>>
                 PROVE  \/ Named(d)'
                        \/ using'[w] = d /\ pc'[w] \in {Draining[s], Dropping[s]}
      BY <2>2, <2>3 DEF ListReached
    <3>1. CASE d = c
      BY <2>2, <2>3, <2>4, <2>6, <3>1
    <3>2. CASE d # c
      <4>1. Named(d)
        BY <2>2, <2>3 DEF MeetInv, ListReached, Draining, Dropping, Sides
      <4> QED
        BY <2>5, <3>2, <4>1
    <3> QED
      BY <3>1, <3>2
  <2> QED
    BY <2>2, <2>3, <2>6, <2>7, <2>8, <2>9, <2>10, MoveMeets DEF ChannelPCs
<1> QED
  BY <1>1, <1>2, <1>3 DEF ChannelCall

LEMMA CreateMeets ==
  ASSUME LInv, MeetInv, NEW w \in Workers, \A v \in Workers : v = w,
         NEW c \in Chans, CreateChannel(w, c)
  PROVE  MeetInv'
<1>0. ChanTypes /\ pc \in [Threads -> Places] /\ w \in Threads
  BY DEF LInv, ChanTypes, Threads
<1>1. /\ pc[w] = "create" /\ pc' = [pc EXCEPT ![w] = "lua"]
      /\ UNCHANGED <<ready, status, parked, cur, wait, chan, using>>
      /\ chans' = [chans EXCEPT ![naming[w]] = c]
      /\ \A n \in Names : chans[n] # c
      /\ naming[w] \in Names
  BY <1>0 DEF CreateChannel, Goto, schedVars, procVars, ChanTypes, FreshChan
<1>2. /\ \A n \in Names : chans'[n] = (IF n = naming[w] THEN c ELSE chans[n])
      /\ chans[naming[w]] = NoChan
      /\ pc'[w] = "lua"
  BY <1>0, <1>1 DEF ChanTypes, MeetInv, Creating
<1>3. \A d \in Chans : Named(d) => Named(d)'
  BY <1>1, <1>2, ChannelAssumption DEF Named
<1>4. OneName'
  BY <1>1, <1>2 DEF MeetInv, OneName
<1>5. Creating' /\ UsingNamed' /\ Emptying'
  BY <1>1, <1>2 DEF Creating, UsingNamed, Emptying, Draining, Dropping, Sides
<1>6. ListReached'
  BY <1>1, <1>3 DEF MeetInv, ListReached, Draining, Dropping, Sides
<1> QED
  BY <1>1, <1>4, <1>5, <1>6, MoveMeets DEF ChannelPCs

LEMMA LeaveMeets ==
  ASSUME LInv, MeetInv, NEW w \in Workers, \A v \in Workers : v = w,
         FindNobody(w) \/ \E s \in Sides : DrainEnd(w, s)
  PROVE  MeetInv'
<1>0. ChanTypes /\ pc \in [Threads -> Places] /\ w \in Threads
  BY DEF LInv, ChanTypes, Threads
<1>1. /\ pc[w] \in ChannelPCs /\ pc' = [pc EXCEPT ![w] = "lua"]
      /\ UNCHANGED <<ready, status, parked, cur, wait, chan, chans>>
  BY DEF FindNobody, DrainEnd, Goto, schedVars, procVars, Draining, Sides, ChannelPCs
<1>2. pc'[w] = "lua"
  BY <1>0, <1>1
<1>3. \A s \in Sides : pc[w] \in {Draining[s], Dropping[s]} => wait[s][using[w]] = <<>>
  BY DEF FindNobody, DrainEnd, Goto, Draining, Dropping, Sides
<1>4. OneName'
  BY <1>1 DEF MeetInv, OneName
<1>5. Creating' /\ UsingNamed' /\ Emptying'
  BY <1>2 DEF Creating, UsingNamed, Emptying, Draining, Dropping, Sides
<1>6. ListReached'
  BY <1>1, <1>3 DEF MeetInv, ListReached, Named
<1> QED
  BY <1>1, <1>4, <1>5, <1>6, MoveMeets

\* A partner, or a process that gets an error, is taken off a list.
LEMMA TakeMeets ==
  ASSUME LInv, MeetInv, NEW w \in Workers, \A v \in Workers : v = w,
         NEW s \in Sides,
         \/ \E f \in {"send", "receive", "areceive"} : Goto(w, f, "wake")
         \/ Goto(w, Draining[s], Dropping[s]) /\ using' = using,
         wait[s][using[w]] # <<>>, Delist(s, using[w]),
         parked' = parked \ {Head(wait[s][using[w]])},
         UNCHANGED <<ready, status, cur, chans, chan, naming>>
  PROVE  MeetInv'
<1>0. /\ SchedFacts /\ ChanTypes /\ Lists /\ w \in Threads
      /\ Main \in Threads /\ Main # w
  BY SchedHolds, SchedAssumption DEF LInv, ChanTypes, Threads, SchedAssumption
<1>1. pc[w] \in ChannelPCs \ {"create"}
  BY DEF Goto, Draining, Sides, ChannelPCs
<1>2. PICK c \in Chans : c = using[w]
  BY <1>0, <1>1 DEF ChanTypes
<1>3. PICK lp : lp = Head(wait[s][c])
  OBVIOUS
<1>4. /\ lp \in Elements(wait[s][c]) /\ lp \in parked
      /\ Elements(wait'[s][c]) = Elements(wait[s][c]) \ {lp}
      /\ \A r \in Sides, d \in Chans : r # s \/ d # c => wait'[r][d] = wait[r][d]
  BY <1>0, <1>2, <1>3, TakenOff DEF ChanTypes, SchedFacts
<1>5. ASSUME NEW r \in Sides, NEW d \in Chans
      PROVE  /\ wait[r][d] = <<>> => wait'[r][d] = <<>>
             /\ Elements(wait'[r][d]) \subseteq Elements(wait[r][d])
             /\ \A p \in Elements(wait[r][d]) \ {lp} : p \in Elements(wait'[r][d])
  <2>1. CASE r = s /\ d = c
    BY <1>2, <1>4, <2>1
  <2>2. CASE r # s \/ d # c
    BY <1>4, <2>2
  <2> QED
    BY <2>1, <2>2
<1>6. pc'[w] \in {"wake", "drop_send", "drop_recv"}
      /\ \A u \in Threads \ {w} : pc'[u] = pc[u]
  BY <1>0 DEF Goto, Dropping, Sides, ChanTypes
<1>7. MainOut' /\ OneName'
  BY <1>0, <1>6 DEF MeetInv, MainOut, OneName
<1>8. NotBlocked'
  BY <1>1, <1>6 DEF MeetInv, NotBlocked, Blocked, Idle, ChannelPCs
<1>9. WaitNoted'
  BY <1>5 DEF MeetInv, WaitNoted
<1>10. ParkedWaits'
  <2> SUFFICES ASSUME NEW p \in parked \ {lp}
               PROVE  \E r \in Sides, d \in Chans : p \in Elements(wait'[r][d])
    BY <1>2, <1>3 DEF ParkedWaits
  <2>1. PICK r \in Sides, d \in Chans : p \in Elements(wait[r][d])
    BY DEF MeetInv, ParkedWaits
  <2> QED
    BY <1>5, <2>1
<1>11. NoMissedRendezvous'
  BY <1>5 DEF MeetInv, NoMissedRendezvous, Sides
<1>12. Coming' /\ Creating' /\ UsingNamed'
  BY <1>6 DEF Coming, Creating, UsingNamed
<1>13. Emptying' /\ ListReached'
  <2>1. CASE \E f \in {"send", "receive", "areceive"} : Goto(w, f, "wake")
    <3>1. pc[w] \in {"send", "receive", "areceive"} /\ pc'[w] = "wake"
      BY <1>0, <2>1 DEF Goto, ChanTypes
    <3>2. Emptying'
      BY <3>1 DEF Emptying, Draining, Dropping, Sides
    <3>3. ASSUME NEW r \in Sides, NEW d \in Chans, wait'[r][d] # <<>>
          PROVE  Named(d)'
      <4>1. Named(d)
        BY <1>5, <3>1, <3>3 DEF MeetInv, ListReached, Draining, Dropping, Sides
      <4> QED
        BY <4>1 DEF Named
    <3> QED
      BY <3>2, <3>3 DEF ListReached
  <2>2. CASE Goto(w, Draining[s], Dropping[s]) /\ using' = using
    <3>1. pc[w] = Draining[s] /\ pc'[w] = Dropping[s]
      BY <1>0, <2>2 DEF Goto, ChanTypes
    <3>2. ~Named(c) /\ wait[Other(s)][c] = <<>>
      BY <1>2, <3>1 DEF MeetInv, Emptying
    <3>3. ASSUME NEW r \in Sides, {Draining[s], Dropping[s]} \cap {Draining[r], Dropping[r]} # {}
          PROVE  r = s
      BY <3>3 DEF Draining, Dropping, Sides
    <3>4. Emptying'
      <4> SUFFICES ASSUME NEW r \in Sides, pc'[w] \in {Draining[r], Dropping[r]}
                   PROVE  ~Named(c)' /\ wait'[Other(r)][c] = <<>>
        BY <1>2, <2>2 DEF Emptying
      <4>1. r = s /\ Other(s) \in Sides
        BY <3>1, <3>3 DEF Other, Sides
      <4> QED
        BY <1>5, <3>2, <4>1 DEF Named
    <3>5. ListReached'
      <4> SUFFICES ASSUME NEW r \in Sides, NEW d \in Chans, wait'[r][d] # <<>>
                   PROVE  \/ Named(d)
                          \/ using[w] = d /\ pc'[w] \in {Draining[r], Dropping[r]}
        BY <2>2 DEF ListReached, Named
      <4>1. Named(d) \/ (using[w] = d /\ pc[w] \in {Draining[r], Dropping[r]})
        BY <1>5 DEF MeetInv, ListReached
      <4>2. pc[w] \in {Draining[r], Dropping[r]} => r = s
        BY <3>1, <3>3
      <4> QED
        BY <3>1, <4>1, <4>2
    <3> QED
      BY <3>4, <3>5
  <2> QED
    BY <2>1, <2>2
<1> QED
  BY <1>7, <1>8, <1>9, <1>10, <1>11, <1>12, <1>13 DEF MeetInv

LEMMA DrainWakeMeets ==
  ASSUME LInv, MeetInv, NEW w \in Workers, \A v \in Workers : v = w,
         NEW s \in Sides, DrainWake(w, s)
  PROVE  MeetInv'
<1>0. /\ SchedFacts /\ ChanTypes /\ Lists /\ w \in Threads
      /\ Main \in Threads /\ Main # w
  BY SchedHolds, SchedAssumption DEF LInv, ChanTypes, Threads, SchedAssumption
<1>1. /\ pc[w] = Dropping[s] /\ pc'[w] = Draining[s]
      /\ \A u \in Threads \ {w} : pc'[u] = pc[u]
      /\ UNCHANGED <<parked, cur, chans, wait, chan, using, naming>>
      /\ ready' = Append(ready, obj[w])
      /\ status' = [status EXCEPT ![obj[w]] = "READY"]
  BY <1>0 DEF DrainWake, Goto, QueueProc, chanVars, ChanTypes
<1>2. /\ Draining[s] \in {"drain_send", "drain_recv"}
      /\ Dropping[s] \in {"drop_send", "drop_recv"}
      /\ \A r \in Sides : pc'[w] \in {Draining[r], Dropping[r]} => r = s
      /\ \A r \in Sides : pc[w] \in {Draining[r], Dropping[r]} => r = s
  BY <1>1 DEF Draining, Dropping, Sides
<1>3. /\ obj[w] \in Procs /\ obj[w] \notin parked /\ cur[w] # obj[w]
  BY <1>0, <1>1, <1>2, ObjHeldApart DEF Handing
<1>4. /\ Elements(ready') = Elements(ready) \cup {obj[w]}
      /\ status'[obj[w]] = "READY"
      /\ \A p : p # obj[w] => status'[p] = status[p] \/ p \notin Procs
      /\ Elements(ready) \subseteq Procs
  <2>1. ready \in Seq(Procs) /\ status \in [Procs -> Statuses]
    BY <1>0 DEF SchedFacts
  <2>2. Elements(ready') = Elements(ready) \cup {obj[w]}
    BY <1>1, <1>3, <2>1, AppendPlace
  <2>3. Elements(ready) \subseteq Procs
    BY <2>1 DEF Elements
  <2>4. /\ status'[obj[w]] = "READY"
        /\ \A p \in Procs : p # obj[w] => status'[p] = status[p]
    BY <1>1, <1>3, <2>1
  <2> QED
    BY <2>2, <2>3, <2>4
<1>5. MainOut' /\ OneName' /\ Coming' /\ Creating' /\ UsingNamed'
  BY <1>0, <1>1, <1>2 DEF MeetInv, MainOut, OneName, Coming, Creating, UsingNamed
<1>6. NotBlocked'
  <2>1. cur[w] \in Procs /\ ~Blocked(cur[w])
    BY <1>0, <1>1, <1>2 DEF SchedFacts, CurHeld, MeetInv, NotBlocked, Idle
  <2> QED
    BY <1>1, <1>3, <1>4, <2>1 DEF MeetInv, NotBlocked, Blocked
<1>7. WaitNoted'
  <2>1. \A r \in Sides, d \in Chans : \A p \in Elements(wait[r][d]) :
           p # obj[w] /\ p \in Procs
    BY <1>0, <1>3 DEF Lists, SchedFacts
  <2> QED
    BY <1>1, <1>4, <2>1 DEF MeetInv, WaitNoted
<1>8. ParkedWaits' /\ NoMissedRendezvous'
  BY <1>1, Zenon DEF MeetInv, ParkedWaits, NoMissedRendezvous
<1>9. Emptying'
  BY <1>1, <1>2 DEF MeetInv, Emptying, Named
<1>10. ListReached'
  BY <1>1, <1>2 DEF MeetInv, ListReached, Named
<1> QED
  BY <1>5, <1>6, <1>7, <1>8, <1>9, <1>10 DEF MeetInv

LEMMA BlockMeets ==
  ASSUME LInv, MeetInv, NEW w \in Workers, \A v \in Workers : v = w,
         NEW f \in {"send", "receive"}, BlockOn(w, f)
  PROVE  MeetInv'
<1>0. /\ SchedFacts /\ ChanTypes /\ Lists /\ w \in Threads
      /\ Main \in Threads /\ Main # w
  BY SchedHolds, SchedAssumption DEF LInv, ChanTypes, Threads, SchedAssumption
<1>1. /\ pc[w] = f /\ pc'[w] = "yielded"
      /\ \A u \in Threads \ {w} : pc'[u] = pc[u]
      /\ UNCHANGED <<ready, parked, cur, chans, wait, naming>>
      /\ wait[PartnerOf(f)][using[w]] = <<>>
      /\ status' = [status EXCEPT ![cur[w]] = Wish(SideOf(f))]
      /\ chan' = [chan EXCEPT ![cur[w]] = using[w]]
  BY <1>0 DEF BlockOn, Goto, schedVars, ChanTypes
<1>2. /\ cur[w] \in Procs /\ cur[w] \in Running /\ cur[w] \notin parked
  BY <1>0, <1>1, CurRuns DEF Idle
<1>3. cur[w] \notin Elements(ready) /\ Elements(ready) \subseteq Procs
  BY <1>0, <1>2, ProcApart DEF SchedFacts, Elements
<1>4. /\ status'[cur[w]] = Wish(SideOf(f)) /\ chan'[cur[w]] = using[w]
      /\ \A p \in Procs \ {cur[w]} : status'[p] = status[p] /\ chan'[p] = chan[p]
  BY <1>0, <1>1, <1>2 DEF SchedFacts, ChanTypes
<1>5. MainOut' /\ OneName' /\ Creating' /\ UsingNamed' /\ Emptying'
  BY <1>0, <1>1 DEF MeetInv, MainOut, OneName, Creating, UsingNamed, Emptying,
                    Draining, Dropping, Sides
<1>6. NotBlocked'
  BY <1>1, <1>3, <1>4 DEF MeetInv, NotBlocked, Blocked
<1>7. WaitNoted'
  <2>1. \A r \in Sides, d \in Chans : Elements(wait[r][d]) \subseteq Procs \ {cur[w]}
    BY <1>0, <1>2 DEF Lists, SchedFacts
  <2> QED
    BY <1>1, <1>4, <2>1 DEF MeetInv, WaitNoted
<1>8. ParkedWaits' /\ NoMissedRendezvous'
  BY <1>1, Zenon DEF MeetInv, ParkedWaits, NoMissedRendezvous
<1>9. Coming'
  <2>1. PICK c : c = using[w]
    OBVIOUS
  <2> SUFFICES ASSUME NEW s \in Sides, status'[cur[w]] = Wish(s)
               PROVE  Named(c)' /\ wait[Other(s)][c] = <<>>
    BY <1>1, <1>4, <2>1 DEF Coming
  <2>2. s = SideOf(f) /\ Other(s) = PartnerOf(f)
    BY <1>4 DEF Wish, SideOf, Sides, Other, PartnerOf
  <2>3. Named(c)
    BY <1>1, <2>1 DEF MeetInv, UsingNamed
  <2> QED
    BY <1>1, <2>1, <2>2, <2>3 DEF Named
<1>10. ListReached'
  BY <1>1 DEF MeetInv, ListReached, Named, Draining, Dropping, Sides
<1> QED
  BY <1>5, <1>6, <1>7, <1>8, <1>9, <1>10 DEF MeetInv

LEMMA ParkMeets ==
  ASSUME LInv, MeetInv, NEW w \in Workers, \A v \in Workers : v = w, ParkOn(w)
  PROVE  MeetInv'
<1>0. /\ SchedFacts /\ ChanTypes /\ Lists /\ w \in Threads
      /\ Main \in Threads /\ Main # w
  BY SchedHolds, SchedAssumption DEF LInv, ChanTypes, Threads, SchedAssumption
<1>1. PICK s \in Sides : status[cur[w]] = Wish(s) /\ Enlist(s, chan[cur[w]], cur[w])
  BY DEF ParkOn
<1>2. /\ pc[w] = "yielded" /\ pc'[w] = "loop"
      /\ \A u \in Threads \ {w} : pc'[u] = pc[u]
      /\ UNCHANGED <<ready, status, chans, chan, using, naming>>
      /\ parked' = parked \cup {cur[w]}
      /\ Blocked(cur[w])
  BY <1>0 DEF ParkOn, Park, Goto, schedVars, ChanTypes
<1>3. PICK p \in Procs : p = cur[w] /\ p \notin parked
  BY <1>0, <1>2, CurRuns DEF Idle
<1>4. PICK c \in Chans : c = chan[p]
  BY <1>0, <1>2, <1>3 DEF ChanTypes
<1>5. /\ Elements(wait'[s][c]) = Elements(wait[s][c]) \cup {p}
      /\ \A r \in Sides, d \in Chans : r # s \/ d # c => wait'[r][d] = wait[r][d]
  <2>1. /\ wait \in [Sides -> [Chans -> Seq(Procs)]]
        /\ wait' = [wait EXCEPT ![s][c] = Append(@, p)]
    BY <1>0, <1>1, <1>3, <1>4 DEF Enlist, ChanTypes
  <2>2. /\ wait'[s][c] = Append(wait[s][c], p) /\ wait[s][c] \in Seq(Procs)
        /\ \A r \in Sides, d \in Chans : r # s \/ d # c => wait'[r][d] = wait[r][d]
    BY <2>1
  <2> QED
    BY <2>2, AppendPlace
<1>6. Named(c) /\ wait[Other(s)][c] = <<>>
  BY <1>1, <1>2, <1>3, <1>4 DEF MeetInv, Coming
<1>7. Other(s) \in Sides /\ Other(s) # s /\ \A r \in Sides : r = s \/ r = Other(s)
  BY DEF Other, Sides
<1>8. MainOut' /\ OneName' /\ Creating' /\ UsingNamed' /\ Emptying' /\ Coming'
  BY <1>0, <1>2 DEF MeetInv, MainOut, OneName, Creating, UsingNamed, Emptying,
                    Coming, Draining, Dropping, Sides
<1>9. NotBlocked'
  BY <1>2 DEF MeetInv, NotBlocked, Blocked, Idle
<1>10. WaitNoted'
  <2> SUFFICES ASSUME NEW r \in Sides, NEW d \in Chans, NEW q \in Elements(wait'[r][d])
               PROVE  status[q] = Wish(r) /\ chan[q] = d
    BY <1>2 DEF WaitNoted
  <2>1. CASE q = p /\ r = s /\ d = c
    BY <1>1, <1>3, <1>4, <2>1
  <2>2. CASE ~(q = p /\ r = s /\ d = c)
    <3>1. q \in Elements(wait[r][d])
      BY <1>5, <2>2
    <3> QED
      BY <3>1 DEF MeetInv, WaitNoted
  <2> QED
    BY <2>1, <2>2
<1>11. ParkedWaits'
  <2> SUFFICES ASSUME NEW q \in parked \cup {p}
               PROVE  \E r \in Sides, d \in Chans : q \in Elements(wait'[r][d])
    BY <1>2, <1>3 DEF ParkedWaits
  <2>1. CASE q = p
    BY <1>5, <2>1
  <2>2. CASE q # p
    <3>1. PICK r \in Sides, d \in Chans : q \in Elements(wait[r][d])
      BY <2>2 DEF MeetInv, ParkedWaits
    <3>2. q \in Elements(wait'[r][d])
      BY <1>5, <3>1
    <3> QED
      BY <3>2
  <2> QED
    BY <2>1, <2>2
<1>12. NoMissedRendezvous'
  <2>1. wait'[Other(s)][c] = <<>>
    BY <1>5, <1>6, <1>7
  <2>2. \A d \in Chans \ {c}, r \in Sides : wait'[r][d] = wait[r][d]
    BY <1>5
  <2> QED
    BY <1>7, <2>1, <2>2 DEF MeetInv, NoMissedRendezvous, Sides
<1>13. ListReached'
  <2> SUFFICES ASSUME NEW r \in Sides, NEW d \in Chans, wait'[r][d] # <<>>
               PROVE  Named(d)
    BY <1>2 DEF ListReached, Named
  <2>1. CASE d = c
    BY <1>6, <2>1
  <2>2. CASE d # c
    <3>1. wait[r][d] # <<>>
      BY <1>5, <2>2
    <3> QED
      BY <1>2, <3>1 DEF MeetInv, ListReached, Draining, Dropping, Sides
  <2> QED
    BY <2>1, <2>2
<1> QED
  BY <1>8, <1>9, <1>10, <1>11, <1>12, <1>13 DEF MeetInv

LEMMA ChannelMeets ==
  ASSUME LInv, MeetInv, NEW w \in Workers, \A v \in Workers : v = w, ChannelStep(w)
  PROVE  MeetInv'
<1>1. CASE \E c \in Chans : CreateChannel(w, c)
  BY <1>1, CreateMeets
<1>2. CASE \E f \in {"send", "receive", "areceive"}, outcome \in {"ok", "error"} :
             Meet(w, f, outcome)
  <2>1. PICK f \in {"send", "receive", "areceive"}, outcome \in {"ok", "error"} :
               Meet(w, f, outcome)
    BY <1>2
  <2>2. PartnerOf(f) \in Sides
    BY DEF PartnerOf, Sides
  <2>3. /\ Goto(w, f, "wake")
        /\ wait[PartnerOf(f)][using[w]] # <<>>
        /\ Delist(PartnerOf(f), using[w])
        /\ parked' = parked \ {Head(wait[PartnerOf(f)][using[w]])}
        /\ UNCHANGED <<ready, status, cur, chans, chan, naming>>
    BY <2>1 DEF Meet, schedVars
  <2> QED
    BY <2>2, <2>3, TakeMeets
<1>3. CASE FindNobody(w) \/ \E s \in Sides : DrainEnd(w, s)
  BY <1>3, LeaveMeets
<1>4. CASE \E f \in {"send", "receive"} : w \in Workers /\ BlockOn(w, f)
  BY <1>4, BlockMeets
<1>5. CASE \E s \in Sides : DrainTake(w, s)
  <2>1. PICK s \in Sides : DrainTake(w, s)
    BY <1>5
  <2>2. /\ Goto(w, Draining[s], Dropping[s]) /\ using' = using
        /\ wait[s][using[w]] # <<>> /\ Delist(s, using[w])
        /\ parked' = parked \ {Head(wait[s][using[w]])}
        /\ UNCHANGED <<ready, status, cur, chans, chan, naming>>
    BY <2>1 DEF DrainTake, schedVars
  <2> QED
    BY <2>2, TakeMeets
<1>6. CASE \E s \in Sides : DrainWake(w, s)
  BY <1>6, DrainWakeMeets
<1> QED
  BY <1>1, <1>2, <1>3, <1>4, <1>5, <1>6 DEF ChannelStep

\* What a step can be when one worker executes the channel functions.
LEMMA StepKinds ==
  ASSUME OneAtATime, LInv, MeetInv, LNext
  PROVE  \/ \E t \in Threads : SharedStep(t)
         \/ \E w \in Workers :
               /\ \A v \in Workers : v = w
               /\ \/ ParkOn(w)
                  \/ ChannelCall(w)
                  \/ ChannelStep(w)
<1>1. CASE \E w \in Workers : LWorkerStep(w) \/ LReturn(w)
  BY <1>1 DEF LWorkerStep, LReturn, SharedStep, WorkerMove, OneAtATime, Threads
<1>2. CASE \E t \in Threads : LCall(t) \/ LCallStep(t)
  <2>1. PICK t \in Threads : LCall(t) \/ LCallStep(t)
    BY <1>2
  <2>2. CASE ChannelCall(t) \/ ChannelStep(t)
    BY <2>2, WorkersChannel
  <2>3. CASE CallNewproc(t) /\ UNCHANGED chanVars
    BY <2>3 DEF SharedStep, NewprocMove
  <2>4. CASE LCallStep(t)
    BY <2>2, <2>4 DEF LCallStep, SharedStep, NewprocMove
  <2> QED
    BY <2>1, <2>2, <2>3, <2>4 DEF LCall, ChannelCall
<1> QED
  BY <1>1, <1>2 DEF LNext

LEMMA MeetInvStep ==
  ASSUME OneAtATime, LInv, MeetInv, [LNext]_allVars
  PROVE  MeetInv'
<1>1. CASE LNext
  <2>1. CASE \E t \in Threads : SharedStep(t)
    <3>1. PICK t \in Threads : SharedStep(t)
      BY <2>1
    <3> QED
      BY <3>1, SharedAside, AsideMeets DEF MeetInv
  <2>2. ASSUME NEW w \in Workers, \A v \in Workers : v = w,
               ParkOn(w) \/ ChannelCall(w) \/ ChannelStep(w)
        PROVE  MeetInv'
    BY <2>2, ParkMeets, CallMeets, ChannelMeets
  <2> QED
    BY <1>1, <2>1, <2>2, StepKinds
<1>2. CASE UNCHANGED allVars
  <2>1. UNCHANGED <<pc, ready, status, parked, cur, chans, wait, chan, using, naming>>
    BY <1>2 DEF allVars, vars, chanVars, schedVars, procVars, threadVars
  <2>2. MainOut' /\ NotBlocked' /\ WaitNoted' /\ ParkedWaits'
    BY <2>1, Zenon DEF MeetInv, MainOut, NotBlocked, Blocked, WaitNoted, ParkedWaits
  <2>3. Coming' /\ OneName' /\ Creating' /\ UsingNamed'
    BY <2>1, Zenon DEF MeetInv, Coming, OneName, Creating, UsingNamed, Named
  <2>4. Emptying' /\ ListReached' /\ NoMissedRendezvous'
    <3>1. Emptying'
      BY <2>1 DEF MeetInv, Emptying, Named
    <3>2. ListReached'
      BY <2>1 DEF MeetInv, ListReached, Named
    <3> QED
      BY <2>1, <3>1, <3>2 DEF MeetInv, NoMissedRendezvous
  <2> QED
    BY <2>2, <2>3, <2>4 DEF MeetInv
<1> QED
  BY <1>1, <1>2

LEMMA MeetInvCorrect ==
  ASSUME OneAtATime
  PROVE  LSpec => [](LInv /\ MeetInv)
<1>1. LInit => LInv /\ MeetInv
  BY InitLInv, InitMeetInv
<1>2. LInv /\ MeetInv /\ [LNext]_allVars => LInv' /\ MeetInv'
  BY LInvStep, MeetInvStep
<1> QED
  BY <1>1, <1>2, PTL DEF LSpec

\* With one worker a sender and a receiver never wait on the same channel,
\* although no mutex is held between luaproc_send's look at the receivers and
\* the moment the worker has queued the sender.
THEOREM NobodyMissed == OneAtATime => (LSpec => []NoMissedRendezvous)
<1> SUFFICES ASSUME OneAtATime PROVE LSpec => []NoMissedRendezvous
  OBVIOUS
<1>1. MeetInv => NoMissedRendezvous
  BY DEF MeetInv
<1> QED
  BY <1>1, MeetInvCorrect, PTL

\* With one worker whoever is parked can still be reached: the process is in
\* the list its status names, of the channel it noted, and the channel is in
\* the table or being emptied (luaproc_delchannel).
THEOREM NobodyStranded == OneAtATime => (LSpec => []NoneStranded)
<1> SUFFICES ASSUME OneAtATime PROVE LSpec => []NoneStranded
  OBVIOUS
<1> QED
  BY MeetInvCorrect, NoneStrandedFollows, PTL
-----------------------------------------------------------------------------
(* The channels implement the rendezvous they promise.  What module         *)
(* Rendezvous sees of LuaProc: *)

OpenSeen == {n \in Names : chans[n] # NoChan}

WaitingSeen == [s \in Sides |-> [n \in Names |->
                   IF chans[n] = NoChan THEN <<>>
                   ELSE wait[s][chans[n]] \o Arriving(s, chans[n])]]

OutcomeSeen == [p \in Procs |-> IF OnDeadChannel(p) THEN "error" ELSE result[p]]

LEMMA SeqOfNobody == SetToSeq({}) = <<>>
<1>1. Cardinality({}) = 0
  BY FS_EmptySet
<1>2. SetToSeq({}) = CHOOSE f \in [1 .. 0 -> {}] : IsInjective(f)
  BY <1>1 DEF SetToSeq
<1>3. \A f \in [1 .. 0 -> {}] : f = <<>>
  OBVIOUS
<1>4. <<>> \in [1 .. 0 -> {}] /\ IsInjective(<<>>)
  BY DEF IsInjective
<1> QED
  BY <1>2, <1>3, <1>4

LEMMA SeqOfOne == \A p : SetToSeq({p}) = <<p>>
<1> TAKE p
<1>1. Cardinality({p}) = 1
  BY FS_Singleton
<1>2. SetToSeq({p}) = CHOOSE f \in [1 .. 1 -> {p}] : IsInjective(f)
  BY <1>1 DEF SetToSeq
<1>3. \A f \in [1 .. 1 -> {p}] : f = <<p>>
  OBVIOUS
<1>4. <<p>> \in [1 .. 1 -> {p}] /\ IsInjective(<<p>>)
  BY DEF IsInjective
<1> QED
  BY <1>2, <1>3, <1>4

\* Who is on the way to a list: the process of the one worker, or nobody.
LEMMA OneArrives ==
  ASSUME NEW w \in Workers, \A v \in Workers : v = w, NEW s, NEW c
  PROVE  /\ ~(pc[w] = "yielded" /\ status[cur[w]] = Wish(s) /\ chan[cur[w]] = c)
               => Arriving(s, c) = <<>>
         /\ pc[w] = "yielded" /\ status[cur[w]] = Wish(s) /\ chan[cur[w]] = c
               => Arriving(s, c) = <<cur[w]>>
<1> DEFINE A == {cur[v] : v \in {u \in Workers :
                    /\ pc[u] = "yielded"
                    /\ status[cur[u]] = Wish(s)
                    /\ chan[cur[u]] = c}}
<1>1. ~(pc[w] = "yielded" /\ status[cur[w]] = Wish(s) /\ chan[cur[w]] = c) => A = {}
  OBVIOUS
<1>2. pc[w] = "yielded" /\ status[cur[w]] = Wish(s) /\ chan[cur[w]] = c => A = {cur[w]}
  OBVIOUS
<1>3. Arriving(s, c) = SetToSeq(A)
  BY DEF Arriving
<1> QED
  BY <1>1, <1>2, <1>3, SeqOfNobody, SeqOfOne

LEMMA OneArrivesNext ==
  ASSUME NEW w \in Workers, \A v \in Workers : v = w, NEW s, NEW c
  PROVE  /\ ~(pc'[w] = "yielded" /\ status'[cur'[w]] = Wish(s) /\ chan'[cur'[w]] = c)
               => Arriving(s, c)' = <<>>
         /\ pc'[w] = "yielded" /\ status'[cur'[w]] = Wish(s) /\ chan'[cur'[w]] = c
               => Arriving(s, c)' = <<cur'[w]>>
<1> DEFINE A == {cur'[v] : v \in {u \in Workers :
                    /\ pc'[u] = "yielded"
                    /\ status'[cur'[u]] = Wish(s)
                    /\ chan'[cur'[u]] = c}}
<1>1. ~(pc'[w] = "yielded" /\ status'[cur'[w]] = Wish(s) /\ chan'[cur'[w]] = c) => A = {}
  OBVIOUS
<1>2. pc'[w] = "yielded" /\ status'[cur'[w]] = Wish(s) /\ chan'[cur'[w]] = c => A = {cur'[w]}
  OBVIOUS
<1>3. Arriving(s, c)' = SetToSeq(A)
  BY DEF Arriving
<1> QED
  BY <1>1, <1>2, <1>3, SeqOfNobody, SeqOfOne

-----------------------------------------------------------------------------
(* The steps of the abstract specification, in LuaProc's own terms. *)

LEMMA SeenNothing ==
  ASSUME UNCHANGED <<OpenSeen, WaitingSeen, OutcomeSeen>>
  PROVE  UNCHANGED Meeting!rendezvousVars
BY DEF Meeting!rendezvousVars, OpenSeen, WaitingSeen, OutcomeSeen

LEMMA SeenOpen ==
  ASSUME NEW n \in Names, n \notin OpenSeen, OpenSeen' = OpenSeen \cup {n},
         UNCHANGED <<WaitingSeen, OutcomeSeen>>
  PROVE  Meeting!Open(n)
BY DEF Meeting!Open, OpenSeen, WaitingSeen, OutcomeSeen

LEMMA SeenWait ==
  ASSUME NEW p \in Procs, NEW s \in Sides, NEW n \in OpenSeen, OpenSeen' = OpenSeen,
         \A r \in Sides, m \in Names : \A i \in 1 .. Len(WaitingSeen[r][m]) :
            WaitingSeen[r][m][i] # p,
         \A r \in Sides \ {s} : WaitingSeen[r][n] = <<>>,
         WaitingSeen' = [WaitingSeen EXCEPT ![s][n] = Append(@, p)],
         OutcomeSeen' = [OutcomeSeen EXCEPT ![p] = "none"]
  PROVE  Meeting!Wait(p, s, n)
<1>1. ~Meeting!IsWaiting(p)
  <2>1. Meeting!IsWaiting(p)
          <=> \E r \in Sides, m \in Names : \E i \in 1 .. Len(WaitingSeen[r][m]) :
                 WaitingSeen[r][m][i] = p
    BY Zenon DEF Meeting!IsWaiting, Meeting!Sides, Sides, WaitingSeen
  <2> QED
    BY <2>1, Zenon
<1>2. \A r \in Meeting!Sides \ {s} : WaitingSeen[r][n] = <<>>
  BY DEF Meeting!Sides, Sides
<1> QED
  BY <1>1, <1>2 DEF Meeting!Wait, OpenSeen, WaitingSeen, OutcomeSeen

LEMMA SeenMeet ==
  ASSUME NEW s \in Sides, NEW n \in OpenSeen, NEW r, OpenSeen' = OpenSeen,
         WaitingSeen[s][n] # <<>>,
         WaitingSeen' = [WaitingSeen EXCEPT ![s][n] = Tail(@)],
         OutcomeSeen' = [OutcomeSeen EXCEPT ![Head(WaitingSeen[s][n])] = r]
  PROVE  Meeting!Meet(s, n, r)
BY DEF Meeting!Meet, OpenSeen, WaitingSeen, OutcomeSeen

LEMMA SeenClose ==
  ASSUME NEW n \in OpenSeen, OpenSeen' = OpenSeen \ {n},
         WaitingSeen' = [s \in Sides |-> [WaitingSeen[s] EXCEPT ![n] = <<>>]],
         OutcomeSeen' =
           [p \in Procs |->
              IF \E s \in Sides : \E i \in 1 .. Len(WaitingSeen[s][n]) :
                     WaitingSeen[s][n][i] = p
                THEN "error" ELSE OutcomeSeen[p]]
  PROVE  Meeting!Close(n)
BY DEF Meeting!Close, Meeting!Sides, Sides, OpenSeen, WaitingSeen, OutcomeSeen
-----------------------------------------------------------------------------
(* Every step of LuaProc is one of them. *)

LEMMA SameSeen ==
  ASSUME UNCHANGED chans,
         \A s \in Sides, n \in Names : WaitingSeen'[s][n] = WaitingSeen[s][n],
         \A p \in Procs : OutcomeSeen'[p] = OutcomeSeen[p]
  PROVE  UNCHANGED Meeting!rendezvousVars
<1>1. OpenSeen' = OpenSeen
  BY DEF OpenSeen
<1>2. WaitingSeen' = WaitingSeen
  BY DEF WaitingSeen
<1>3. OutcomeSeen' = OutcomeSeen
  BY DEF OutcomeSeen
<1> QED
  BY <1>1, <1>2, <1>3, SeenNothing

\* While the worker is not on its way to a list, only the lists count.
LEMMA QuietWaits ==
  ASSUME LInv, NEW w \in Workers, \A v \in Workers : v = w, pc[w] # "yielded",
         NEW s \in Sides, NEW n \in Names
  PROVE  WaitingSeen[s][n] = IF chans[n] = NoChan THEN <<>> ELSE wait[s][chans[n]]
<1>1. \A c \in Chans : wait[s][c] \in Seq(Procs) /\ Arriving(s, c) = <<>>
  BY OneArrives DEF LInv, ChanTypes
<1>2. \A q \in Seq(Procs) : q \o <<>> = q
  OBVIOUS
<1> QED
  BY <1>1, <1>2 DEF WaitingSeen, LInv, ChanTypes

LEMMA QuietWaitsNext ==
  ASSUME LInv', NEW w \in Workers, \A v \in Workers : v = w, pc'[w] # "yielded",
         NEW s \in Sides, NEW n \in Names
  PROVE  WaitingSeen'[s][n] = IF chans'[n] = NoChan THEN <<>> ELSE wait'[s][chans'[n]]
<1>1. \A c \in Chans : wait'[s][c] \in Seq(Procs) /\ Arriving(s, c)' = <<>>
  BY OneArrivesNext DEF LInv, ChanTypes
<1>2. \A q \in Seq(Procs) : q \o <<>> = q
  OBVIOUS
<1>3. PICK c : c = chans'[n]
  OBVIOUS
<1>4. WaitingSeen'[s][n] = IF c = NoChan THEN <<>> ELSE wait'[s][c] \o Arriving(s, c)'
  BY <1>3 DEF WaitingSeen
<1>5. c \in Chans \cup {NoChan}
  BY <1>3 DEF LInv, ChanTypes
<1> QED
  BY <1>1, <1>2, <1>3, <1>4, <1>5

LEMMA OneEntry ==
  ASSUME NEW s \in Sides, NEW n \in Names, NEW q,
         \A r \in Sides, m \in Names :
            WaitingSeen'[r][m] = IF r = s /\ m = n THEN q ELSE WaitingSeen[r][m]
  PROVE  WaitingSeen' = [WaitingSeen EXCEPT ![s][n] = q]
<1> DEFINE f == WaitingSeen
           g == WaitingSeen'
<1>1. /\ f = [r \in Sides |-> [m \in Names |-> f[r][m]]]
      /\ g = [r \in Sides |-> [m \in Names |-> g[r][m]]]
  BY DEF WaitingSeen
<1> QED
  <2> HIDE DEF f, g
  <2>1. \A r \in Sides, m \in Names : g[r][m] = IF r = s /\ m = n THEN q ELSE f[r][m]
    BY DEF f, g
  <2>2. g = [f EXCEPT ![s][n] = q]
    BY <1>1, <2>1
  <2> QED
    BY <2>2 DEF f, g

\* On a dead channel, in the terms of MeetInv.
LEMMA DeadSeen ==
  ASSUME NEW p
  PROVE  /\ OnDeadChannel(p)
              <=> \E c \in Chans, s \in Sides : p \in Elements(wait[s][c]) /\ ~Named(c)
         /\ OnDeadChannel(p)'
              <=> \E c \in Chans, s \in Sides : p \in Elements(wait'[s][c]) /\ ~Named(c)'
<1>1. OnDeadChannel(p)
         <=> \E c \in Chans, s \in Sides : p \in Elements(wait[s][c]) /\ ~Named(c)
  BY Zenon DEF OnDeadChannel, Named
<1>2. OnDeadChannel(p)'
         <=> \E c \in Chans, s \in Sides : p \in Elements(wait'[s][c]) /\ ~Named(c)'
  BY Zenon DEF OnDeadChannel, Named, Elements
<1> QED
  BY <1>1, <1>2

LEMMA OutcomeIs ==
  ASSUME NEW p \in Procs
  PROVE  /\ OutcomeSeen[p] = IF OnDeadChannel(p) THEN "error" ELSE result[p]
         /\ OutcomeSeen'[p] = IF OnDeadChannel(p)' THEN "error" ELSE result'[p]
BY DEF OutcomeSeen

LEMMA AsideSeen ==
  ASSUME OneAtATime, LInv, NEW t \in Threads, Aside(t)
  PROVE  UNCHANGED Meeting!rendezvousVars
<1>1. UNCHANGED <<chans, wait, result>>
  BY DEF Aside
<1>2. ASSUME NEW s \in Sides, NEW c \in Chans
      PROVE  Arriving(s, c)' = Arriving(s, c)
  <2>1. CASE Workers = {}
    BY <2>1 DEF Arriving
  <2>2. ASSUME NEW w \in Workers
        PROVE  Arriving(s, c)' = Arriving(s, c)
    <3>1. \A v \in Workers : v = w
      BY DEF OneAtATime
    <3>2. /\ SchedFacts /\ pc \in [Threads -> Places] /\ w \in Threads
          /\ Wish(s) \in {"BLOCKED_SEND", "BLOCKED_RECV"}
      BY SchedHolds DEF LInv, ChanTypes, Threads, Wish, Sides
    <3>3. CASE t = w
      <4>1. /\ ~(pc[w] = "yielded" /\ status[cur[w]] = Wish(s))
            /\ ~(pc'[w] = "yielded" /\ status'[cur'[w]] = Wish(s))
        BY <3>2, <3>3 DEF Aside, Blocked
      <4> QED
        BY <3>1, <4>1, OneArrives, OneArrivesNext
    <3>4. CASE t # w
      <4>1. pc'[w] = pc[w] /\ cur'[w] = cur[w]
        BY <3>2, <3>4 DEF Aside, Goto
      <4>2. CASE pc[w] = "yielded"
        <5>1. cur[w] \in Procs
          BY <3>2, <4>2, CurRuns DEF Idle
        <5>2. Kept(cur[w]) \/ (status'[cur[w]] # Wish(s) /\ cur[w] # cur[w])
          BY <3>2, <3>4, <5>1 DEF Aside
        <5> QED
          BY <3>1, <4>1, <5>2, OneArrives, OneArrivesNext DEF Kept
      <4>3. CASE pc[w] # "yielded"
        BY <3>1, <4>1, <4>3, OneArrives, OneArrivesNext
      <4> QED
        BY <4>2, <4>3
    <3> QED
      BY <3>3, <3>4
  <2> QED
    BY <2>1, <2>2
<1>3. ASSUME NEW s \in Sides, NEW n \in Names
      PROVE  WaitingSeen'[s][n] = WaitingSeen[s][n]
  <2>1. PICK c : c = chans[n]
    OBVIOUS
  <2>2. c \in Chans \cup {NoChan}
    BY <2>1 DEF LInv, ChanTypes
  <2>3. /\ WaitingSeen[s][n] = IF c = NoChan THEN <<>> ELSE wait[s][c] \o Arriving(s, c)
        /\ WaitingSeen'[s][n] = IF c = NoChan THEN <<>> ELSE wait[s][c] \o Arriving(s, c)'
    BY <1>1, <2>1 DEF WaitingSeen
  <2> QED
    BY <1>2, <2>2, <2>3
<1>4. ASSUME NEW p \in Procs PROVE OutcomeSeen'[p] = OutcomeSeen[p]
  BY <1>1, OutcomeIs, DeadSeen DEF Named
<1> QED
  BY <1>1, <1>3, <1>4, SameSeen

\* A step of the one worker inside a channel function that changes no list.
LEMMA QuietSeen ==
  ASSUME LInv, LInv', NEW w \in Workers, \A v \in Workers : v = w,
         pc[w] # "yielded", pc'[w] # "yielded", UNCHANGED <<chans, wait, result>>
  PROVE  UNCHANGED Meeting!rendezvousVars
<1>1. ASSUME NEW s \in Sides, NEW n \in Names
      PROVE  WaitingSeen'[s][n] = WaitingSeen[s][n]
  BY QuietWaits, QuietWaitsNext
<1>2. ASSUME NEW p \in Procs PROVE OutcomeSeen'[p] = OutcomeSeen[p]
  BY OutcomeIs, DeadSeen DEF Named
<1> QED
  BY <1>1, <1>2, SameSeen

\* The worker queues the process that was on its way.
LEMMA ParkSeen ==
  ASSUME LInv, LInv', MeetInv, NEW w \in Workers, \A v \in Workers : v = w, ParkOn(w)
  PROVE  UNCHANGED Meeting!rendezvousVars
<1>0. SchedFacts /\ ChanTypes /\ w \in Threads
  BY SchedHolds DEF LInv, ChanTypes, Threads
<1>1. PICK s \in Sides : status[cur[w]] = Wish(s) /\ Enlist(s, chan[cur[w]], cur[w])
  BY DEF ParkOn
<1>2. /\ pc[w] = "yielded" /\ pc'[w] = "loop" /\ Blocked(cur[w])
      /\ UNCHANGED <<chans, result>>
  BY <1>0 DEF ParkOn, Park, Goto, ChanTypes
<1>3. PICK p \in Procs : p = cur[w]
  BY <1>0, <1>2, CurRuns DEF Idle
<1>4. PICK c \in Chans : c = chan[p]
  BY <1>0, <1>2, <1>3 DEF ChanTypes
<1>5. /\ wait'[s][c] = Append(wait[s][c], p) /\ wait[s][c] \in Seq(Procs)
      /\ \A r \in Sides, d \in Chans : r # s \/ d # c => wait'[r][d] = wait[r][d]
  BY <1>0, <1>1, <1>3, <1>4 DEF Enlist, ChanTypes
<1>6. \A q \in Seq(Procs) : q \o <<>> = q /\ q \o <<p>> = Append(q, p)
  OBVIOUS
<1>7. ASSUME NEW r \in Sides, NEW n \in Names
      PROVE  WaitingSeen'[r][n] = WaitingSeen[r][n]
  <2>1. PICK d : d = chans[n]
    OBVIOUS
  <2>2. d \in Chans \cup {NoChan}
    BY <1>0, <2>1 DEF ChanTypes
  <2>3. /\ WaitingSeen[r][n] = IF d = NoChan THEN <<>> ELSE wait[r][d] \o Arriving(r, d)
        /\ WaitingSeen'[r][n] = IF d = NoChan THEN <<>> ELSE wait'[r][d]
    BY <1>2, <2>1, QuietWaitsNext DEF WaitingSeen
  <2>4. CASE d \in Chans /\ r = s /\ d = c
    <3>1. Arriving(r, d) = <<p>>
      BY <1>1, <1>2, <1>3, <1>4, <2>4, OneArrives
    <3> QED
      BY <1>5, <1>6, <2>3, <2>4, <3>1
  <2>5. CASE d \in Chans /\ (r # s \/ d # c)
    <3>1. Wish(r) = Wish(s) => r = s
      BY DEF Wish, Sides
    <3>2. Arriving(r, d) = <<>>
      BY <1>1, <1>3, <1>4, <2>5, <3>1, OneArrives
    <3>3. wait[r][d] \in Seq(Procs)
      BY <1>0, <2>5 DEF ChanTypes
    <3> QED
      BY <1>5, <1>6, <2>3, <2>5, <3>2, <3>3
  <2> QED
    BY <2>2, <2>3, <2>4, <2>5
<1>8. ASSUME NEW q \in Procs PROVE OutcomeSeen'[q] = OutcomeSeen[q]
  <2>1. Named(c) /\ Named(c)'
    BY <1>1, <1>2, <1>3, <1>4 DEF MeetInv, Coming, Named
  <2>2. \A d \in Chans \ {c}, r \in Sides : wait'[r][d] = wait[r][d]
    BY <1>5
  <2>3. \A d \in Chans : Named(d)' <=> Named(d)
    BY <1>2 DEF Named
  <2>4. OnDeadChannel(q)' <=> OnDeadChannel(q)
    BY <2>1, <2>2, <2>3, DeadSeen
  <2> QED
    BY <1>2, <2>4, OutcomeIs
<1> QED
  BY <1>2, <1>7, <1>8, SameSeen

\* newchannel stores a channel that nobody waits on.
LEMMA CreateSeen ==
  ASSUME LInv, LInv', MeetInv, NEW w \in Workers, \A v \in Workers : v = w,
         NEW c \in Chans, CreateChannel(w, c)
  PROVE  Meeting!RendezvousNext
<1>0. ChanTypes /\ w \in Threads
  BY DEF LInv, Threads
<1>1. /\ pc[w] = "create" /\ pc'[w] = "lua"
      /\ UNCHANGED <<wait, result>>
      /\ \A s \in Sides : wait[s][c] = <<>>
      /\ naming[w] \in Names
  BY <1>0 DEF CreateChannel, Goto, ChanTypes, FreshChan
<1>2. PICK n \in Names : n = naming[w]
  BY <1>1
<1>3. /\ \A m \in Names : chans'[m] = (IF m = n THEN c ELSE chans[m])
      /\ chans[n] = NoChan
  BY <1>0, <1>1, <1>2 DEF CreateChannel, ChanTypes, MeetInv, Creating
<1>4. OpenSeen' = OpenSeen \cup {n} /\ n \notin OpenSeen
  BY <1>3, ChannelAssumption DEF OpenSeen
<1>5. WaitingSeen' = WaitingSeen
  <2>1. ASSUME NEW s \in Sides, NEW m \in Names
        PROVE  WaitingSeen'[s][m] = WaitingSeen[s][m]
    BY <1>1, <1>3, QuietWaits, QuietWaitsNext
  <2> QED
    BY <2>1 DEF WaitingSeen
<1>6. OutcomeSeen' = OutcomeSeen
  <2>1. \A d \in Chans \ {c} : Named(d)' <=> Named(d)
    BY <1>3, ChannelAssumption DEF Named
  <2>2. \A s \in Sides : Elements(wait[s][c]) = {}
    BY <1>1 DEF Elements
  <2>3. ASSUME NEW p \in Procs PROVE OutcomeSeen'[p] = OutcomeSeen[p]
    <3>1. OnDeadChannel(p)' <=> OnDeadChannel(p)
      BY <1>1, <2>1, <2>2, DeadSeen
    <3> QED
      BY <1>1, <3>1, OutcomeIs
  <2> QED
    BY <2>3 DEF OutcomeSeen
<1>7. Meeting!Open(n)
  BY <1>4, <1>5, <1>6, SeenOpen
<1> QED
  BY <1>7 DEF Meeting!RendezvousNext

\* delchannel: all who wait get an error, those it has still to find included.
LEMMA CloseSeen ==
  ASSUME LInv, LInv', MeetInv, NEW w \in Workers, \A v \in Workers : v = w,
         NEW n \in Names, CallDelchannel(w, n)
  PROVE  Meeting!RendezvousNext
<1>0. ChanTypes /\ w \in Threads
  BY DEF LInv, Threads
<1>1. PICK c \in Chans : c = chans[n]
  BY <1>0 DEF CallDelchannel, ChanTypes
<1>2. /\ pc[w] = "lua" /\ pc'[w] # "yielded"
      /\ UNCHANGED <<wait, result>>
  BY <1>0 DEF CallDelchannel, Goto, ChanTypes, Draining, DrainSide
<1>3. \A m \in Names : chans'[m] = (IF m = n THEN NoChan ELSE chans[m])
  BY <1>0 DEF CallDelchannel, ChanTypes
<1>4. OpenSeen' = OpenSeen \ {n} /\ n \in OpenSeen
  BY <1>1, <1>3, ChannelAssumption DEF OpenSeen
<1>5. WaitingSeen' = [s \in Sides |-> [WaitingSeen[s] EXCEPT ![n] = <<>>]]
  <2>1. ASSUME NEW s \in Sides, NEW m \in Names
        PROVE  WaitingSeen'[s][m] = IF m = n THEN <<>> ELSE WaitingSeen[s][m]
    BY <1>2, <1>3, QuietWaits, QuietWaitsNext
  <2> QED
    BY <2>1 DEF WaitingSeen
<1>6. \A p : (\E s \in Sides : \E i \in 1 .. Len(WaitingSeen[s][n]) : WaitingSeen[s][n][i] = p)
                <=> \E s \in Sides : p \in Elements(wait[s][c])
  <2>1. \A s \in Sides : WaitingSeen[s][n] = wait[s][c]
    BY <1>1, <1>2, QuietWaits, ChannelAssumption
  <2> QED
    BY <2>1 DEF Elements
<1>7. ASSUME NEW p \in Procs
      PROVE  OutcomeSeen'[p] = IF \E s \in Sides : p \in Elements(wait[s][c])
                                 THEN "error" ELSE OutcomeSeen[p]
  <2>1. \A d \in Chans \ {c} : Named(d)' <=> Named(d)
    BY <1>1, <1>3, ChannelAssumption DEF Named
  <2>2. \A m \in Names : chans[m] = c => m = n
    BY <1>1, ChannelAssumption DEF MeetInv, OneName
  <2>3. Named(c) /\ ~Named(c)'
    BY <1>1, <1>3, <2>2, ChannelAssumption DEF Named
  <2>4. OnDeadChannel(p)'
          <=> OnDeadChannel(p) \/ \E s \in Sides : p \in Elements(wait[s][c])
    BY <1>2, <2>1, <2>3, DeadSeen
  <2> QED
    BY <1>2, <2>4, OutcomeIs
<1>8. OutcomeSeen' =
        [p \in Procs |->
           IF \E s \in Sides : \E i \in 1 .. Len(WaitingSeen[s][n]) :
                  WaitingSeen[s][n][i] = p
             THEN "error" ELSE OutcomeSeen[p]]
  BY <1>6, <1>7 DEF OutcomeSeen
<1>9. Meeting!Close(n)
  BY <1>4, <1>5, <1>8, SeenClose
<1> QED
  BY <1>9 DEF Meeting!RendezvousNext

\* The first process of a list is taken off it; then it is in no list.
LEMMA TakenSeen ==
  ASSUME LInv, NEW w \in Workers, NEW s \in Sides, NEW c \in Chans,
         wait[s][c] # <<>>, Delist(s, c), parked' = parked \ {Head(wait[s][c])}
  PROVE  /\ Head(wait[s][c]) \in Procs
         /\ wait'[s][c] = Tail(wait[s][c])
         /\ \A r \in Sides, d \in Chans :
               /\ r # s \/ d # c => wait'[r][d] = wait[r][d]
               /\ Elements(wait'[r][d]) = Elements(wait[r][d]) \ {Head(wait[s][c])}
<1>0. /\ SchedFacts /\ ChanTypes /\ Lists
  BY SchedHolds DEF LInv, ChanTypes
<1>1. PICK lp : lp = Head(wait[s][c])
  OBVIOUS
<1>2. /\ lp \in Elements(wait[s][c]) /\ lp \in parked
      /\ Elements(wait'[s][c]) = Elements(wait[s][c]) \ {lp}
      /\ \A r \in Sides, d \in Chans : r # s \/ d # c => wait'[r][d] = wait[r][d]
  BY <1>0, <1>1, TakenOff DEF ChanTypes, SchedFacts
<1>3. lp \in Procs
  BY <1>0, <1>2 DEF SchedFacts
<1>4. \A r \in Sides, d \in Chans : r # s \/ d # c => lp \notin Elements(wait[r][d])
  BY <1>0, <1>2, <1>3 DEF Lists
<1>5. wait'[s][c] = Tail(wait[s][c])
  BY <1>0 DEF Delist, ChanTypes
<1> QED
  BY <1>1, <1>2, <1>3, <1>4, <1>5

\* send or receive meets the first process that waits.
LEMMA MeetSeen ==
  ASSUME LInv, LInv', MeetInv, NEW w \in Workers, \A v \in Workers : v = w,
         NEW f \in {"send", "receive", "areceive"}, NEW r \in {"ok", "error"},
         Meet(w, f, r)
  PROVE  Meeting!RendezvousNext
<1>0. ChanTypes /\ w \in Threads
  BY DEF LInv, Threads
<1>1. PICK s \in Sides : s = PartnerOf(f)
  BY DEF PartnerOf, Sides
<1>2. pc[w] = f /\ pc'[w] = "wake" /\ UNCHANGED chans
  BY <1>0 DEF Meet, Goto, ChanTypes
<1>3. PICK n \in Names : chans[n] = using[w]
  BY <1>2 DEF MeetInv, UsingNamed, Named
<1>4. PICK c \in Chans : c = using[w]
  BY <1>0, <1>2 DEF ChanTypes, ChannelPCs
<1>5. PICK lp : lp = Head(wait[s][c])
  OBVIOUS
<1>6. /\ wait[s][c] # <<>> /\ Delist(s, c) /\ parked' = parked \ {Head(wait[s][c])}
      /\ result' = [result EXCEPT ![lp] = r]
  BY <1>1, <1>4, <1>5 DEF Meet
<1>7. /\ lp \in Procs
      /\ wait'[s][c] = Tail(wait[s][c])
      /\ \A q \in Sides, d \in Chans :
            /\ q # s \/ d # c => wait'[q][d] = wait[q][d]
            /\ Elements(wait'[q][d]) = Elements(wait[q][d]) \ {lp}
  <2>1. /\ Head(wait[s][c]) \in Procs
        /\ wait'[s][c] = Tail(wait[s][c])
        /\ \A q \in Sides, d \in Chans :
              /\ q # s \/ d # c => wait'[q][d] = wait[q][d]
              /\ Elements(wait'[q][d]) = Elements(wait[q][d]) \ {Head(wait[s][c])}
    BY <1>6, TakenSeen
  <2> QED
    BY <1>5, <2>1
<1>8. \A q \in Sides, m \in Names :
         WaitingSeen[q][m] = IF chans[m] = NoChan THEN <<>> ELSE wait[q][chans[m]]
  BY <1>2, QuietWaits
<1>9. \A q \in Sides, m \in Names :
         WaitingSeen'[q][m] = IF chans[m] = NoChan THEN <<>> ELSE wait'[q][chans[m]]
  BY <1>2, QuietWaitsNext
<1>10. /\ OpenSeen' = OpenSeen /\ n \in OpenSeen
       /\ WaitingSeen[s][n] = wait[s][c]
  BY <1>2, <1>3, <1>4, <1>8, ChannelAssumption DEF OpenSeen
<1>11. WaitingSeen' = [WaitingSeen EXCEPT ![s][n] = Tail(@)]
  <2>1. \A m \in Names : chans[m] = c => m = n
    BY <1>3, <1>4, ChannelAssumption DEF MeetInv, OneName
  <2>2. ASSUME NEW q \in Sides, NEW m \in Names
        PROVE  WaitingSeen'[q][m] = IF q = s /\ m = n THEN Tail(WaitingSeen[s][n])
                                    ELSE WaitingSeen[q][m]
    <3>1. CASE q = s /\ m = n
      BY <1>3, <1>4, <1>7, <1>9, <1>10, <3>1, ChannelAssumption
    <3>2. CASE ~(q = s /\ m = n)
      <4>1. chans[m] \in Chans \cup {NoChan}
        BY <1>0 DEF ChanTypes
      <4>2. chans[m] \in Chans => wait'[q][chans[m]] = wait[q][chans[m]]
        BY <1>7, <2>1, <3>2
      <4> QED
        BY <1>8, <1>9, <3>2, <4>1, <4>2
    <3> QED
      BY <3>1, <3>2
  <2> QED
    BY <2>2, OneEntry
<1>12. OutcomeSeen' = [OutcomeSeen EXCEPT ![lp] = r]
  <2>1. ASSUME NEW p \in Procs
        PROVE  OutcomeSeen'[p] = IF p = lp THEN r ELSE OutcomeSeen[p]
    <3>1. result'[p] = IF p = lp THEN r ELSE result[p]
      BY <1>0, <1>6 DEF ChanTypes
    <3>2. OnDeadChannel(p)' <=> OnDeadChannel(p) /\ p # lp
      BY <1>2, <1>7, DeadSeen DEF Named
    <3> QED
      BY <3>1, <3>2, OutcomeIs
  <2> QED
    BY <2>1 DEF OutcomeSeen
<1>13. Meeting!Meet(s, n, r)
  BY <1>5, <1>6, <1>10, <1>11, <1>12, SeenMeet
<1> QED
  BY <1>13 DEF Meeting!RendezvousNext, Meeting!Sides, Sides, OpenSeen

\* delchannel finds one more process that waits: it had its error already.
LEMMA DrainTakeSeen ==
  ASSUME LInv, LInv', MeetInv, NEW w \in Workers, \A v \in Workers : v = w,
         NEW s \in Sides, DrainTake(w, s)
  PROVE  UNCHANGED Meeting!rendezvousVars
<1>0. ChanTypes /\ w \in Threads
  BY DEF LInv, Threads
<1>1. /\ pc[w] = Draining[s] /\ pc'[w] = Dropping[s] /\ UNCHANGED chans
      /\ Draining[s] \in {"drain_send", "drain_recv"}
      /\ Dropping[s] \in {"drop_send", "drop_recv"}
  BY <1>0 DEF DrainTake, Goto, ChanTypes, Draining, Dropping, Sides
<1>2. PICK c \in Chans : c = using[w]
  BY <1>0, <1>1 DEF ChanTypes, ChannelPCs
<1>3. ~Named(c)
  BY <1>1, <1>2 DEF MeetInv, Emptying
<1>4. PICK lp : lp = Head(wait[s][c])
  OBVIOUS
<1>5. /\ wait[s][c] # <<>> /\ Delist(s, c) /\ parked' = parked \ {Head(wait[s][c])}
      /\ result' = [result EXCEPT ![lp] = "error"]
  BY <1>2, <1>4 DEF DrainTake
<1>6. /\ lp \in Procs
      /\ \A q \in Sides, d \in Chans :
            /\ q # s \/ d # c => wait'[q][d] = wait[q][d]
            /\ Elements(wait'[q][d]) = Elements(wait[q][d]) \ {lp}
  <2>1. /\ Head(wait[s][c]) \in Procs
        /\ \A q \in Sides, d \in Chans :
              /\ q # s \/ d # c => wait'[q][d] = wait[q][d]
              /\ Elements(wait'[q][d]) = Elements(wait[q][d]) \ {Head(wait[s][c])}
    BY <1>5, TakenSeen
  <2> QED
    BY <1>4, <2>1
<1>7. ASSUME NEW q \in Sides, NEW m \in Names
      PROVE  WaitingSeen'[q][m] = WaitingSeen[q][m]
  <2>1. chans[m] \in Chans \cup {NoChan} /\ chans[m] # c
    BY <1>0, <1>3 DEF ChanTypes, Named
  <2> QED
    BY <1>1, <1>6, <2>1, QuietWaits, QuietWaitsNext
<1>8. ASSUME NEW p \in Procs PROVE OutcomeSeen'[p] = OutcomeSeen[p]
  <2>1. result'[p] = IF p = lp THEN "error" ELSE result[p]
    BY <1>0, <1>5 DEF ChanTypes
  <2>2. OnDeadChannel(lp)
    <3>1. lp \in Elements(wait[s][c])
      BY <1>0, <1>4, <1>5 DEF ChanTypes, Elements
    <3> QED
      BY <1>3, <3>1, DeadSeen
  <2>3. OnDeadChannel(p)' <=> OnDeadChannel(p) /\ p # lp
    BY <1>1, <1>6, DeadSeen DEF Named
  <2> QED
    BY <2>1, <2>2, <2>3, OutcomeIs
<1> QED
  BY <1>1, <1>7, <1>8, SameSeen

\* send or receive finds nobody: the process waits from the moment it yields.
LEMMA BlockSeen ==
  ASSUME LInv, LInv', MeetInv, NEW w \in Workers, \A v \in Workers : v = w,
         NEW f \in {"send", "receive"}, BlockOn(w, f)
  PROVE  Meeting!RendezvousNext
<1>0. SchedFacts /\ ChanTypes /\ Lists /\ w \in Threads
  BY SchedHolds DEF LInv, ChanTypes, Threads
<1>1. /\ pc[w] = f /\ pc'[w] = "yielded"
      /\ UNCHANGED <<parked, cur, chans, wait>>
      /\ wait[PartnerOf(f)][using[w]] = <<>>
  BY <1>0 DEF BlockOn, Goto, ChanTypes
<1>2. PICK s \in Sides : s = SideOf(f) /\ \A r \in Sides \ {s} : r = PartnerOf(f)
  BY DEF SideOf, PartnerOf, Sides
<1>3. PICK p \in Procs : p = cur[w] /\ p \notin parked
  BY <1>0, <1>1, CurRuns DEF Idle
<1>4. PICK c \in Chans : c = using[w]
  BY <1>0, <1>1 DEF ChanTypes, ChannelPCs
<1>5. PICK n \in Names : chans[n] = c
  BY <1>1, <1>4 DEF MeetInv, UsingNamed, Named
<1>6. /\ status'[p] = Wish(s) /\ chan'[p] = c
      /\ \A q \in Procs : result'[q] = IF q = p THEN "none" ELSE result[q]
  BY <1>0, <1>2, <1>3, <1>4 DEF BlockOn, SchedFacts, ChanTypes
<1>7. \A q \in Sides, m \in Names :
         WaitingSeen[q][m] = IF chans[m] = NoChan THEN <<>> ELSE wait[q][chans[m]]
  BY <1>1, QuietWaits
<1>8. \A q \in Sides, d \in Chans : p \notin Elements(wait[q][d])
  BY <1>0, <1>3 DEF Lists
<1>9. /\ OpenSeen' = OpenSeen /\ n \in OpenSeen
      /\ WaitingSeen[s][n] = wait[s][c]
      /\ \A r \in Sides \ {s} : WaitingSeen[r][n] = <<>>
  BY <1>1, <1>2, <1>4, <1>5, <1>7, ChannelAssumption DEF OpenSeen
<1>10. \A q \in Sides, m \in Names : \A i \in 1 .. Len(WaitingSeen[q][m]) :
          WaitingSeen[q][m][i] # p
  <2> SUFFICES ASSUME NEW q \in Sides, NEW m \in Names
               PROVE  p \notin Elements(WaitingSeen[q][m])
    BY DEF Elements
  <2>1. chans[m] \in Chans \cup {NoChan}
    BY <1>0 DEF ChanTypes
  <2>2. Elements(<<>>) = {}
    BY DEF Elements
  <2> QED
    BY <1>7, <1>8, <2>1, <2>2
<1>11. WaitingSeen' = [WaitingSeen EXCEPT ![s][n] = Append(@, p)]
  <2>0. \A q \in Seq(Procs) : q \o <<>> = q /\ q \o <<p>> = Append(q, p)
    OBVIOUS
  <2>1. \A m \in Names : chans[m] = c => m = n
    BY <1>5, ChannelAssumption DEF MeetInv, OneName
  <2>2. ASSUME NEW q \in Sides, NEW m \in Names
        PROVE  WaitingSeen'[q][m] = IF q = s /\ m = n THEN Append(WaitingSeen[s][n], p)
                                    ELSE WaitingSeen[q][m]
    <3>1. PICK d : d = chans[m]
      OBVIOUS
    <3>2. d \in Chans \cup {NoChan}
      BY <1>0, <3>1 DEF ChanTypes
    <3>3. WaitingSeen'[q][m] = IF d = NoChan THEN <<>> ELSE wait[q][d] \o Arriving(q, d)'
      BY <1>1, <3>1 DEF WaitingSeen
    <3>4. CASE q = s /\ m = n
      <4>1. Arriving(q, d)' = <<p>>
        BY <1>1, <1>3, <1>5, <1>6, <3>1, <3>4, OneArrivesNext
      <4>2. wait[s][c] \in Seq(Procs)
        BY <1>0 DEF ChanTypes
      <4> QED
        BY <1>5, <1>9, <2>0, <3>1, <3>3, <3>4, <4>1, <4>2, ChannelAssumption
    <3>5. CASE ~(q = s /\ m = n) /\ d \in Chans
      <4>1. Wish(q) = Wish(s) => q = s
        BY DEF Wish, Sides
      <4>2. Arriving(q, d)' = <<>>
        BY <1>1, <1>3, <1>6, <2>1, <3>1, <3>5, <4>1, OneArrivesNext
      <4>3. wait[q][d] \in Seq(Procs)
        BY <1>0, <3>5 DEF ChanTypes
      <4> QED
        BY <1>7, <2>0, <3>1, <3>3, <3>5, <4>2, <4>3, ChannelAssumption
    <3>6. CASE ~(q = s /\ m = n) /\ d = NoChan
      BY <1>7, <3>1, <3>3, <3>6
    <3> QED
      BY <3>2, <3>4, <3>5, <3>6
  <2> QED
    BY <2>2, OneEntry
<1>12. OutcomeSeen' = [OutcomeSeen EXCEPT ![p] = "none"]
  <2>1. ASSUME NEW q \in Procs
        PROVE  OutcomeSeen'[q] = IF q = p THEN "none" ELSE OutcomeSeen[q]
    <3>1. OnDeadChannel(q)' <=> OnDeadChannel(q)
      BY <1>1, DeadSeen DEF Named
    <3>2. ~OnDeadChannel(p)
      BY <1>8, DeadSeen
    <3> QED
      BY <1>6, <3>1, <3>2, OutcomeIs
  <2> QED
    BY <2>1 DEF OutcomeSeen
<1>13. Meeting!Wait(p, s, n)
  BY <1>9, <1>10, <1>11, <1>12, SeenWait
<1> QED
  BY <1>9, <1>13 DEF Meeting!RendezvousNext, Meeting!Sides, Sides, OpenSeen

LEMMA WorkerMeets ==
  ASSUME LInv, LInv', MeetInv, NEW w \in Workers, \A v \in Workers : v = w,
         ParkOn(w) \/ ChannelCall(w) \/ ChannelStep(w)
  PROVE  Meeting!RendezvousNext \/ UNCHANGED Meeting!rendezvousVars
<1>0. ChanTypes /\ w \in Threads
  BY DEF LInv, Threads
<1> USE <1>0
<1>1. CASE ParkOn(w)
  BY <1>1, ParkSeen
<1>2. CASE \E c \in Chans : CreateChannel(w, c)
  BY <1>2, CreateSeen
<1>3. CASE \E n \in Names : CallDelchannel(w, n)
  BY <1>3, CloseSeen
<1>4. CASE \E f \in {"send", "receive", "areceive"}, r \in {"ok", "error"} :
             Meet(w, f, r)
  BY <1>4, MeetSeen
<1>5. CASE \E s \in Sides : DrainTake(w, s)
  BY <1>5, DrainTakeSeen
<1>6. CASE \E f \in {"send", "receive"} : w \in Workers /\ BlockOn(w, f)
  BY <1>6, BlockSeen
<1>7. CASE \/ \E n \in Names : CallNewchannel(w, n)
           \/ FindNobody(w)
           \/ \E f \in {"send", "receive", "areceive"}, n \in Names : CallChannel(w, f, n)
  <2>1. pc[w] # "yielded" /\ pc'[w] # "yielded" /\ UNCHANGED <<chans, wait, result>>
    BY <1>7 DEF CallNewchannel, FindNobody, CallChannel, Goto, ChanTypes
  <2> QED
    BY <2>1, QuietSeen
<1>8. CASE \E s \in Sides : DrainWake(w, s) \/ DrainEnd(w, s)
  <2>1. PICK s \in Sides : DrainWake(w, s) \/ DrainEnd(w, s)
    BY <1>8
  <2>2. pc[w] # "yielded" /\ pc'[w] # "yielded" /\ UNCHANGED <<chans, wait, result>>
    BY <2>1 DEF DrainWake, DrainEnd, Goto, ChanTypes, chanVars, Draining, Dropping, Sides
  <2> QED
    BY <2>2, QuietSeen
<1> QED
  BY <1>1, <1>2, <1>3, <1>4, <1>5, <1>6, <1>7, <1>8 DEF ChannelCall, ChannelStep

LEMMA InitSeen == LInit => Meeting!RendezvousInit
<1> SUFFICES ASSUME LInit PROVE Meeting!RendezvousInit
  OBVIOUS
<1>1. /\ chans = [n \in Names |-> NoChan]
      /\ wait = [s \in Sides |-> [c \in Chans |-> <<>>]]
      /\ result = [p \in Procs |-> "none"]
  BY DEF LInit, ChanInit
<1>2. OpenSeen = {}
  BY <1>1 DEF OpenSeen
<1>3. WaitingSeen = [s \in Sides |-> [n \in Names |-> <<>>]]
  BY <1>1 DEF WaitingSeen
<1>4. OutcomeSeen = [p \in Procs |-> "none"]
  <2>1. \A s \in Sides, c \in Chans : Elements(wait[s][c]) = {}
    BY <1>1 DEF Elements
  <2>2. \A p \in Procs : ~OnDeadChannel(p)
    BY <2>1, DeadSeen
  <2> QED
    BY <1>1, <2>2 DEF OutcomeSeen
<1> QED
  BY <1>2, <1>3, <1>4
     DEF Meeting!RendezvousInit, Meeting!Sides, Sides, OpenSeen, WaitingSeen, OutcomeSeen

LEMMA EveryStepSeen ==
  ASSUME OneAtATime, LInv, MeetInv, [LNext]_allVars
  PROVE  [Meeting!RendezvousNext]_(Meeting!rendezvousVars)
<1>0. LInv'
  BY LInvStep
<1>1. CASE LNext
  <2>1. CASE \E t \in Threads : SharedStep(t)
    <3>1. PICK t \in Threads : SharedStep(t)
      BY <2>1
    <3>2. Aside(t)
      BY <3>1, SharedAside DEF MeetInv
    <3> QED
      BY <3>2, AsideSeen
  <2>2. ASSUME NEW w \in Workers, \A v \in Workers : v = w,
               ParkOn(w) \/ ChannelCall(w) \/ ChannelStep(w)
        PROVE  [Meeting!RendezvousNext]_(Meeting!rendezvousVars)
    BY <1>0, <2>2, WorkerMeets
  <2> QED
    BY <1>1, <2>1, <2>2, StepKinds
<1>2. CASE UNCHANGED allVars
  <2>1. UNCHANGED <<pc, status, cur, chans, wait, chan, result>>
    BY <1>2 DEF allVars, vars, chanVars, schedVars, procVars, threadVars
  <2>2. UNCHANGED <<OpenSeen, WaitingSeen, OutcomeSeen>>
    <3>1. ASSUME NEW s \in Sides, NEW c PROVE Arriving(s, c)' = Arriving(s, c)
      BY <2>1, Zenon DEF Arriving
    <3>2. ASSUME NEW p PROVE OnDeadChannel(p)' <=> OnDeadChannel(p)
      BY <2>1, DeadSeen DEF Named
    <3>3. WaitingSeen' = WaitingSeen
      BY <2>1, Zenon DEF WaitingSeen, Arriving
    <3> QED
      BY <2>1, <3>2, <3>3 DEF OpenSeen, OutcomeSeen
  <2> QED
    BY <2>2, SeenNothing
<1> QED
  BY <1>1, <1>2

\* With one worker the channels implement the rendezvous they promise: who
\* comes first waits, in order of arrival, a sender meets the first receiver,
\* and all who wait on a channel when it is destroyed get an error - although
\* luaproc_send returns before its process is in the list, and
\* luaproc_delchannel takes one process after the other.
THEOREM RendezvousImplemented == OneAtATime => (LSpec => ImplementsRendezvous)
<1> SUFFICES ASSUME OneAtATime PROVE LSpec => ImplementsRendezvous
  OBVIOUS
<1>1. LInv /\ MeetInv /\ [LNext]_allVars => [Meeting!RendezvousNext]_(Meeting!rendezvousVars)
  BY EveryStepSeen
<1> QED
  BY <1>1, InitSeen, MeetInvCorrect, PTL
     DEF LSpec, ImplementsRendezvous, Meeting!RendezvousSpec
=============================================================================
