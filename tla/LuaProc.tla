------------------------------- MODULE LuaProc -------------------------------
(***************************************************************************)
(* The channels of luaproc (components/modules/lua-proc/luaproc.c) on top  *)
(* of the scheduler: lua processes create and destroy channels, send and   *)
(* receive.  LpSched's Block and Unpark are replaced by what send, receive *)
(* and delchannel do; every other scheduler step is LpSched's.             *)
(*                                                                         *)
(* channel_locked_get locks the channel's mutex and unlocks it again       *)
(* before it returns the channel, so no mutex is held from the moment a    *)
(* process looks for a partner until the worker has queued it: these are   *)
(* separate steps.  Likewise luaproc_unlock_channel unlocks a mutex nobody *)
(* holds and posts a semaphore nobody waits for: it changes nothing and is *)
(* left out.  A lookup in the channels table, and one list operation, is   *)
(* one step.                                                               *)
(*                                                                         *)
(* The main state only creates processes here; MainChannel adds its sends  *)
(* and receives.  The number of workers is fixed: setnumworkers, recycle,  *)
(* wait and the exit of the main state are LpSched's subject.              *)
(***************************************************************************)
EXTENDS LpSched, SequencesExt

CONSTANTS
    Names,              \* channel names
    Chans,              \* channel structures (struct stchannel)
    NoChan

ASSUME ChannelAssumption == NoChan \notin Chans

VARIABLES
    chans,              \* the channels table: name -> channel or NoChan
    wait,               \* wait[side][c]: c->send and c->recv
    chan,               \* lp->chan
    using,              \* the channel a thread works on inside a call
    naming,             \* the name a thread creates a channel for
    result              \* what the last send or receive of a process returns

chanVars == <<chans, wait, chan, using, naming, result>>
allVars == <<vars, chanVars>>

Sides == {"send", "recv"}

ChanInit ==
    /\ chans = [n \in Names |-> NoChan]
    /\ wait = [s \in Sides |-> [c \in Chans |-> <<>>]]
    /\ chan = [p \in Procs |-> NoChan]
    /\ using = [t \in Threads |-> NoChan]
    /\ naming = [t \in Threads |-> Nil]
    /\ result = [p \in Procs |-> "none"]

LInit == Init /\ ChanInit
-----------------------------------------------------------------------------
(* Helpers *)

\* A function of the library that works on a channel.
SideOf(f) == IF f = "send" THEN "send" ELSE "recv"

\* Variant with a fault: a sender looks for senders.
PartnerOfSame(f) == SideOf(f)

PartnerOf(f) == IF f = "send" THEN "recv" ELSE "send"

Wish(s) == IF s = "send" THEN "BLOCKED_SEND" ELSE "BLOCKED_RECV"

\* Variant with a fault: the last to come is the first to be served.
EnlistFirst(s, c, p) == wait' = [wait EXCEPT ![s][c] = <<p>> \o @]

\* luaproc_queue_sender, luaproc_queue_receiver
Enlist(s, c, p) == wait' = [wait EXCEPT ![s][c] = Append(@, p)]

\* Variant with a fault: the process that is served stays in the list.
DelistNone(s, c) == UNCHANGED wait

\* __list_remove on one of the channel's lists
Delist(s, c) == wait' = [wait EXCEPT ![s][c] = Tail(@)]

\* A structure that a new channel may occupy: no one refers to it.
FreshChan(c) ==
    /\ \A n \in Names : chans[n] # c
    /\ \A t \in Threads : using[t] # c
    /\ \A s \in Sides : wait[s][c] = <<>>
    /\ \A w \in Workers : pc[w] = "yielded" => chan[cur[w]] # c
-----------------------------------------------------------------------------
(* newchannel *)

\* No channel of this name was found.  (If there is one, the caller gets an
\* error and nothing changes.)
CallNewchannel(t, n) ==
    /\ MayCall(t, "newchannel")
    /\ chans[n] = NoChan
    /\ \E c \in Chans : FreshChan(c)
    /\ Goto(t, "lua", "create")
    /\ naming' = [naming EXCEPT ![t] = n]
    /\ UNCHANGED <<schedVars, procVars, recycleVars, joinVars, cur, obj, handle,
                   chans, wait, chan, using, result>>

\* channel_create stores the channel without looking again.
CreateChannel(t, c) ==
    /\ Goto(t, "create", "lua")
    /\ FreshChan(c)
    /\ chans' = [chans EXCEPT ![naming[t]] = c]
    /\ naming' = [naming EXCEPT ![t] = Nil]
    /\ UNCHANGED <<schedVars, procVars, recycleVars, joinVars, cur, obj, handle,
                   wait, chan, using, result>>
-----------------------------------------------------------------------------
(* send, receive and asynchronous receive ("areceive") *)

\* channel_locked_get.  (If there is no channel, the caller gets an error.)
CallChannel(t, f, n) ==
    /\ MayCall(t, f)
    /\ chans[n] # NoChan
    /\ Goto(t, "lua", f)
    /\ using' = [using EXCEPT ![t] = chans[n]]
    /\ UNCHANGED <<schedVars, procVars, recycleVars, joinVars, cur, obj, handle,
                   chans, wait, chan, naming, result>>

\* A partner waits: its values are copied, or they cannot be and both sides
\* get an error; then the partner is scheduled (Wake).
Meet(t, f, outcome) ==
    LET c == using[t]
        lp == Head(wait[PartnerOf(f)][c])
    IN  /\ Goto(t, f, "wake")
        /\ wait[PartnerOf(f)][c] # <<>>
        /\ Delist(PartnerOf(f), c)
        /\ parked' = parked \ {lp}
        /\ obj' = [obj EXCEPT ![t] = lp]
        /\ result' = [result EXCEPT ![lp] = outcome]
        /\ using' = [using EXCEPT ![t] = NoChan]
        /\ UNCHANGED <<schedVars, status, lpcount, recycleVars, joinVars, cur,
                       handle, chans, chan, naming>>

\* An asynchronous receive finds no sender and returns an error.
FindNobody(t) ==
    /\ Goto(t, "areceive", "lua")
    /\ wait["send"][using[t]] = <<>>
    /\ using' = [using EXCEPT ![t] = NoChan]
    /\ UNCHANGED <<schedVars, procVars, recycleVars, joinVars, cur, obj, handle,
                   chans, wait, chan, naming, result>>

\* Variant with a fault: the process does not note the channel.
BlockNowhere(w, f) ==
    /\ Goto(w, f, "yielded")
    /\ wait[PartnerOf(f)][using[w]] = <<>>
    /\ status' = [status EXCEPT ![cur[w]] = Wish(SideOf(f))]
    /\ result' = [result EXCEPT ![cur[w]] = "none"]
    /\ using' = [using EXCEPT ![w] = NoChan]
    /\ UNCHANGED <<schedVars, parked, lpcount, recycleVars, joinVars, cur, obj,
                   handle, chans, wait, chan, naming>>

\* No partner: note the wish and the channel, and yield.
BlockOn(w, f) ==
    /\ Goto(w, f, "yielded")
    /\ wait[PartnerOf(f)][using[w]] = <<>>
    /\ status' = [status EXCEPT ![cur[w]] = Wish(SideOf(f))]
    /\ chan' = [chan EXCEPT ![cur[w]] = using[w]]
    /\ result' = [result EXCEPT ![cur[w]] = "none"]
    /\ using' = [using EXCEPT ![w] = NoChan]
    /\ UNCHANGED <<schedVars, parked, lpcount, recycleVars, joinVars, cur, obj,
                   handle, chans, wait, naming>>

\* The worker, back from luaproc_resume, queues the process on its channel.
ParkOn(w) ==
    /\ Park(w)
    /\ \E s \in Sides :
          /\ status[cur[w]] = Wish(s)
          /\ Enlist(s, chan[cur[w]], cur[w])
    /\ UNCHANGED <<chans, chan, using, naming, result>>
-----------------------------------------------------------------------------
(* delchannel *)

\* Variant with a fault: only senders are freed.
DrainSenders(c) == "send"

\* The one list of the channel that is emptied.
DrainSide(c) == IF wait["send"][c] # <<>> THEN "send" ELSE "recv"

\* Where a thread stands that empties a list, or schedules one of its processes.
Draining == [send |-> "drain_send", recv |-> "drain_recv"]
Dropping == [send |-> "drop_send", recv |-> "drop_recv"]

\* The channel leaves the table; which list to empty is decided once.
CallDelchannel(t, n) ==
    /\ MayCall(t, "delchannel")
    /\ chans[n] # NoChan
    /\ Goto(t, "lua", Draining[DrainSide(chans[n])])
    /\ using' = [using EXCEPT ![t] = chans[n]]
    /\ chans' = [chans EXCEPT ![n] = NoChan]
    /\ UNCHANGED <<schedVars, procVars, recycleVars, joinVars, cur, obj, handle,
                   wait, chan, naming, result>>

\* One waiting process after the other gets an error ...
DrainTake(t, s) ==
    LET lp == Head(wait[s][using[t]])
    IN  /\ Goto(t, Draining[s], Dropping[s])
        /\ wait[s][using[t]] # <<>>
        /\ Delist(s, using[t])
        /\ parked' = parked \ {lp}
        /\ obj' = [obj EXCEPT ![t] = lp]
        /\ result' = [result EXCEPT ![lp] = "error"]
        /\ UNCHANGED <<schedVars, status, lpcount, recycleVars, joinVars, cur,
                       handle, chans, chan, using, naming>>

\* ... and is scheduled.
DrainWake(t, s) ==
    /\ Goto(t, Dropping[s], Draining[s])
    /\ QueueProc(obj[t])
    /\ obj' = [obj EXCEPT ![t] = Nil]
    /\ UNCHANGED <<parked, lpcount, recycleVars, joinVars, cur, handle, chanVars>>

DrainEnd(t, s) ==
    /\ Goto(t, Draining[s], "lua")
    /\ wait[s][using[t]] = <<>>
    /\ using' = [using EXCEPT ![t] = NoChan]
    /\ UNCHANGED <<schedVars, procVars, recycleVars, joinVars, cur, obj, handle,
                   chans, wait, chan, naming, result>>
-----------------------------------------------------------------------------
(* The scheduler's steps, with the channels unchanged *)

\* luaproc_create_newproc clears lp->chan of the process it has got.
NewprocFresh(t) ==
    /\ \/ NewprocReuse(t)
       \/ \E p \in Procs, h \in Handles : NewprocCreate(t, p, h)
    /\ chan' = [chan EXCEPT ![obj'[t]] = NoChan]
    /\ UNCHANGED <<chans, wait, using, naming, result>>

LWorkerStep(w) ==
    \/ ParkOn(w)
    \/ /\ \/ GoIdle(w) \/ WakeUp(w) \/ Take(w) \/ Requeue(w)
          \/ Retire(w) \/ DecLpcount(w)
       /\ UNCHANGED chanVars

LReturn(w) ==
    /\ Finish(w) \/ Fail(w) \/ Yield(w)
    /\ UNCHANGED chanVars

ChannelStep(t) ==
    \/ \E c \in Chans : CreateChannel(t, c)
    \/ \E f \in {"send", "receive", "areceive"}, outcome \in {"ok", "error"} :
          Meet(t, f, outcome)
    \/ FindNobody(t)
    \/ \E f \in {"send", "receive"} : t \in Workers /\ BlockOn(t, f)
    \/ \E s \in Sides : DrainTake(t, s) \/ DrainWake(t, s) \/ DrainEnd(t, s)

LCallStep(t) ==
    \/ ChannelStep(t)
    \/ NewprocFresh(t)
    \/ /\ \/ NewprocLock(t) \/ NewprocLoaded(t) \/ NewprocBadCode(t)
          \/ NewprocBadUpvalue(t) \/ NewprocUndo(t) \/ NewprocInc(t)
          \/ NewprocQueue(t) \/ Wake(t)
       /\ UNCHANGED chanVars

LCall(t) ==
    \/ \E n \in Names : CallNewchannel(t, n) \/ CallDelchannel(t, n)
    \/ \E f \in {"send", "receive", "areceive"}, n \in Names :
          CallChannel(t, f, n)
    \/ CallNewproc(t) /\ UNCHANGED chanVars

LNext ==
    \/ \E w \in Workers : LWorkerStep(w) \/ LReturn(w)
    \/ \E t \in Threads : LCall(t) \/ LCallStep(t)

LSpec == LInit /\ [][LNext]_allVars

-----------------------------------------------------------------------------
(* Properties *)

ChannelPCs == {"create", "send", "receive", "areceive", "drain_send",
               "drain_recv", "drop_send", "drop_recv"}

\* The type of every variable; a process that is blocked knows its channel,
\* and a thread holds a channel while it is inside a channel function.
LTypeOK ==
    /\ pc \in [Threads -> PCs \cup ChannelPCs]
    /\ status \in [Procs -> Statuses]
    /\ chans \in [Names -> Chans \cup {NoChan}]
    /\ \A s \in Sides, c \in Chans : wait[s][c] \in Seq(Procs)
    /\ chan \in [Procs -> Chans \cup {NoChan}]
    /\ naming \in [Threads -> Names \cup {Nil}]
    /\ result \in [Procs -> {"none", "ok", "error"}]
    /\ \A p \in Procs : Blocked(p) => chan[p] \in Chans
    /\ \A t \in Threads :
          using[t] \in Chans <=> pc[t] \in ChannelPCs \ {"create"}

\* A sender and a receiver never wait on the same channel: delchannel empties
\* one of the two lists and relies on it, and a pair that missed each other
\* would wait for ever.
NoMissedRendezvous ==
    \A c \in Chans : wait["send"][c] = <<>> \/ wait["recv"][c] = <<>>

\* The process waits in the list its status names, of the channel it noted,
\* and a later send, receive or delchannel can still reach that list.
Reachable(p) ==
    \E s \in Sides, c \in Chans :
        /\ c = chan[p] /\ status[p] = Wish(s)
        /\ p \in Elements(wait[s][c])
        /\ \/ \E n \in Names : chans[n] = c
           \/ \E t \in Threads : using[t] = c /\ pc[t] \in {Draining[s],
                                                             Dropping[s]}

\* No process is stranded: whoever is parked can still be reached.
NoneStranded == \A p \in parked : Reachable(p)

\* p is still in a list of a channel that has left the table.
OnDeadChannel(p) ==
    \E c \in Chans, s \in Sides :
        p \in Elements(wait[s][c]) /\ \A n \in Names : chans[n] # c

\* The processes on their way to the list of side s of channel c.
Arriving(s, c) ==
    SetToSeq({cur[w] : w \in {v \in Workers :
        /\ pc[v] = "yielded"
        /\ status[cur[v]] = Wish(s)
        /\ chan[cur[v]] = c}})

\* The channels implement the rendezvous they promise.
Meeting == INSTANCE Rendezvous WITH
    open <- {n \in Names : chans[n] # NoChan},
    waiting <- [s \in Sides |-> [n \in Names |->
                  IF chans[n] = NoChan THEN <<>>
                  ELSE wait[s][chans[n]] \o Arriving(s, chans[n])]],
    outcome <- [p \in Procs |-> IF OnDeadChannel(p) THEN "error" ELSE result[p]]
ImplementsRendezvous == Meeting!RendezvousSpec

\* With the channels hidden, what is left are steps of the scheduler: inside a
\* channel function a thread executes Lua code, or wakes a process.
Sched == INSTANCE LpSched WITH
    pc <- [t \in Threads |-> CASE pc[t] \in {"drop_send", "drop_recv"} -> "wake"
                               [] pc[t] \in ChannelPCs \ {"drop_send",
                                                        "drop_recv"} -> "lua"
                               [] OTHER -> pc[t]]
ImplementsSched == Sched!Spec
=============================================================================
