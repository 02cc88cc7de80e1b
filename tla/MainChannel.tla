----------------------------- MODULE MainChannel -----------------------------
(***************************************************************************)
(* The main Lua state as a partner on channels.  luaproc wraps it in the   *)
(* process structure mainlp, which is queued on channels like any other;   *)
(* the main thread itself waits on the semaphore cond_mainls_sendrecv,     *)
(* with mutex_mainls locked, and its partner has to lock mutex_mainls      *)
(* before it posts that semaphore.                                         *)
(*                                                                         *)
(* luaproc_loadlib, run for every new lua process, replaces the handles of *)
(* the mutex and of the semaphore.  What the main thread holds or waits    *)
(* for is "current" or, after that, "stale".                               *)
(*                                                                         *)
(* Bound: mainlp is queued once at a time.  (The code would relink a node  *)
(* that is in a list already.)                                             *)
(***************************************************************************)
EXTENDS LuaProc

CONSTANT MainLp         \* &mainlp, the structure of the main state: one of Procs

VARIABLES
    mainheld,           \* the mutex_mainls the main thread has locked
    mainwait,           \* the cond_mainls_sendrecv the main thread waits for
    mainsem             \* count of the current cond_mainls_sendrecv

mainVars == <<mainheld, mainwait, mainsem>>
mainAllVars == <<allVars, mainVars>>

\* luaopen_luaproc has wrapped the main state.
MInit ==
    /\ InitWith([p \in Procs |-> IF p = MainLp THEN "IDLE" ELSE "FREE"])
    /\ ChanInit
    /\ mainheld = "no"
    /\ mainwait = "no"
    /\ mainsem = 0
-----------------------------------------------------------------------------
Enqueueing == [send |-> "m_send", receive |-> "m_receive"]

\* send or receive, called by the main state, finds no partner ...
MainAlone(f) ==
    /\ Goto(Main, f, Enqueueing[f])
    /\ wait[PartnerOf(f)][using[Main]] = <<>>
    /\ UNCHANGED <<schedVars, procVars, recycleVars, joinVars, cur, obj, handle,
                   chanVars, mainVars>>

\* ... and queues mainlp.
MainQueue(f) ==
    /\ Goto(Main, Enqueueing[f], IF f = "send" THEN "m_lock" ELSE "m_post")
    /\ MainLp \notin parked
    /\ Enlist(SideOf(f), using[Main], MainLp)
    /\ chan' = [chan EXCEPT ![MainLp] = using[Main]]
    /\ parked' = parked \cup {MainLp}
    /\ result' = [result EXCEPT ![MainLp] = "none"]
    /\ using' = [using EXCEPT ![Main] = NoChan]
    /\ UNCHANGED <<schedVars, status, lpcount, recycleVars, joinVars, cur, obj,
                   handle, chans, naming, mainVars>>

\* A send of the main state locks mutex_mainls.  Before the first newproc the
\* mutex and the semaphore are NULL: both calls are refused, and send returns.
MainLock ==
    /\ Goto(Main, "m_lock", IF rlock = 0 THEN "lua" ELSE "m_sem")
    /\ mainheld' = IF rlock = 0 THEN "no" ELSE "current"
    /\ UNCHANGED <<schedVars, procVars, recycleVars, joinVars, cur, obj, handle,
                   chanVars, mainwait, mainsem>>

\* It waits for cond_mainls_sendrecv and keeps the mutex meanwhile.
MainWait ==
    /\ Goto(Main, "m_sem", "m_waiting")
    /\ mainwait' = "current"
    /\ UNCHANGED <<schedVars, procVars, recycleVars, joinVars, cur, obj, handle,
                   chanVars, mainheld, mainsem>>

MainWoken ==
    /\ Goto(Main, "m_waiting", "lua")
    /\ mainwait = "current"
    /\ mainsem = 1
    /\ mainsem' = 0
    /\ mainheld' = "no"
    /\ mainwait' = "no"
    /\ UNCHANGED <<schedVars, procVars, recycleVars, joinVars, cur, obj, handle,
                   chanVars>>

\* A synchronous receive of the main state posts the semaphore, where a send
\* waits for it, and returns with mainlp still queued.
MainPost ==
    /\ Goto(Main, "m_post", "lua")
    /\ mainsem' = IF rlock = 0 THEN mainsem ELSE 1
    /\ UNCHANGED <<schedVars, procVars, recycleVars, joinVars, cur, obj, handle,
                   chanVars, mainheld, mainwait>>

MainStep ==
    \/ \E f \in {"send", "receive"} : MainAlone(f) \/ MainQueue(f)
    \/ MainLock
    \/ MainWait
    \/ MainWoken
    \/ MainPost
-----------------------------------------------------------------------------
\* The partner of the main state posts its semaphore, under mutex_mainls.
WakeMain(t) ==
    /\ Goto(t, "wake", "lua")
    /\ obj[t] = MainLp
    /\ mainheld # "current"
    /\ mainsem' = 1
    /\ obj' = [obj EXCEPT ![t] = Nil]
    /\ UNCHANGED <<schedVars, procVars, recycleVars, joinVars, cur, handle,
                   chanVars, mainheld, mainwait>>

\* luaproc_loadlib replaces mutex_mainls and cond_mainls_sendrecv.
Stale(x) == IF x = "current" THEN "stale" ELSE x
ReplaceMainls ==
    /\ mainheld' = Stale(mainheld)
    /\ mainwait' = Stale(mainwait)
    /\ mainsem' = 0

\* delchannel schedules mainlp as if it were a lua process; a worker that
\* resumes the main state gets an error and closes it.
ResumeMain(w) ==
    /\ cur[w] = MainLp
    /\ Fail(w)
    /\ UNCHANGED <<chanVars, mainVars>>

MCallStep(t) ==
    \/ WakeMain(t)
    \/ /\ ~(pc[t] = "wake" /\ obj[t] = MainLp)
       /\ LCallStep(t)
       /\ IF rlock' = rlock THEN UNCHANGED mainVars ELSE ReplaceMainls

MNext ==
    /\ status[MainLp] # "FREE"
    /\ \/ \E w \in Workers :
             \/ LWorkerStep(w) /\ UNCHANGED mainVars
             \/ LReturn(w) /\ cur[w] # MainLp /\ UNCHANGED mainVars
             \/ ResumeMain(w)
       \/ \E t \in Threads :
             \/ LCall(t) /\ cur[t] # MainLp /\ UNCHANGED mainVars
             \/ MCallStep(t)
       \/ MainStep

MSpec ==
    /\ MInit /\ [][MNext]_mainAllVars
    /\ \A w \in Workers :
          /\ WF_mainAllVars(LWorkerStep(w) /\ UNCHANGED mainVars)
          /\ SF_mainAllVars(LReturn(w) /\ UNCHANGED mainVars)
    /\ \A t \in Threads : WF_mainAllVars(MCallStep(t))
    /\ WF_mainAllVars(MainStep)
-----------------------------------------------------------------------------
\* What luaproc_receive says where it has taken a message of the main state,
\* "if sending process is the parent (main) Lua state, unblock it": a send of
\* the main state returns after a process has received its message.  The code
\* does not do this: the receiver and the main thread block each other.
MainIsUnblocked ==
    pc[Main] = "m_waiting" /\ result[MainLp] # "none" ~> pc[Main] = "lua"
=============================================================================
