------------------------------- MODULE LpSched -------------------------------
(***************************************************************************)
(* The luaproc scheduler: components/modules/lua-proc/lpsched.c and the    *)
(* part of luaproc.c that creates, recycles and schedules lua processes.   *)
(*                                                                         *)
(* Worker threads take lua processes from one ready list and resume them.  *)
(* A resumed process, and the main Lua state, call the luaproc library.    *)
(* Channels are left to LuaProc; here a process that blocks in send or     *)
(* receive is parked, and any thread that executes Lua code may unpark it. *)
(*                                                                         *)
(* Every access to the ready list, destroyworkers, workerscount and the    *)
(* workers table happens inside one mutex_sched section, and that mutex is *)
(* created once, so each section is one action.  mutex_lp_count likewise.  *)
(* mutex_recycle_list is different: every new lua process replaces its     *)
(* handle, so its handles and their owners are part of the state.  The     *)
(* semaphore cond_no_active_lp is posted and never waited for: it is left  *)
(* out.  A process that ends in an error is taken to raise a string, the   *)
(* only kind of message worker_fun can print.                              *)
(***************************************************************************)
EXTENDS Integers, Sequences, FiniteSets

CONSTANTS
    Workers,            \* threads that can ever be created, as thread infos
    InitialWorkers,     \* those sched_init has started
    Main,               \* the thread of the main Lua state
    Procs,              \* lua process structures
    Nil,                \* no thread, no process
    MainCalls,          \* luaproc functions the main state calls
    ProcCalls,          \* luaproc functions lua processes call
    Targets,            \* arguments of setnumworkers
    RecycleLimits,      \* arguments of recycle
    MaxDestroy          \* bound on destroyworkers

Threads == Workers \cup {Main}

\* Values of mutex_recycle_list.  0 is NULL, the value before the first lua
\* process is created.  A handle nobody refers to is reused for a new one.
Handles == 0 .. Cardinality(Threads) + 1

Statuses == {"FREE", "IDLE", "READY", "BLOCKED_SEND", "BLOCKED_RECV",
             "FINISHED"}

ASSUME SchedAssumption ==
    /\ IsFiniteSet(Workers)
    /\ InitialWorkers \subseteq Workers
    /\ Main \notin Workers
    /\ Nil \notin Threads
    /\ Nil \notin Procs
    /\ Targets \subseteq Nat \ {0}
    /\ RecycleLimits \subseteq Nat
    /\ MaxDestroy \in Nat

VARIABLES
    \* guarded by mutex_sched
    ready,              \* ready_lp_list
    workerscount,
    destroyworkers,
    wakeup,             \* count of the binary semaphore cond_wakeup_worker
    table,              \* keys of the workers table
    \* lua processes
    status,             \* lp->status; FREE: the structure does not exist
    parked,             \* processes waiting on some channel
    lpcount,            \* guarded by mutex_lp_count
    \* recycling
    recycle,            \* recycle_list
    recyclemax,
    rlock,              \* the handle in mutex_recycle_list
    owner,              \* who has locked each handle
    \* threads
    pc,                 \* where each thread stands
    cur,                \* the process a worker has resumed
    obj,                \* the process a thread is creating or unparking
    handle,             \* the recycle handle a thread is locking
    \* exit of the main state
    tojoin,             \* thread infos whose exit_sem is still to be awaited
    exitsem             \* thread infos whose exit_sem was posted

schedVars   == <<ready, workerscount, destroyworkers, wakeup, table>>
procVars    == <<status, parked, lpcount>>
recycleVars == <<recycle, recyclemax, rlock, owner>>
threadVars  == <<pc, cur, obj, handle>>
joinVars    == <<tojoin, exitsem>>
vars == <<schedVars, procVars, recycleVars, threadVars, joinVars>>

Alive == {w \in Workers : pc[w] \notin {"unborn", "exit", "delete", "gone"}}

\* luaopen_luaproc has returned, for process structures with the given status.
InitWith(statuses) ==
    /\ ready = <<>>
    /\ workerscount = Cardinality(InitialWorkers)
    /\ destroyworkers = 0
    /\ wakeup = 0
    /\ table = InitialWorkers
    /\ status = statuses
    /\ parked = {}
    /\ lpcount = 0
    /\ recycle = <<>>
    /\ recyclemax = 0
    /\ rlock = 0
    /\ owner = [h \in Handles |-> Nil]
    /\ pc = [t \in Threads |-> CASE t = Main -> "lua"
                                 [] t \in InitialWorkers -> "loop"
                                 [] OTHER -> "unborn"]
    /\ cur = [t \in Threads |-> Nil]
    /\ obj = [t \in Threads |-> Nil]
    /\ handle = [t \in Threads |-> 0]
    /\ tojoin = {}
    /\ exitsem = {}

Init == InitWith([p \in Procs |-> "FREE"])
-----------------------------------------------------------------------------
(* Helpers *)

Goto(t, from, to) ==
    /\ pc[t] = from
    /\ pc' = [pc EXCEPT ![t] = to]

\* Thread t executes Lua code, which calls the library function f.
MayCall(t, f) ==
    /\ pc[t] = "lua"
    /\ f \in IF t = Main THEN MainCalls ELSE ProcCalls

\* Variant with a fault: the semaphore counts every post.
PostWakeupCounting == wakeup' = wakeup + 1

\* tal_semaphore_post(cond_wakeup_worker), a semaphore with a maximum of 1.
PostWakeup == wakeup' = 1

\* Variant with a fault: the worker is not woken up.
QueueProcSilent(p) ==
    /\ ready' = Append(ready, p)
    /\ status' = [status EXCEPT ![p] = "READY"]
    /\ UNCHANGED <<wakeup, workerscount, destroyworkers, table>>

\* Variant with a fault: the process jumps the queue.
QueueProcFirst(p) ==
    /\ ready' = <<p>> \o ready
    /\ status' = [status EXCEPT ![p] = "READY"]
    /\ PostWakeup
    /\ UNCHANGED <<workerscount, destroyworkers, table>>

\* sched_queue_proc
QueueProc(p) ==
    /\ ready' = Append(ready, p)
    /\ status' = [status EXCEPT ![p] = "READY"]
    /\ PostWakeup
    /\ UNCHANGED <<workerscount, destroyworkers, table>>

\* tal_mutex_lock(mutex_recycle_list) returns: a NULL handle is refused at
\* once, another one must be free.
Acquirable(h) == h = 0 \/ owner[h] = Nil

\* Variant with a fault: a state that was closed is kept for reuse.
RecycleInsertClosed(p) ==
    /\ recycle' = Append(recycle, p)
    /\ status' = IF Len(recycle) >= recyclemax
                   THEN [status EXCEPT ![p] = "FREE"] ELSE status

\* luaproc_recycle_insert, from the lock on.
RecycleInsert(p) ==
    IF Len(recycle) >= recyclemax
      THEN /\ status' = [status EXCEPT ![p] = "FREE"]
           /\ UNCHANGED recycle
      ELSE /\ recycle' = Append(recycle, p)
           /\ UNCHANGED status
-----------------------------------------------------------------------------
(* Worker threads: workermain *)

\* There is neither work nor an order to die: release the mutex and wait.
GoIdle(w) ==
    /\ Goto(w, "loop", "wait")
    /\ ready = <<>>
    /\ destroyworkers <= 0
    /\ UNCHANGED <<schedVars, procVars, recycleVars, joinVars, cur, obj, handle>>

WakeUp(w) ==
    /\ Goto(w, "wait", "loop")
    /\ wakeup = 1
    /\ wakeup' = 0
    /\ UNCHANGED <<ready, workerscount, destroyworkers, table, procVars,
                   recycleVars, joinVars, cur, obj, handle>>

\* The entry to remove from the workers table is looked up by the thread
\* handle; it was stored under the thread info, so nothing is removed.
Destroy(w) ==
    /\ Goto(w, "loop", "exit")
    /\ destroyworkers > 0
    /\ destroyworkers' = destroyworkers - 1
    /\ workerscount' = workerscount - 1
    /\ PostWakeup
    /\ UNCHANGED <<ready, table, procVars, recycleVars, joinVars, cur, obj,
                   handle>>

PostExit(w) ==
    /\ Goto(w, "exit", "delete")
    /\ exitsem' = exitsem \cup {w}
    /\ UNCHANGED <<schedVars, procVars, recycleVars, tojoin, cur, obj, handle>>

DeleteThread(w) ==
    /\ Goto(w, "delete", "gone")
    /\ UNCHANGED <<schedVars, procVars, recycleVars, joinVars, cur, obj, handle>>

\* Take the first ready process and resume it.
Take(w) ==
    /\ Goto(w, "loop", "lua")
    /\ destroyworkers <= 0
    /\ ready # <<>>
    /\ cur' = [cur EXCEPT ![w] = Head(ready)]
    /\ ready' = Tail(ready)
    /\ UNCHANGED <<workerscount, destroyworkers, wakeup, table, procVars,
                   recycleVars, joinVars, obj, handle>>

\* The process returns: it goes to the recycle list, or its state is closed.
Finish(w) ==
    /\ Goto(w, "lua", "recycle")
    /\ status' = [status EXCEPT ![cur[w]] = "FINISHED"]
    /\ handle' = [handle EXCEPT ![w] = rlock]
    /\ UNCHANGED <<schedVars, parked, lpcount, recycleVars, joinVars, cur, obj>>

Retire(w) ==
    /\ Goto(w, "recycle", "dec")
    /\ Acquirable(handle[w])
    /\ RecycleInsert(cur[w])
    /\ cur' = [cur EXCEPT ![w] = Nil]
    /\ handle' = [handle EXCEPT ![w] = 0]
    /\ UNCHANGED <<schedVars, parked, lpcount, recyclemax, rlock, owner,
                   joinVars, obj>>

\* Variant with a fault: a process that failed stays counted.
FailUncounted(w) ==
    /\ Goto(w, "lua", "loop")
    /\ status' = [status EXCEPT ![cur[w]] = "FREE"]
    /\ cur' = [cur EXCEPT ![w] = Nil]
    /\ UNCHANGED <<schedVars, parked, lpcount, recycleVars, joinVars, obj,
                   handle>>

\* The process fails: its state is closed.
Fail(w) ==
    /\ Goto(w, "lua", "dec")
    /\ status' = [status EXCEPT ![cur[w]] = "FREE"]
    /\ cur' = [cur EXCEPT ![w] = Nil]
    /\ UNCHANGED <<schedVars, parked, lpcount, recycleVars, joinVars, obj,
                   handle>>

\* sched_dec_lpcount
DecLpcount(w) ==
    /\ Goto(w, "dec", "loop")
    /\ lpcount' = lpcount - 1
    /\ UNCHANGED <<schedVars, status, parked, recycleVars, joinVars, cur, obj,
                   handle>>

\* The process yields: on its own, or from a send or receive that found no
\* partner and left its wish in the status.
Yield(w) ==
    /\ Goto(w, "lua", "yielded")
    /\ UNCHANGED <<schedVars, procVars, recycleVars, joinVars, cur, obj, handle>>

Block(w, wish) ==
    /\ Goto(w, "lua", "yielded")
    /\ status' = [status EXCEPT ![cur[w]] = wish]
    /\ UNCHANGED <<schedVars, parked, lpcount, recycleVars, joinVars, cur, obj,
                   handle>>

Blocked(p) == status[p] \in {"BLOCKED_SEND", "BLOCKED_RECV"}

Park(w) ==
    /\ Goto(w, "yielded", "loop")
    /\ Blocked(cur[w])
    /\ parked' = parked \cup {cur[w]}
    /\ cur' = [cur EXCEPT ![w] = Nil]
    /\ UNCHANGED <<schedVars, status, lpcount, recycleVars, joinVars, obj,
                   handle>>

\* Back to the end of the ready list; no worker is woken for it.
Requeue(w) ==
    /\ Goto(w, "yielded", "loop")
    /\ ~Blocked(cur[w])
    /\ ready' = Append(ready, cur[w])
    /\ cur' = [cur EXCEPT ![w] = Nil]
    /\ UNCHANGED <<workerscount, destroyworkers, wakeup, table, procVars,
                   recycleVars, joinVars, obj, handle>>
-----------------------------------------------------------------------------
(* The library, called from Lua code by the main state or by a process *)

\* Bound: a newproc starts only while a structure is left for it.
StructureLeft ==
    Cardinality({u \in Threads : pc[u] \in {"np_lock", "np_make"}})
        < Cardinality({p \in Procs : status[p] = "FREE"})

\* luaproc_create_newproc takes mutex_recycle_list, whichever it is now ...
CallNewproc(t) ==
    /\ Goto(t, "lua", "np_lock")
    /\ MayCall(t, "newproc")
    /\ StructureLeft
    /\ handle' = [handle EXCEPT ![t] = rlock]
    /\ UNCHANGED <<schedVars, procVars, recycleVars, joinVars, cur, obj>>

NewprocLock(t) ==
    /\ Goto(t, "np_lock", "np_make")
    /\ Acquirable(handle[t])
    /\ owner' = IF handle[t] = 0 THEN owner
                                 ELSE [owner EXCEPT ![handle[t]] = t]
    /\ UNCHANGED <<schedVars, procVars, recycle, recyclemax, rlock, joinVars,
                   cur, obj, handle>>

\* ... reuses a recycled process and releases the mutex it took ...
NewprocReuse(t) ==
    /\ Goto(t, "np_make", "np_load")
    /\ recyclemax > 0
    /\ recycle # <<>>
    /\ obj' = [obj EXCEPT ![t] = Head(recycle)]
    /\ recycle' = Tail(recycle)
    /\ status' = [status EXCEPT ![Head(recycle)] = "IDLE"]
    /\ owner' = [owner EXCEPT ![rlock] = IF @ = t THEN Nil ELSE @]
    /\ handle' = [handle EXCEPT ![t] = 0]
    /\ UNCHANGED <<schedVars, parked, lpcount, recyclemax, rlock, joinVars, cur>>

FreshHandle(h) ==
    /\ h # 0
    /\ h # rlock
    /\ \A t \in Threads : handle[t] # h

\* ... or creates a process.  luaproc_loadlib, run for the new state, puts a
\* new mutex in mutex_recycle_list: what is released then is the new one,
\* and the one that was taken stays locked.
NewprocCreate(t, p, h) ==
    /\ Goto(t, "np_make", "np_load")
    /\ recyclemax = 0 \/ recycle = <<>>
    /\ status[p] = "FREE"
    /\ FreshHandle(h)
    /\ \A g \in Handles : FreshHandle(g) => h <= g
    /\ obj' = [obj EXCEPT ![t] = p]
    /\ status' = [status EXCEPT ![p] = "IDLE"]
    /\ rlock' = h
    /\ owner' = [owner EXCEPT ![h] = Nil]
    /\ handle' = [handle EXCEPT ![t] = 0]
    /\ UNCHANGED <<schedVars, parked, lpcount, recycle, recyclemax, joinVars,
                   cur>>

NewprocLoaded(t) ==
    /\ Goto(t, "np_load", "np_inc")
    /\ UNCHANGED <<schedVars, procVars, recycleVars, joinVars, cur, obj, handle>>

\* The code does not compile: the state is closed and the caller gets an error.
NewprocBadCode(t) ==
    /\ Goto(t, "np_load", "lua")
    /\ status' = [status EXCEPT ![obj[t]] = "FREE"]
    /\ obj' = [obj EXCEPT ![t] = Nil]
    /\ UNCHANGED <<schedVars, parked, lpcount, recycleVars, joinVars, cur,
                   handle>>

\* An upvalue cannot be copied: the process goes to the recycle list.
NewprocBadUpvalue(t) ==
    /\ Goto(t, "np_load", "np_undo")
    /\ handle' = [handle EXCEPT ![t] = rlock]
    /\ UNCHANGED <<schedVars, procVars, recycleVars, joinVars, cur, obj>>

NewprocUndo(t) ==
    /\ Goto(t, "np_undo", "lua")
    /\ Acquirable(handle[t])
    /\ RecycleInsert(obj[t])
    /\ obj' = [obj EXCEPT ![t] = Nil]
    /\ handle' = [handle EXCEPT ![t] = 0]
    /\ UNCHANGED <<schedVars, parked, lpcount, recyclemax, rlock, owner,
                   joinVars, cur>>

\* sched_inc_lpcount, then sched_queue_proc
NewprocInc(t) ==
    /\ Goto(t, "np_inc", "np_queue")
    /\ lpcount' = lpcount + 1
    /\ UNCHANGED <<schedVars, status, parked, recycleVars, joinVars, cur, obj,
                   handle>>

NewprocQueue(t) ==
    /\ Goto(t, "np_queue", "lua")
    /\ QueueProc(obj[t])
    /\ obj' = [obj EXCEPT ![t] = Nil]
    /\ UNCHANGED <<parked, lpcount, recycleVars, joinVars, cur, handle>>

\* A thread that executes Lua takes a waiting process off a channel ...
Unpark(t, p) ==
    /\ Goto(t, "lua", "wake")
    /\ p \in parked
    /\ parked' = parked \ {p}
    /\ obj' = [obj EXCEPT ![t] = p]
    /\ UNCHANGED <<schedVars, status, lpcount, recycleVars, joinVars, cur,
                   handle>>

\* ... and schedules it.
Wake(t) ==
    /\ Goto(t, "wake", "lua")
    /\ QueueProc(obj[t])
    /\ obj' = [obj EXCEPT ![t] = Nil]
    /\ UNCHANGED <<parked, lpcount, recycleVars, joinVars, cur, handle>>

\* Variant with a fault: threads that could not be created are counted.
GrownCountAll(n, started) == n

\* workerscount after a request for n workers created the threads in started.
GrownCount(n, started) == workerscount + Cardinality(started)

\* sched_set_numworkers, to a larger number.  Fewer than the missing threads
\* are created when a creation fails.
Grow(t, n, started) ==
    /\ MayCall(t, "setnumworkers")
    /\ n > workerscount
    /\ Cardinality(started) <= n - workerscount
    /\ \A w \in started : pc[w] = "unborn"
    /\ pc' = [u \in Threads |-> IF u \in started THEN "loop" ELSE pc[u]]
    /\ table' = table \cup started
    /\ workerscount' = GrownCount(n, started)
    /\ UNCHANGED <<ready, destroyworkers, wakeup, procVars, recycleVars,
                   joinVars, cur, obj, handle>>

\* ... to a smaller number: the code adds the target, not the difference.
Shrink(t, n) ==
    /\ MayCall(t, "setnumworkers")
    /\ n < workerscount
    /\ destroyworkers + n <= MaxDestroy
    /\ destroyworkers' = destroyworkers + n
    /\ PostWakeup
    /\ UNCHANGED <<ready, workerscount, table, procVars, recycleVars,
                   threadVars, joinVars>>

\* luaproc_recycle_set
CallRecycle(t) ==
    /\ Goto(t, "lua", "rc_lock")
    /\ MayCall(t, "recycle")
    /\ handle' = [handle EXCEPT ![t] = rlock]
    /\ UNCHANGED <<schedVars, procVars, recycleVars, joinVars, cur, obj>>

RecycleSet(t, max) ==
    LET extra == IF Len(recycle) > max THEN Len(recycle) - max ELSE 0
        closed == {recycle[i] : i \in 1 .. extra}
    IN  /\ Acquirable(handle[t])
        /\ Goto(t, "rc_lock", "lua")
        /\ recyclemax' = max
        /\ recycle' = SubSeq(recycle, extra + 1, Len(recycle))
        /\ status' = [p \in Procs |-> IF p \in closed THEN "FREE"
                                                      ELSE status[p]]
        /\ handle' = [handle EXCEPT ![t] = 0]
        /\ UNCHANGED <<schedVars, parked, lpcount, rlock, owner, joinVars, cur,
                       obj>>

\* luaproc.wait: sched_wait posts a semaphore and returns.
CallWait(t) ==
    /\ Goto(t, "lua", "swait")
    /\ MayCall(t, "wait")
    /\ UNCHANGED <<schedVars, procVars, recycleVars, joinVars, cur, obj, handle>>

SchedWait(t) ==
    /\ Goto(t, "swait", "lua")
    /\ UNCHANGED <<schedVars, procVars, recycleVars, joinVars, cur, obj, handle>>
-----------------------------------------------------------------------------
(* Exit of the main state: sched_join_workers, run by a __gc metamethod *)

\* It calls sched_wait first, which does not wait.
CallJoin ==
    /\ Goto(Main, "lua", "join_mark")
    /\ MayCall(Main, "exit")
    /\ UNCHANGED <<schedVars, procVars, recycleVars, joinVars, cur, obj, handle>>

\* Variant with a fault: the workers are told to die and not woken up.
JoinMarkSilent ==
    /\ Goto(Main, "join_mark", "joining")
    /\ tojoin' = table
    /\ destroyworkers' = workerscount
    /\ UNCHANGED <<wakeup, ready, workerscount, table, procVars, recycleVars,
                   exitsem, cur, obj, handle>>

JoinMark ==
    /\ Goto(Main, "join_mark", "joining")
    /\ tojoin' = table
    /\ destroyworkers' = workerscount
    /\ PostWakeup
    /\ UNCHANGED <<ready, workerscount, table, procVars, recycleVars, exitsem,
                   cur, obj, handle>>

\* Variant with a fault: the exit of the worker is not awaited.
JoinOneEarly(w) ==
    /\ pc[Main] = "joining"
    /\ w \in tojoin
    /\ tojoin' = tojoin \ {w}
    /\ UNCHANGED <<schedVars, procVars, recycleVars, threadVars, exitsem>>

JoinOne(w) ==
    /\ pc[Main] = "joining"
    /\ w \in tojoin \cap exitsem
    /\ tojoin' = tojoin \ {w}
    /\ UNCHANGED <<schedVars, procVars, recycleVars, threadVars, exitsem>>

JoinEnd ==
    /\ tojoin = {}
    /\ Goto(Main, "joining", "ended")
    /\ UNCHANGED <<schedVars, procVars, recycleVars, joinVars, cur, obj, handle>>
-----------------------------------------------------------------------------
\* What a resumed process may do to end its turn.
Return(w) ==
    /\ w \in Workers
    /\ \/ Finish(w)
       \/ Fail(w)
       \/ Yield(w)
       \/ \E wish \in {"BLOCKED_SEND", "BLOCKED_RECV"} : Block(w, wish)

WorkerStep(w) ==
    \/ GoIdle(w)
    \/ WakeUp(w)
    \/ Destroy(w)
    \/ PostExit(w)
    \/ DeleteThread(w)
    \/ Take(w)
    \/ Retire(w)
    \/ DecLpcount(w)
    \/ Park(w)
    \/ Requeue(w)

NewprocStep(t) ==
    \/ NewprocLock(t)
    \/ NewprocReuse(t)
    \/ \E p \in Procs, h \in Handles : NewprocCreate(t, p, h)
    \/ NewprocLoaded(t)
    \/ NewprocBadCode(t)
    \/ NewprocBadUpvalue(t)
    \/ NewprocUndo(t)
    \/ NewprocInc(t)
    \/ NewprocQueue(t)

\* A thread goes on with a library function it has called.
CallStep(t) ==
    \/ NewprocStep(t)
    \/ Wake(t)
    \/ \E max \in RecycleLimits : RecycleSet(t, max)
    \/ SchedWait(t)

\* A thread that executes Lua calls a library function.
Call(t) ==
    \/ CallNewproc(t)
    \/ \E p \in Procs : Unpark(t, p)
    \/ \E n \in Targets, started \in SUBSET Workers : Grow(t, n, started)
    \/ \E n \in Targets : Shrink(t, n)
    \/ CallRecycle(t)
    \/ CallWait(t)

JoinStep ==
    \/ JoinMark
    \/ \E w \in Workers : JoinOne(w)
    \/ JoinEnd

Next ==
    \/ \E w \in Workers : WorkerStep(w) \/ Return(w)
    \/ \E t \in Threads : Call(t) \/ CallStep(t)
    \/ CallJoin
    \/ JoinStep

Spec == Init /\ [][Next]_vars

\* Threads the operating system keeps scheduling, and scripts that return
\* control: a resumed process does not compute for ever.
Fairness ==
    /\ \A w \in Workers : WF_vars(WorkerStep(w)) /\ SF_vars(Return(w))
    /\ \A t \in Threads : WF_vars(CallStep(t))
    /\ WF_vars(JoinStep)

FairSpec == Spec /\ Fairness
-----------------------------------------------------------------------------
(* Properties *)

PCs == {"unborn", "loop", "wait", "lua", "yielded", "recycle", "dec", "exit",
        "delete", "gone", "np_lock", "np_make", "np_load", "np_undo",
        "np_inc", "np_queue", "wake", "rc_lock", "swait",
        "join_mark", "joining", "ended"}

\* The type of every variable.
TypeOK ==
    /\ ready \in Seq(Procs)
    /\ workerscount \in Int
    /\ destroyworkers \in Int
    /\ wakeup \in {0, 1}
    /\ table \subseteq Workers
    /\ status \in [Procs -> Statuses]
    /\ parked \subseteq Procs
    /\ lpcount \in Int
    /\ recycle \in Seq(Procs)
    /\ recyclemax \in Nat
    /\ rlock \in Handles
    /\ owner \in [Handles -> Threads \cup {Nil}]
    /\ pc \in [Threads -> PCs]
    /\ cur \in [Threads -> Procs \cup {Nil}]
    /\ obj \in [Threads -> Procs \cup {Nil}]
    /\ handle \in [Threads -> Handles]
    /\ tojoin \subseteq Workers
    /\ exitsem \subseteq Workers

Elements(s) == {s[i] : i \in 1 .. Len(s)}
Running  == {cur[w] : w \in Workers} \ {Nil}
Held     == {obj[t] : t \in Threads} \ {Nil}
Waking   == {obj[t] : t \in {u \in Threads : pc[u] \in {"np_queue", "wake"}}}
Free     == {p \in Procs : status[p] = "FREE"}
Active   == Elements(ready) \cup Running \cup parked \cup Waking

NoRepeats(s) == \A i, j \in 1 .. Len(s) : s[i] = s[j] => i = j
Distinct(f, S) == \A t, u \in S : f[t] = f[u] => t = u \/ f[t] = Nil

\* Every lua process structure is in exactly one place: once in the ready
\* list, resumed by one worker, waiting on a channel, in the hands of one
\* thread, in the recycle list, or released.  No lua_State is ever resumed by
\* two workers, nor resumed after it was closed.
OnePlace ==
    /\ NoRepeats(ready) /\ NoRepeats(recycle)
    /\ Distinct(cur, Workers) /\ Distinct(obj, Threads)
    /\ LET places == <<Elements(ready), Running, parked, Held,
                       Elements(recycle), Free>>
       IN  /\ \A i, j \in 1 .. 6 : i < j => places[i] \cap places[j] = {}
           /\ UNION Elements(places) = Procs

\* lpcount is the number of processes created and not ended, plus those whose
\* worker is about to decrement it: it never reaches 0 while a process that
\* newproc has counted is still to run, and never goes negative.
LpcountExact ==
    lpcount = Cardinality(Active)
                + Cardinality({w \in Workers : pc[w] = "dec"})

\* workerscount is the number of workers that were created and have not
\* obeyed an order to die.
WorkersExact == workerscount = Cardinality(Alive)

\* A wakeup is never lost: while there is a ready process, or a worker to
\* destroy, the semaphore is up or some live worker is not waiting for it.
NoLostWakeup ==
    (ready # <<>> \/ destroyworkers > 0) /\ Alive # {}
        => wakeup = 1 \/ \E w \in Alive : pc[w] # "wait"

\* Once the main state has joined its workers, no thread is left that could
\* use the scheduler's state: only thread deletions are still to come.
JoinSafe ==
    pc[Main] = "ended" =>
        \A w \in Workers : pc[w] \in {"unborn", "delete", "gone"}

\* A handle of mutex_recycle_list whose owner has moved on without releasing
\* it, and a thread waiting for such a handle.
Orphan(h) == owner[h] # Nil /\ handle[owner[h]] # h
Hung(t) == handle[t] # 0 /\ Orphan(handle[t])

\* Every ready process is executed, as long as a worker is left that does not
\* hang on a recycle mutex.
ReadyIsServed ==
    \A p \in Procs :
        p \in Elements(ready) ~> \/ p \notin Elements(ready)
                                 \/ \A w \in Alive : Hung(w)

\* sched_join_workers returns, unless a worker hangs on a recycle mutex.
JoinReturns ==
    pc[Main] = "joining" ~> \/ pc[Main] = "ended"
                            \/ \E w \in Alive : Hung(w)

\* What luaproc_create_newproc says of its lock, "release exclusive access to
\* recycled lua processes list": a worker that hands in a finished process is
\* never shut out of that list for good.  The code does not do this.
FinishedIsRetired ==
    \A w \in Workers : pc[w] = "recycle" ~> pc[w] = "dec"

\* The scheduler implements the pool of processes it promises.
Pool == INSTANCE ProcPool WITH
    queue <- ready, running <- Running, waking <- Waking, active <- Active
ImplementsPool == Pool!PoolSpec
=============================================================================
