------------------------------ MODULE ProcPool ------------------------------
(***************************************************************************)
(* What the luaproc scheduler promises to a Lua program, with no worker    *)
(* threads, locks or semaphores in sight:                                  *)
(*                                                                         *)
(*   - a lua process that was created waits its turn in one FIFO queue;    *)
(*   - it is executed by one executor at a time, and only after it was at  *)
(*     the head of the queue;                                              *)
(*   - it then goes back to the tail of the queue, is parked until some    *)
(*     other execution unparks it, or ends;                                *)
(*   - a process that ended is never executed again, unless its structure  *)
(*     is recycled for a new process;                                      *)
(*   - the number of active processes is the number of processes created   *)
(*     and not ended.                                                      *)
(*                                                                         *)
(* LpSched is shown to implement this module.                              *)
(***************************************************************************)
EXTENDS Naturals, Sequences

CONSTANT Procs          \* lua process structures (struct stluaproc)

VARIABLES
    queue,              \* processes waiting to be executed, in order
    running,            \* processes being executed
    parked,             \* processes blocked in send or receive
    waking,             \* processes unparked, not back in the queue yet
    active              \* processes created and not ended

poolVars == <<queue, running, parked, waking, active>>

PoolInit ==
    /\ queue = <<>>
    /\ running = {}
    /\ parked = {}
    /\ waking = {}
    /\ active = {}

\* newproc counts the process first ...
Create(p) ==
    /\ p \notin active
    /\ active' = active \cup {p}
    /\ waking' = waking \cup {p}
    /\ UNCHANGED <<queue, running, parked>>

\* ... and then schedules it, as whoever unparks a process does.
Enqueue(p) ==
    /\ p \in waking
    /\ waking' = waking \ {p}
    /\ queue' = Append(queue, p)
    /\ UNCHANGED <<running, parked, active>>

Dispatch ==
    /\ queue # <<>>
    /\ running' = running \cup {Head(queue)}
    /\ queue' = Tail(queue)
    /\ UNCHANGED <<parked, waking, active>>

Yield(p) ==
    /\ p \in running
    /\ running' = running \ {p}
    /\ queue' = Append(queue, p)
    /\ UNCHANGED <<parked, waking, active>>

Park(p) ==
    /\ p \in running
    /\ running' = running \ {p}
    /\ parked' = parked \cup {p}
    /\ UNCHANGED <<queue, waking, active>>

Unpark(p) ==
    /\ p \in parked
    /\ parked' = parked \ {p}
    /\ waking' = waking \cup {p}
    /\ UNCHANGED <<queue, running, active>>

End(p) ==
    /\ p \in running
    /\ running' = running \ {p}
    /\ active' = active \ {p}
    /\ UNCHANGED <<queue, parked, waking>>

PoolNext ==
    \/ Dispatch
    \/ \E p \in Procs :
          Create(p) \/ Enqueue(p) \/ Yield(p) \/ Park(p) \/ Unpark(p) \/ End(p)

PoolSpec == PoolInit /\ [][PoolNext]_poolVars
=============================================================================
