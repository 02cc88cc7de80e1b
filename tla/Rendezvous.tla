----------------------------- MODULE Rendezvous -----------------------------
(***************************************************************************)
(* What luaproc's channels promise: a send and a receive on one channel    *)
(* meet.  Whoever comes first waits, in order of arrival; senders and      *)
(* receivers never wait on the same channel; every process that waits on a *)
(* channel when it is destroyed gets an error.                             *)
(*                                                                         *)
(* LuaProc is shown to implement this module when one worker executes the  *)
(* lua processes.                                                          *)
(***************************************************************************)
EXTENDS Naturals, Sequences

CONSTANTS Procs, Names

VARIABLES
    open,               \* names of the existing channels
    waiting,            \* waiting[side][n]: who waits on channel n, in order
    outcome             \* what the last wait of a process ended with

rendezvousVars == <<open, waiting, outcome>>

Sides == {"send", "recv"}

RendezvousInit ==
    /\ open = {}
    /\ waiting = [s \in Sides |-> [n \in Names |-> <<>>]]
    /\ outcome = [p \in Procs |-> "none"]

IsWaiting(p) ==
    \E s \in Sides, n \in Names :
        \E i \in 1 .. Len(waiting[s][n]) : waiting[s][n][i] = p

Open(n) ==
    /\ n \notin open
    /\ open' = open \cup {n}
    /\ UNCHANGED <<waiting, outcome>>

\* Nobody is there to meet: wait.
Wait(p, s, n) ==
    /\ n \in open
    /\ ~IsWaiting(p)
    /\ \A r \in Sides \ {s} : waiting[r][n] = <<>>
    /\ waiting' = [waiting EXCEPT ![s][n] = Append(@, p)]
    /\ outcome' = [outcome EXCEPT ![p] = "none"]
    /\ UNCHANGED open

\* The first one waiting is met; the values can be copied, or cannot.
Meet(s, n, result) ==
    /\ n \in open
    /\ waiting[s][n] # <<>>
    /\ waiting' = [waiting EXCEPT ![s][n] = Tail(@)]
    /\ outcome' = [outcome EXCEPT ![Head(waiting[s][n])] = result]
    /\ UNCHANGED open

Close(n) ==
    /\ n \in open
    /\ open' = open \ {n}
    /\ waiting' = [s \in Sides |-> [waiting[s] EXCEPT ![n] = <<>>]]
    /\ outcome' =
         [p \in Procs |->
            IF \E s \in Sides : \E i \in 1 .. Len(waiting[s][n]) :
                   waiting[s][n][i] = p
              THEN "error" ELSE outcome[p]]

RendezvousNext ==
    \/ \E n \in Names : Open(n) \/ Close(n)
    \/ \E p \in Procs, s \in Sides, n \in Names : Wait(p, s, n)
    \/ \E s \in Sides, n \in Names, result \in {"ok", "error"} :
          Meet(s, n, result)

RendezvousSpec == RendezvousInit /\ [][RendezvousNext]_rendezvousVars
=============================================================================
