------------------------------ MODULE Delivery ------------------------------
(***************************************************************************)
(* What lua-mqttc promises about a message that is published with an       *)
(* acknowledgement: it is reported at most once, to the caller of a        *)
(* synchronous publish or to the "publish" callback, and it is reported as *)
(* delivered only if the broker acknowledged it.  The promise ends when    *)
(* the connection it was sent on is replaced by another one: such a        *)
(* message may be reported either way, still at most once.                 *)
(***************************************************************************)
EXTENDS Naturals

CONSTANT Msgs

VARIABLES
    sent,       \* messages handed to the network
    settled,    \* those acknowledged, or sent on a connection since replaced
    report      \* what was reported of each message

vars == <<sent, settled, report>>

Outcomes == {"ok", "timeout"}

Init ==
    /\ sent = {}
    /\ settled = {}
    /\ report = [m \in Msgs |-> "none"]

Send(m) ==
    /\ m \notin sent
    /\ sent' = sent \cup {m}
    /\ UNCHANGED <<settled, report>>

Settle ==
    /\ \E S \in SUBSET sent : settled' = settled \cup S
    /\ UNCHANGED <<sent, report>>

Report(m, r) ==
    /\ m \in sent
    /\ report[m] = "none"
    /\ r = "ok" => m \in settled
    /\ report' = [report EXCEPT ![m] = r]
    /\ UNCHANGED <<sent, settled>>

Next ==
    \/ Settle
    \/ \E m \in Msgs : Send(m) \/ \E r \in Outcomes : Report(m, r)

Spec == Init /\ [][Next]_vars
=============================================================================
