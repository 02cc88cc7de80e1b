-------------------------- MODULE MqttClient_proofs --------------------------
(***************************************************************************)
(* Proofs about MqttClient, for any messages, timeouts and scripts, and any*)
(* number of handles, reconnections and packets.                           *)
(***************************************************************************)
EXTENDS MqttClient, FiniteSetTheorems, SequenceTheorems, TLAPS

(* Types *)

\* The empty list of acknowledgements.
LEMMA NoneSeq == <<>> \in Seq(Packets)
OBVIOUS

\* Initially every variable has its type.
LEMMA InitType == Init => MTypeOK
<1>. SUFFICES ASSUME Init PROVE MTypeOK
  OBVIOUS
<1>1. subs \in Seq(Packets) /\ acks \in Seq(Packets)
  BY NoneSeq DEF Init
<1>2. entry \in [Msgs -> [id : Nat, handler : Nat, sync : BOOLEAN, deadline : Nat]]
  BY DEF Init, NoEntry
<1>3. next \in [Nodes -> Nodes] /\ prev \in [Nodes -> Nodes]
  BY DEF Init, Nodes
<1>4. pc \in [Threads -> Places]
      /\ doing \in [Threads -> Nodes] /\ tail \in [Threads -> Nodes] /\ at \in Nodes
  BY DEF Init, Nodes, Places
<1>5. report \in [Msgs -> {"none", "ok", "timeout"}] /\ got \in Packets \cup {NoPacket}
  BY DEF Init
<1>6. handler \in 0 .. MaxHandlers /\ now \in 0 .. MaxTime /\ nextId \in Nat
  BY MqttAssumption DEF Init
<1>7. state \in States /\ inFlight \subseteq Packets /\ acked \subseteq Msgs
      /\ ret \in {"loop", "dialed", "scan", "acking"}
      /\ inited \in BOOLEAN /\ connected \in BOOLEAN /\ onSuback \in BOOLEAN
      /\ link \in BOOLEAN /\ up \in BOOLEAN
  BY DEF Init, States
<1>. QED BY <1>1, <1>2, <1>3, <1>4, <1>5, <1>6, <1>7 DEF MTypeOK

\* Removing an entry keeps the links within the list's nodes.
LEMMA DeleteType ==
    ASSUME MTypeOK, NEW m \in Msgs, Delete(m)
    PROVE  next' \in [Nodes -> Nodes] /\ prev' \in [Nodes -> Nodes]
<1>1. m \in Nodes /\ next[m] \in Nodes /\ prev[m] \in Nodes /\ Anchor \in Nodes
  BY DEF MTypeOK, Nodes
<1>. QED BY <1>1 DEF Delete, MTypeOK

\* A step of a call of the script keeps the types.
LEMMA CallType ==
    ASSUME MTypeOK, NEW t \in Threads, ScriptCall(t) \/ InCall(t)
    PROVE  MTypeOK'
<1>. USE DEF MTypeOK, Places, clientVars, listVars, msgVars, callVars, readVars, netVars
<1>1. ASSUME NEW m \in Msgs, NEW sync \in BOOLEAN, NEW timeout \in Timeouts,
             Publish(t, m, sync, timeout)
      PROVE  MTypeOK'
  <2>1. [id |-> nextId, handler |-> handler, sync |-> sync,
         deadline |-> IF now + timeout = 0 THEN Default ELSE timeout]
            \in [id : Nat, handler : Nat, sync : BOOLEAN, deadline : Nat]
    BY MqttAssumption
  <2>2. entry' \in [Msgs -> [id : Nat, handler : Nat, sync : BOOLEAN, deadline : Nat]]
    BY <1>1, <2>1 DEF Publish
  <2>3. inFlight' \subseteq Packets
    BY <1>1 DEF Publish, Packets
  <2>4. doing' \in [Threads -> Nodes] /\ nextId' \in Nat
    BY <1>1 DEF Publish, Nodes
  <2>. QED BY <1>1, <2>2, <2>3, <2>4 DEF Publish
<1>2. ASSUME NEW kind \in {"sub", "unsub"}, Subscribe(t, kind) PROVE MTypeOK'
  <2>1. [kind |-> kind, id |-> nextId] \in Packets
    BY DEF Packets
  <2>2. subs' \in Seq(Packets) /\ inFlight' \subseteq Packets
    BY <1>2, <2>1 DEF Subscribe
  <2>. QED BY <1>2, <2>2 DEF Subscribe
<1>3. CASE OnSuback(t)
  BY <1>3 DEF OnSuback
<1>4. CASE Connect(t)
  BY <1>4 DEF Connect
<1>5. CASE ReadTail(t)
  BY <1>5 DEF ReadTail, Goto, Nodes
<1>6. CASE LinkEntry(t)
  <2>1. doing[t] \in Nodes /\ tail[t] \in Nodes /\ Anchor \in Nodes
    BY DEF Nodes
  <2>2. next' \in [Nodes -> Nodes] /\ prev' \in [Nodes -> Nodes]
    BY <1>6, <2>1 DEF LinkEntry, Insert
  <2>3. doing' \in [Threads -> Nodes] /\ tail' \in [Threads -> Nodes]
    BY <1>6, <2>1 DEF LinkEntry
  <2>. QED BY <1>6, <2>2, <2>3 DEF LinkEntry, Goto
<1>7. CASE PublishReturns(t)
  BY <1>7 DEF PublishReturns, Goto, Nodes
<1>8. CASE RequestInit(t)
  BY <1>8 DEF RequestInit, Goto, SetState, States
<1>. QED
  BY <1>1, <1>2, <1>3, <1>4, <1>5, <1>6, <1>7, <1>8 DEF ScriptCall, InCall

\* A step of the client thread keeps the types.
LEMMA ClientType ==
    ASSUME MTypeOK, ClientStep
    PROVE  MTypeOK'
<1>. USE DEF MTypeOK, Places, clientVars, listVars, msgVars, callVars, readVars, netVars
<1>1. CASE SetInited
  BY <1>1 DEF SetInited, Goto
<1>2. ASSUME NEW from, NEW s \in States, Store(from, s) PROVE MTypeOK'
  BY <1>2 DEF Store, Goto
<1>3. CASE CustomInit
  <2>1. handler' \in 0 .. MaxHandlers /\ nextId' \in Nat
    BY <1>3, MqttAssumption DEF CustomInit
  <2>2. acks' \in Seq(Packets) /\ inFlight' \subseteq Packets /\ up' \in BOOLEAN
    BY <1>3, NoneSeq DEF CustomInit, LoseConnection
  <2>. QED BY <1>3, <2>1, <2>2 DEF CustomInit, Goto
<1>4. CASE CheckNetwork
  BY <1>4 DEF CheckNetwork, Goto
<1>5. ASSUME NEW from, NEW r \in {"loop", "dialed"}, ConnectAt(from, r) PROVE MTypeOK'
  BY <1>5 DEF ConnectAt, Callback, Goto
<1>6. CASE DialFails
  BY <1>6 DEF DialFails, Goto
<1>7. CASE BeginScan
  BY <1>7 DEF BeginScan, Goto, Nodes
<1>8. CASE Expire
  <2>1. at \in Msgs /\ next[at] \in Nodes
    BY <1>8 DEF Expire, Nodes
  <2>2. next' \in [Nodes -> Nodes] /\ prev' \in [Nodes -> Nodes]
    BY <1>8, <2>1, DeleteType DEF Expire, Complete
  <2>3. report' \in [Msgs -> {"none", "ok", "timeout"}] /\ entry' = entry
    BY <1>8, <2>1 DEF Expire, Complete
  <2>4. pc' \in [Threads -> Places]
        /\ ret' \in {"loop", "dialed", "scan", "acking"}
    BY <1>8 DEF Expire, ReportBack, Goto, Callback
  <2>. QED BY <1>8, <2>1, <2>2, <2>3, <2>4 DEF Expire
<1>9. CASE KeepWaiting
  BY <1>9 DEF KeepWaiting, NextAfter, Nodes
<1>10. CASE EndScan
  BY <1>10 DEF EndScan, Goto
<1>11. CASE NothingToRead
  BY <1>11 DEF NothingToRead, Goto
<1>12. CASE MessageArrives
  BY <1>12 DEF MessageArrives, Callback, Goto
<1>13. CASE ReadAck
  <2>1. acks[1] \in Packets /\ Tail(acks) \in Seq(Packets)
    BY <1>13 DEF ReadAck
  <2>. QED BY <1>13, <2>1 DEF ReadAck, Callback, Goto
<1>14. CASE ProcRecvAck
  <2>1. CASE UNCHANGED <<listVars, msgVars, ret>> /\ Goto("client", "acking", "loop")
    BY <1>14, <2>1 DEF ProcRecvAck, Goto
  <2>2. ASSUME NEW m \in Msgs, Complete(m, "ok"), ReportBack(m, "acking", "loop")
        PROVE  MTypeOK'
    <3>1. next' \in [Nodes -> Nodes] /\ prev' \in [Nodes -> Nodes]
      BY <2>2, DeleteType DEF Complete
    <3>2. report' \in [Msgs -> {"none", "ok", "timeout"}] /\ entry' = entry
      BY <2>2 DEF Complete
    <3>3. pc' \in [Threads -> Places]
          /\ ret' \in {"loop", "dialed", "scan", "acking"}
      BY <2>2 DEF ReportBack, Goto, Callback
    <3>. QED BY <1>14, <3>1, <3>2, <3>3 DEF ProcRecvAck
  <2>. QED BY <1>14, <2>1, <2>2 DEF ProcRecvAck
<1>15. CASE ProcSuback
  <2>1. ASSUME NEW k \in DOMAIN subs
        PROVE  SubSeq(subs, 1, k - 1) \o SubSeq(subs, k + 1, Len(subs)) \in Seq(Packets)
    <3>1. k - 1 \in Int /\ k + 1 \in Int /\ 1 \in Int /\ Len(subs) \in Int
      OBVIOUS
    <3>2. SubSeq(subs, 1, k - 1) \in Seq(Packets)
      <4>. \A j \in 1 .. (k - 1) : subs[j] \in Packets
        OBVIOUS
      <4>. QED BY <3>1, SubSeqProperties
    <3>3. SubSeq(subs, k + 1, Len(subs)) \in Seq(Packets)
      <4>. \A j \in (k + 1) .. Len(subs) : subs[j] \in Packets
        OBVIOUS
      <4>. QED BY <3>1, SubSeqProperties
    <3>. QED BY <3>2, <3>3
  <2>2. subs' \in Seq(Packets)
    BY <1>15, <2>1 DEF ProcSuback
  <2>. QED BY <1>15, <2>2 DEF ProcSuback, Goto
<1>16. CASE Disconnected
  BY <1>16 DEF Disconnected, Callback, Goto
<1>17. CASE Stop
  BY <1>17, NoneSeq DEF Stop, Goto, LoseConnection, States
<1>. QED
  BY <1>1, <1>2, <1>3, <1>4, <1>5, <1>6, <1>7, <1>8, <1>9, <1>10, <1>11, <1>12, <1>13,
     <1>14, <1>15, <1>16, <1>17
  DEF ClientStep, Yield, SetIdle, SetConnect, SetComplete, Dial, Reconnect, States

\* Every step keeps the types.
LEMMA StepType == MTypeOK /\ [Next]_vars => MTypeOK'
<1>. SUFFICES ASSUME MTypeOK, [Next]_vars PROVE MTypeOK'
  OBVIOUS
<1>. USE DEF MTypeOK, Places, clientVars, listVars, msgVars, callVars, readVars, netVars
<1>1. ASSUME NEW t \in Threads, ScriptCall(t) \/ InCall(t) PROVE MTypeOK'
  BY <1>1, CallType
<1>2. CASE Collect
  BY <1>2 DEF Collect, Goto, SetState, States
<1>3. CASE ClientStep
  BY <1>3, ClientType
<1>4. CASE CallbackReturns
  BY <1>4 DEF CallbackReturns, Goto
<1>5. CASE Acknowledge
  <2>1. PICK packet \in inFlight : /\ inFlight' = inFlight \ {packet}
                                   /\ acks' = Append(acks, packet)
                                   /\ acked' \subseteq Msgs
    BY <1>5 DEF Acknowledge
  <2>. QED BY <1>5, <2>1 DEF Acknowledge
<1>6. CASE Break
  BY <1>6, NoneSeq DEF Break, LoseConnection
<1>7. CASE LinkChanges
  BY <1>7 DEF LinkChanges
<1>8. CASE Tick
  BY <1>8 DEF Tick
<1>9. CASE UNCHANGED vars
  BY <1>9 DEF vars
<1>. QED
  BY <1>1, <1>2, <1>3, <1>4, <1>5, <1>6, <1>7, <1>8, <1>9 DEF Next, Environment

\* Every variable keeps its type: the client thread is never in a state it has no
\* case for, and no list is linked to anything but its messages.
THEOREM TypeCorrect == Spec => []MTypeOK
BY InitType, StepType, PTL DEF Spec
-----------------------------------------------------------------------------
(* Acknowledgements *)

\* The client thread is in the callback of an acknowledgement.
Acking ==
    \/ pc["client"] = "acking"
    \/ pc["client"] \in {"lua", "sent", "linking", "waiting", "connecting"} /\ ret = "acking"

\* The packet was sent with the current handle ...
Numbered(packet) == 1 <= packet.id /\ packet.id < nextId

\* ... and the broker has acknowledged the message it carries.
Answered(packet) ==
    packet.kind = "pub" =>
        \A m \in Msgs : entry[m].id = packet.id /\ entry[m].handler = handler => m \in acked

\* What is in flight, on its way back or being processed belongs to the current
\* handle: a packet number names one message of it.
AckInv ==
    /\ MTypeOK
    /\ nextId >= 1
    /\ \A m \in Msgs : entry[m].handler <= handler
    /\ \A packet \in inFlight : Numbered(packet)
    /\ \A i \in DOMAIN acks : Numbered(acks[i]) /\ Answered(acks[i])
    /\ got # NoPacket => Numbered(got) /\ Answered(got) /\ Acking
    /\ \A m \in Msgs : report[m] = "ok" => entry[m].id >= 1
    /\ OkMeansAcked

\* Initially nothing is in flight.
LEMMA InitAck == Init => AckInv
<1>. SUFFICES ASSUME Init PROVE AckInv
  OBVIOUS
<1>1. DOMAIN acks = {}
  BY DEF Init
<1>. QED BY <1>1, InitType DEF Init, AckInv, OkMeansAcked, NoEntry

\* A step that touches no packet and no report keeps the invariant, unless it
\* leaves the callback of an acknowledgement.
LEMMA AckQuiet ==
    ASSUME AckInv, MTypeOK',
           UNCHANGED <<entry, report, handler, acked, acks, inFlight, got, nextId>>,
           got # NoPacket => Acking'
    PROVE  AckInv'
BY DEF AckInv, Numbered, Answered, OkMeansAcked

\* What the proofs below use of the types.
LEMMA Typed ==
    ASSUME MTypeOK
    PROVE  /\ nextId \in Nat /\ handler \in Nat /\ pc \in [Threads -> Places]
           /\ report \in [Msgs -> {"none", "ok", "timeout"}]
           /\ \A m \in Msgs : entry[m].id \in Nat /\ entry[m].handler \in Nat
           /\ inFlight \subseteq Packets /\ got \in Packets \cup {NoPacket}
           /\ \A i \in DOMAIN acks : acks[i] \in Packets
           /\ \A packet \in Packets : packet.id \in Nat
<1>1. handler \in Nat
  BY MqttAssumption DEF MTypeOK
<1>2. \A m \in Msgs : entry[m].id \in Nat /\ entry[m].handler \in Nat
  BY DEF MTypeOK
<1>3. \A i \in DOMAIN acks : acks[i] \in Packets
  BY DEF MTypeOK
<1>4. \A packet \in Packets : packet.id \in Nat
  BY DEF Packets
<1>. QED BY <1>1, <1>2, <1>3, <1>4 DEF MTypeOK

\* A call of the script: a message or a subscription gets a number not yet used.
LEMMA AckCall ==
    ASSUME AckInv, MTypeOK', NEW t \in Threads, ScriptCall(t) \/ InCall(t)
    PROVE  AckInv'
<1>. USE DEF clientVars, listVars, msgVars, callVars, readVars, netVars
<1>0. /\ nextId \in Nat /\ handler \in Nat /\ pc \in [Threads -> Places]
      /\ \A m \in Msgs : entry[m].id \in Nat /\ entry[m].handler \in Nat
      /\ inFlight \subseteq Packets /\ got \in Packets \cup {NoPacket}
      /\ \A i \in DOMAIN acks : acks[i] \in Packets
      /\ \A packet \in Packets : packet.id \in Nat
  BY Typed DEF AckInv
<1>1. ASSUME NEW m \in Msgs, NEW sync \in BOOLEAN, NEW timeout \in Timeouts,
             Publish(t, m, sync, timeout)
      PROVE  AckInv'
  <2>. DEFINE new == [id |-> nextId, handler |-> handler, sync |-> sync,
                      deadline |-> IF now + timeout = 0 THEN Default ELSE timeout]
  <2>1. /\ entry[m] = NoEntry /\ entry' = [entry EXCEPT ![m] = new]
        /\ nextId' = nextId + 1 /\ pc' = [pc EXCEPT ![t] = "sent"] /\ pc[t] = "lua"
        /\ inFlight' \subseteq inFlight \cup {[kind |-> "pub", id |-> nextId]}
        /\ UNCHANGED <<report, handler, acked, acks, got, ret>>
    BY <1>1 DEF Publish, MayCall
  <2>2. /\ entry'[m].id = nextId /\ entry'[m].handler = handler
        /\ entry[m].id = 0
        /\ \A n \in Msgs : n # m => entry'[n] = entry[n]
    BY <2>1 DEF AckInv, MTypeOK, NoEntry
  <2>3. \A packet \in Packets :
            Numbered(packet) /\ Answered(packet) => Numbered(packet)' /\ Answered(packet)'
    BY <1>0, <2>1, <2>2 DEF Numbered, Answered
  <2>4. got # NoPacket => Acking'
    BY <1>0, <2>1 DEF AckInv, Acking, Threads
  <2>5. \A packet \in inFlight' : Numbered(packet)'
    BY <1>0, <2>1 DEF AckInv, Numbered
  <2>6. \A i \in DOMAIN acks' : Numbered(acks[i])' /\ Answered(acks[i])'
    BY <1>0, <2>1, <2>3 DEF AckInv
  <2>7. \A n \in Msgs : report'[n] = "ok" => entry'[n].id >= 1
    BY <1>0, <2>1, <2>2 DEF AckInv
  <2>8. OkMeansAcked'
    BY <1>0, <2>1, <2>2 DEF AckInv, OkMeansAcked
  <2>9. \A n \in Msgs : entry'[n].handler <= handler'
    BY <1>0, <2>1, <2>2 DEF AckInv
  <2>. QED
    BY <1>0, <2>1, <2>3, <2>4, <2>5, <2>6, <2>7, <2>8, <2>9 DEF AckInv
<1>2. ASSUME NEW kind \in {"sub", "unsub"}, Subscribe(t, kind) PROVE AckInv'
  <2>1. /\ nextId' = nextId + 1
        /\ inFlight' \subseteq inFlight \cup {[kind |-> kind, id |-> nextId]}
        /\ UNCHANGED <<entry, report, handler, acked, acks, got, pc, ret>>
    BY <1>2 DEF Subscribe
  <2>2. \A packet \in inFlight' : Numbered(packet)'
    BY <1>0, <2>1 DEF AckInv, Numbered
  <2>3. \A packet \in Packets :
            Numbered(packet) /\ Answered(packet) => Numbered(packet)' /\ Answered(packet)'
    BY <1>0, <2>1 DEF Numbered, Answered
  <2>. QED BY <1>0, <2>1, <2>2, <2>3 DEF AckInv, OkMeansAcked, Acking
<1>3. CASE OnSuback(t)
  BY <1>3, AckQuiet DEF OnSuback, AckInv, Acking
<1>4. CASE Connect(t)
  BY <1>0, <1>4, AckQuiet DEF Connect, MayCall, AckInv, Acking, Threads
<1>5. CASE ReadTail(t)
  BY <1>0, <1>5, AckQuiet DEF ReadTail, Goto, AckInv, Acking, Threads
<1>6. CASE LinkEntry(t)
  BY <1>0, <1>6, AckQuiet DEF LinkEntry, Goto, AckInv, Acking, Threads
<1>7. CASE PublishReturns(t)
  BY <1>0, <1>7, AckQuiet DEF PublishReturns, Goto, AckInv, Acking, Threads
<1>8. CASE RequestInit(t)
  BY <1>0, <1>8, AckQuiet DEF RequestInit, Goto, AckInv, Acking, Threads
<1>. QED
  BY <1>1, <1>2, <1>3, <1>4, <1>5, <1>6, <1>7, <1>8 DEF ScriptCall, InCall

\* A step of the client thread: an acknowledgement is reported to the message of
\* its number, a new handle starts with no packet on its way.
LEMMA AckClient ==
    ASSUME AckInv, MTypeOK', ClientStep
    PROVE  AckInv'
<1>. USE DEF clientVars, listVars, msgVars, callVars, readVars, netVars
<1>0. /\ nextId \in Nat /\ handler \in Nat /\ pc \in [Threads -> Places]
      /\ \A m \in Msgs : entry[m].id \in Nat /\ entry[m].handler \in Nat
      /\ inFlight \subseteq Packets /\ got \in Packets \cup {NoPacket}
      /\ \A i \in DOMAIN acks : acks[i] \in Packets
      /\ \A packet \in Packets : packet.id \in Nat
      /\ report \in [Msgs -> {"none", "ok", "timeout"}]
  BY Typed DEF AckInv
<1>1. CASE SetInited
  BY <1>1, AckQuiet DEF SetInited, Goto, AckInv, Acking
<1>2. ASSUME NEW from \in {"inited", "made", "dialed"}, NEW s, Store(from, s)
      PROVE  AckInv'
  BY <1>2, AckQuiet DEF Store, Goto, AckInv, Acking
<1>3. CASE CustomInit
  <2>1. got = NoPacket
    BY <1>3 DEF CustomInit, InState, AckInv, Acking
  <2>2. /\ handler' = handler + 1 /\ nextId' = 1 /\ inFlight' = {} /\ acks' = <<>>
        /\ UNCHANGED <<entry, report, acked, got>>
    BY <1>3 DEF CustomInit, LoseConnection
  <2>3. OkMeansAcked'
    BY <1>0, <2>2 DEF AckInv, OkMeansAcked
  <2>4. \A m \in Msgs : entry'[m].handler <= handler'
    BY <1>0, <2>2 DEF AckInv
  <2>5. DOMAIN acks' = {}
    BY <2>2
  <2>. QED BY <2>1, <2>2, <2>3, <2>4, <2>5 DEF AckInv
<1>4. CASE CheckNetwork
  BY <1>4, AckQuiet DEF CheckNetwork, InState, AckInv, Acking
<1>5. ASSUME NEW from \in {"dialing", "loop"}, NEW r, ConnectAt(from, r) PROVE AckInv'
  BY <1>5, AckQuiet DEF ConnectAt, Callback, Goto, AckInv, Acking
<1>6. CASE DialFails
  BY <1>6, AckQuiet DEF DialFails, Goto, AckInv, Acking
<1>7. CASE BeginScan
  BY <1>7, AckQuiet DEF BeginScan, InState, AckInv, Acking
<1>8. CASE Expire
  <2>1. got = NoPacket
    BY <1>8 DEF Expire, ReportBack, Callback, Goto, AckInv, Acking
  <2>2. /\ report' = [report EXCEPT ![at] = "timeout"] /\ at \in Msgs
        /\ UNCHANGED <<entry, handler, acked, acks, inFlight, got, nextId>>
    BY <1>8 DEF Expire, Complete, AckInv, MTypeOK, Nodes
  <2>3. \A m \in Msgs : report'[m] = "ok" => report[m] = "ok"
    BY <1>0, <2>2
  <2>. QED
    BY <2>1, <2>2, <2>3 DEF AckInv, OkMeansAcked, Numbered, Answered
<1>9. CASE KeepWaiting
  BY <1>9, AckQuiet DEF KeepWaiting, AckInv, Acking
<1>10. CASE EndScan
  BY <1>10, AckQuiet DEF EndScan, Goto, AckInv, Acking
<1>11. CASE NothingToRead
  BY <1>11, AckQuiet DEF NothingToRead, Goto, AckInv, Acking
<1>12. CASE MessageArrives
  BY <1>12, AckQuiet DEF MessageArrives, Callback, Goto, AckInv, Acking
<1>13. CASE ReadAck
  <2>1. /\ acks # <<>> /\ got' = acks[1] /\ acks' = Tail(acks)
        /\ pc' = [pc EXCEPT !["client"] = "lua"] /\ ret' = "acking"
        /\ UNCHANGED <<entry, report, handler, acked, inFlight, nextId>>
    BY <1>13 DEF ReadAck, Callback, Goto
  <2>2. /\ 1 \in DOMAIN acks
        /\ \A i \in DOMAIN acks' : i + 1 \in DOMAIN acks /\ acks'[i] = acks[i + 1]
    BY <2>1 DEF AckInv, MTypeOK
  <2>3. \A packet : /\ Numbered(packet)' <=> Numbered(packet)
                    /\ Answered(packet)' <=> Answered(packet)
    BY <2>1 DEF Numbered, Answered
  <2>4. Acking'
    BY <1>0, <2>1 DEF Acking, Threads
  <2>5. Numbered(got)' /\ Answered(got)'
    BY <2>1, <2>2 DEF AckInv, Numbered, Answered
  <2>6. \A i \in DOMAIN acks' : Numbered(acks[i])' /\ Answered(acks[i])'
    BY <2>1, <2>2 DEF AckInv, Numbered, Answered
  <2>. QED BY <2>1, <2>4, <2>5, <2>6 DEF AckInv, OkMeansAcked, Numbered
<1>14. CASE ProcRecvAck
  <2>1. /\ got' = NoPacket /\ got.kind = "pub"
        /\ UNCHANGED <<entry, handler, acked, acks, inFlight, nextId>>
    BY <1>14 DEF ProcRecvAck, Complete
  <2>2. got # NoPacket
    BY <2>1 DEF NoPacket
  <2>3. \A m \in Msgs : report'[m] = "ok" =>
            report[m] = "ok" \/ entry[m].id = got.id
    BY <1>0, <1>14 DEF ProcRecvAck, Complete, IsFirst
  <2>4. \A m \in Msgs : entry[m].id = got.id =>
            entry[m].id >= 1 /\ (m \in acked \/ entry[m].handler < handler)
    BY <1>0, <2>1, <2>2 DEF AckInv, Numbered, Answered
  <2>. QED
    BY <2>1, <2>3, <2>4 DEF AckInv, OkMeansAcked, Numbered, Answered
<1>15. CASE ProcSuback
  <2>1. /\ got' = NoPacket
        /\ UNCHANGED <<entry, report, handler, acked, acks, inFlight, nextId>>
    BY <1>15 DEF ProcSuback
  <2>. QED BY <2>1 DEF AckInv, OkMeansAcked, Numbered, Answered
<1>16. CASE Disconnected
  BY <1>16, AckQuiet DEF Disconnected, Callback, Goto, AckInv, Acking
<1>17. CASE Stop
  <2>1. got = NoPacket
    BY <1>17 DEF Stop, InState, AckInv, Acking
  <2>2. /\ inFlight' = {} /\ acks' = <<>> /\ DOMAIN acks' = {}
        /\ UNCHANGED <<entry, report, handler, acked, got, nextId>>
    BY <1>17 DEF Stop, LoseConnection
  <2>. QED BY <2>1, <2>2 DEF AckInv, OkMeansAcked
<1>. QED
  BY <1>1, <1>2, <1>3, <1>4, <1>5, <1>6, <1>7, <1>8, <1>9, <1>10, <1>11, <1>12, <1>13,
     <1>14, <1>15, <1>16, <1>17
  DEF ClientStep, Yield, SetIdle, SetConnect, SetComplete, Dial, Reconnect

\* Every step keeps the invariant.
LEMMA StepAck == AckInv /\ [Next]_vars => AckInv'
<1>. SUFFICES ASSUME AckInv, [Next]_vars PROVE AckInv'
  OBVIOUS
<1>. USE DEF clientVars, listVars, msgVars, callVars, readVars, netVars
<1>0. MTypeOK' /\ pc \in [Threads -> Places]
  BY StepType DEF AckInv, MTypeOK
<1>1. ASSUME NEW t \in Threads, ScriptCall(t) \/ InCall(t) PROVE AckInv'
  BY <1>0, <1>1, AckCall
<1>2. CASE Collect
  BY <1>0, <1>2, AckQuiet DEF Collect, Goto, AckInv, Acking, Threads
<1>3. CASE ClientStep
  BY <1>0, <1>3, AckClient
<1>4. CASE CallbackReturns
  BY <1>0, <1>4, AckQuiet DEF CallbackReturns, Goto, AckInv, Acking, Threads
<1>5. CASE Acknowledge
  <2>1. PICK packet \in inFlight :
            /\ inFlight' = inFlight \ {packet}
            /\ acks' = Append(acks, packet)
            /\ acked' = IF packet.kind # "pub" THEN acked
                        ELSE acked \cup {m \in Msgs : /\ entry[m].id = packet.id
                                                      /\ entry[m].handler = handler}
    BY <1>5 DEF Acknowledge
  <2>2. UNCHANGED <<entry, report, handler, got, nextId, pc, ret>>
    BY <1>5 DEF Acknowledge
  <2>3. Answered(packet)' /\ \A p : Answered(p) => Answered(p)'
    BY <2>1, <2>2 DEF Answered
  <2>4. \A i \in DOMAIN acks' :
            acks'[i] = packet \/ (i \in DOMAIN acks /\ acks'[i] = acks[i])
    BY <2>1 DEF AckInv, MTypeOK
  <2>5. \A p : Numbered(p)' <=> Numbered(p)
    BY <2>2 DEF Numbered
  <2>6. \A i \in DOMAIN acks' : Numbered(acks[i])' /\ Answered(acks[i])'
    BY <2>1, <2>2, <2>3, <2>4, <2>5 DEF AckInv, Numbered, Answered
  <2>7. OkMeansAcked'
    BY <2>1, <2>2 DEF AckInv, OkMeansAcked
  <2>8. got # NoPacket => Numbered(got)' /\ Answered(got)' /\ Acking'
    BY <2>2, <2>3, <2>5 DEF AckInv, Acking, Numbered, Answered
  <2>. QED BY <1>0, <2>1, <2>2, <2>5, <2>6, <2>7, <2>8 DEF AckInv, Numbered
<1>6. CASE Break
  <2>1. /\ inFlight' = {} /\ acks' = <<>> /\ DOMAIN acks' = {}
        /\ UNCHANGED <<entry, report, handler, acked, got, nextId, pc, ret>>
    BY <1>6 DEF Break, LoseConnection
  <2>. QED BY <1>0, <2>1 DEF AckInv, OkMeansAcked, Numbered, Answered, Acking
<1>7. CASE LinkChanges
  BY <1>0, <1>7, AckQuiet DEF LinkChanges, AckInv, Acking
<1>8. CASE Tick
  BY <1>0, <1>8, AckQuiet DEF Tick, AckInv, Acking
<1>9. CASE UNCHANGED vars
  BY <1>0, <1>9, AckQuiet DEF vars, AckInv, Acking
<1>. QED
  BY <1>1, <1>2, <1>3, <1>4, <1>5, <1>6, <1>7, <1>8, <1>9 DEF Next, Environment

\* A message reported as delivered was acknowledged, whatever connections broke and
\* whatever callbacks did in between, or a new handle has reused its number.
THEOREM DeliveredWasAcked == Spec => []OkMeansAcked
<1>1. AckInv => OkMeansAcked
  BY DEF AckInv
<1>. QED BY <1>1, InitAck, StepAck, PTL DEF Spec
-----------------------------------------------------------------------------
(* The list of messages *)

Publishing == {"sent", "linking", "waiting"}

\* A message whose entry was linked into the list, whatever became of it since.
Linked(m) ==
    /\ m \in Msgs
    /\ entry[m] # NoEntry
    /\ \A t \in Threads : pc[t] \in {"sent", "linking"} => doing[t] # m

\* Whatever a link leads to is not freed and leads back.  It need not be in the
\* list: a message that an insertion lost keeps its links.
BackLinked ==
    \A x \in Nodes : next[x] # Anchor =>
        Linked(next[x]) /\ report[next[x]] = "none" /\ prev[next[x]] = x

\* The tail that was read may be freed by now, but it has been linked.
LinkedOnly ==
    /\ \A x \in Nodes : prev[x] # Anchor => Linked(prev[x])
    /\ \A t \in Threads : tail[t] # Anchor => Linked(tail[t])

\* The links back have no cycle: they lead to messages linked earlier.
Ranking(rank) == \A m \in Msgs : prev[m] # Anchor => rank[prev[m]] < rank[m]

Acyclic == \E rank \in [Msgs -> Nat] : Ranking(rank)

ShapeInv == BackLinked /\ LinkedOnly /\ Acyclic

\* The walk stands at a message that is not freed.
WalkInv == Walking /\ at # Anchor => Linked(at) /\ report[at] = "none"

\* Two threads publish different messages, and a synchronous message that is not
\* reported has its publisher.
PublishInv ==
    /\ \A t \in Threads : pc[t] \in Publishing =>
            doing[t] \in Msgs /\ entry[doing[t]] # NoEntry
    /\ \A t, u \in Threads :
            pc[t] \in Publishing /\ pc[u] \in Publishing /\ doing[t] = doing[u] => t = u
    /\ \A t \in Threads : pc[t] \in {"sent", "linking"} => report[doing[t]] = "none"
    /\ \A m \in Msgs : entry[m] = NoEntry => report[m] = "none"
    /\ \A m \in Msgs : entry[m].sync /\ report[m] = "none" =>
            \E t \in Threads : pc[t] \in Publishing /\ doing[t] = m

ListInv == AckInv /\ ShapeInv /\ WalkInv /\ PublishInv

\* The nodes of the list.
LEMMA Nodal ==
    /\ Anchor \in Nodes /\ Msgs \subseteq Nodes
    /\ \A x \in Nodes : x # Anchor => x \in Msgs
    /\ \A m \in Msgs : m # Anchor
BY MqttAssumption DEF Nodes

\* Initially the list is empty.
LEMMA InitList == Init => ListInv
<1>. SUFFICES ASSUME Init PROVE ListInv
  OBVIOUS
<1>1. BackLinked /\ LinkedOnly
  BY DEF Init, BackLinked, LinkedOnly
<1>2. Acyclic
  <2>. DEFINE rank == [m \in Msgs |-> 0]
  <2>1. rank \in [Msgs -> Nat] /\ Ranking(rank)
    BY Nodal DEF Init, Ranking
  <2>. QED BY <2>1 DEF Acyclic
<1>3. WalkInv /\ PublishInv
  BY DEF Init, WalkInv, PublishInv, Publishing, Threads, NoEntry
<1>. QED BY <1>1, <1>2, <1>3, InitAck DEF ListInv, ShapeInv

\* Linking a message after any message that was ever linked, freed or not, the last
\* of the list or not.
LEMMA InsertShape ==
    ASSUME MTypeOK, ShapeInv,
           NEW m \in Msgs, NEW last \in Nodes, Insert(m, last),
           ~ Linked(m), report[m] = "none", last # Anchor => Linked(last),
           Linked(m)', \A x \in Nodes : Linked(x) => Linked(x)',
           UNCHANGED report,
           \A t \in Threads : tail'[t] # Anchor => tail'[t] = tail[t]
    PROVE  ShapeInv'
<1>1. /\ m \in Nodes /\ m # Anchor /\ m # last
      /\ next \in [Nodes -> Nodes] /\ prev \in [Nodes -> Nodes]
      /\ tail \in [Threads -> Nodes]
  BY Nodal DEF MTypeOK
<1>2. \A x \in Nodes : next[x] # m /\ prev[x] # m
  BY <1>1 DEF ShapeInv, BackLinked, LinkedOnly
<1>3. \A x \in Nodes : next'[x] = next[x] \/ (x = last /\ next'[x] = m)
  BY <1>1 DEF Insert
<1>4. \A x \in Nodes : prev'[x] = IF x = m THEN last ELSE IF x = Anchor THEN m ELSE prev[x]
  BY <1>1 DEF Insert
<1>5. BackLinked'
  <2>. SUFFICES ASSUME NEW x \in Nodes, next'[x] # Anchor
                PROVE  Linked(next[x])' /\ report'[next'[x]] = "none" /\ prev'[next'[x]] = x
    BY DEF BackLinked
  <2>1. CASE next'[x] = m
    <3>1. x = last
      BY <1>2, <1>3, <2>1
    <3>. QED BY <1>1, <1>4, <2>1, <3>1
  <2>2. CASE next'[x] # m
    <3>1. next'[x] = next[x] /\ next[x] \in Nodes
      BY <1>1, <1>3, <2>2
    <3>2. Linked(next[x]) /\ report[next[x]] = "none" /\ prev[next[x]] = x
      BY <3>1 DEF ShapeInv, BackLinked
    <3>3. Linked(next[x])'
      BY <3>1, <3>2
    <3>. QED BY <1>4, <2>2, <3>1, <3>2, <3>3
  <2>. QED BY <2>1, <2>2
<1>6. LinkedOnly'
  <2>1. ASSUME NEW x \in Nodes, prev'[x] # Anchor PROVE Linked(prev[x])'
    <3>1. prev'[x] \in {last, m, prev[x]}
      BY <1>4
    <3>2. prev'[x] = m \/ Linked(prev'[x])
      BY <2>1, <3>1 DEF ShapeInv, LinkedOnly
    <3>3. prev'[x] \in Nodes
      BY <1>1, <3>1
    <3>. QED BY <3>2, <3>3
  <2>2. ASSUME NEW t \in Threads, tail'[t] # Anchor PROVE Linked(tail[t])'
    <3>1. Linked(tail'[t]) /\ tail'[t] \in Nodes
      BY <1>1, <2>2 DEF ShapeInv, LinkedOnly
    <3>. QED BY <3>1
  <2>. QED BY <2>1, <2>2 DEF LinkedOnly
<1>7. Acyclic'
  <2>1. PICK rank \in [Msgs -> Nat] : Ranking(rank)
    BY DEF ShapeInv, Acyclic
  <2>. DEFINE new == [x \in Msgs |-> IF x = m THEN IF last = Anchor THEN 0 ELSE rank[last] + 1
                                     ELSE rank[x]]
  <2>2. last # Anchor => last \in Msgs /\ rank[last] \in Nat
    BY <2>1, Nodal
  <2>3. new \in [Msgs -> Nat]
    BY <2>1, <2>2
  <2>4. ASSUME NEW x \in Msgs, prev'[x] # Anchor PROVE new[prev'[x]] < new[x]
    <3>1. x \in Nodes /\ x # Anchor
      BY Nodal
    <3>2. CASE x = m
      BY <1>1, <1>4, <2>2, <2>4, <3>1, <3>2
    <3>3. CASE x # m
      <4>1. prev'[x] = prev[x] /\ prev[x] # m /\ prev[x] \in Msgs
        BY <1>1, <1>2, <1>4, <2>4, <3>1, <3>3, Nodal
      <4>2. rank[prev[x]] < rank[x]
        BY <2>1, <2>4, <4>1 DEF Ranking
      <4>. QED BY <3>3, <4>1, <4>2
    <3>. QED BY <3>2, <3>3
  <2>. HIDE DEF new
  <2>. QED BY <2>3, <2>4 DEF Acyclic, Ranking
<1>. QED BY <1>5, <1>6, <1>7 DEF ShapeInv

\* Taking out a message that is not freed, also one that an insertion has lost.
LEMMA DeleteShape ==
    ASSUME MTypeOK, ShapeInv,
           NEW m \in Msgs, NEW r, Complete(m, r),
           \A x \in Nodes : Linked(x) => Linked(x)', UNCHANGED tail
    PROVE  ShapeInv' /\ next[m] # m
<1>0. m \in Nodes /\ next[m] \in Nodes /\ prev[m] \in Nodes
  BY Nodal DEF MTypeOK
<1>p. PICK p \in Nodes, n \in Nodes : p = prev[m] /\ n = next[m]
  BY <1>0
<1>1. /\ m \in Nodes /\ m # Anchor /\ p = prev[m] /\ n = next[m]
      /\ next \in [Nodes -> Nodes] /\ prev \in [Nodes -> Nodes]
      /\ tail \in [Threads -> Nodes] /\ report \in [Msgs -> {"none", "ok", "timeout"}]
  BY <1>0, <1>p, Nodal DEF MTypeOK
<1>2. PICK rank \in [Msgs -> Nat] : Ranking(rank)
  BY DEF ShapeInv, Acyclic
<1>3. p # m
  BY <1>1, <1>2 DEF Ranking
<1>4. n # Anchor => Linked(n) /\ report[n] = "none" /\ prev[n] = m
  BY <1>1 DEF ShapeInv, BackLinked
<1>5. n # m
  BY <1>1, <1>3, <1>4
<1>6. \A x \in Nodes : next'[x] = IF x = m THEN Anchor ELSE IF x = p THEN n ELSE next[x]
  BY <1>1, <1>3 DEF Complete, Delete
<1>7. \A x \in Nodes : prev'[x] = IF x = m THEN Anchor ELSE IF x = n THEN p ELSE prev[x]
  BY <1>1, <1>5 DEF Complete, Delete
<1>8. \A x \in Msgs : x # m => report'[x] = report[x]
  BY <1>1 DEF Complete
<1>9. BackLinked'
  <2>. SUFFICES ASSUME NEW x \in Nodes, next'[x] # Anchor
                PROVE  Linked(next[x])' /\ report'[next'[x]] = "none" /\ prev'[next'[x]] = x
    BY DEF BackLinked
  <2>1. x # m
    BY <1>6
  <2>2. CASE x = p
    <3>1. next'[x] = n
      BY <1>6, <2>1, <2>2
    <3>2. Linked(n)' /\ n \in Msgs /\ report[n] = "none"
      BY <1>1, <1>4, <3>1, Nodal
    <3>. QED BY <1>1, <1>5, <1>7, <1>8, <2>2, <3>1, <3>2
  <2>3. CASE x # p
    <3>1. next'[x] = next[x] /\ next[x] \in Msgs
      BY <1>1, <1>6, <2>1, <2>3, Nodal
    <3>2. Linked(next[x]) /\ report[next[x]] = "none" /\ prev[next[x]] = x
      BY <3>1 DEF ShapeInv, BackLinked
    <3>3. next[x] # m /\ next[x] # n
      BY <1>1, <1>4, <2>1, <2>3, <3>1, <3>2, Nodal
    <3>4. Linked(next[x])'
      BY <3>1, <3>2, Nodal
    <3>. QED BY <1>7, <1>8, <3>1, <3>2, <3>3, <3>4, Nodal
  <2>. QED BY <2>2, <2>3
<1>10. LinkedOnly'
  <2>1. ASSUME NEW x \in Nodes, prev'[x] # Anchor PROVE Linked(prev[x])'
    <3>1. prev'[x] \in {p, prev[x]} /\ prev'[x] \in Nodes
      BY <1>1, <1>7, <2>1
    <3>2. Linked(prev'[x])
      BY <1>1, <2>1, <3>1 DEF ShapeInv, LinkedOnly
    <3>. QED BY <3>1, <3>2
  <2>2. ASSUME NEW t \in Threads, tail'[t] # Anchor PROVE Linked(tail[t])'
    <3>1. Linked(tail'[t]) /\ tail'[t] \in Nodes
      BY <1>1, <2>2 DEF ShapeInv, LinkedOnly
    <3>. QED BY <3>1
  <2>. QED BY <2>1, <2>2 DEF LinkedOnly
<1>11. Ranking(rank)'
  <2>. SUFFICES ASSUME NEW x \in Msgs, prev'[x] # Anchor PROVE rank[prev'[x]] < rank[x]
    BY DEF Ranking
  <2>1. x \in Nodes /\ x # m
    BY <1>7, Nodal
  <2>2. CASE x = n
    <3>1. prev'[x] = p /\ p \in Msgs /\ prev[n] = m /\ n \in Msgs
      BY <1>1, <1>4, <1>7, <2>1, <2>2, Nodal
    <3>2. rank[p] < rank[m] /\ rank[m] < rank[n]
      BY <1>1, <1>2, <3>1, Nodal DEF Ranking
    <3>3. rank[p] \in Nat /\ rank[m] \in Nat /\ rank[n] \in Nat
      BY <1>2, <3>1
    <3>. QED BY <2>2, <3>1, <3>2, <3>3
  <2>3. CASE x # n
    BY <1>2, <1>7, <2>1, <2>3 DEF Ranking
  <2>. QED BY <2>2, <2>3
<1>. QED BY <1>1, <1>5, <1>9, <1>10, <1>11 DEF ShapeInv, Acyclic

\* A step that moves no message and no thread into or out of a publish.
LEMMA ListQuiet ==
    ASSUME ListInv, AckInv', UNCHANGED <<next, prev, entry, report, doing, tail>>,
           \A t \in Threads : pc'[t] = pc[t] \/ (pc[t] \notin Publishing /\ pc'[t] \notin Publishing),
           Walking' => at' = Anchor \/ (at' = at /\ Walking)
    PROVE  ListInv'
<1>1. \A t \in Threads : /\ pc'[t] \in Publishing <=> pc[t] \in Publishing
                         /\ pc'[t] \in {"sent", "linking"} <=> pc[t] \in {"sent", "linking"}
  BY DEF Publishing
<1>2. \A x : Linked(x)' <=> Linked(x)
  BY <1>1 DEF Linked
<1>3. BackLinked'
  BY <1>2 DEF ListInv, ShapeInv, BackLinked
<1>4. LinkedOnly'
  BY <1>2 DEF ListInv, ShapeInv, LinkedOnly
<1>5. Acyclic'
  BY DEF ListInv, ShapeInv, Acyclic, Ranking
<1>6. WalkInv'
  BY <1>2 DEF ListInv, WalkInv
<1>7. PublishInv'
  BY <1>1 DEF ListInv, PublishInv
<1>. QED BY <1>3, <1>4, <1>5, <1>6, <1>7 DEF ListInv, ShapeInv

\* A new message is not linked and not published by the other thread.
LEMMA ListPublish ==
    ASSUME ListInv, AckInv',
           NEW t \in Threads, NEW m \in Msgs, NEW sync \in BOOLEAN, NEW timeout \in Timeouts,
           Publish(t, m, sync, timeout)
    PROVE  ListInv'
<1>. DEFINE new == [id |-> nextId, handler |-> handler, sync |-> sync,
                    deadline |-> IF now + timeout = 0 THEN Default ELSE timeout]
<1>1. /\ entry[m] = NoEntry /\ entry' = [entry EXCEPT ![m] = new]
      /\ pc' = [pc EXCEPT ![t] = "sent"] /\ pc[t] = "lua"
      /\ doing' = [doing EXCEPT ![t] = m]
      /\ UNCHANGED <<next, prev, report, tail, ret, at>>
  BY DEF Publish, MayCall, listVars, readVars
<1>2. /\ entry \in [Msgs -> [id : Nat, handler : Nat, sync : BOOLEAN, deadline : Nat]]
      /\ doing \in [Threads -> Nodes] /\ pc \in [Threads -> Places]
      /\ nextId \in Nat /\ nextId >= 1
  BY DEF ListInv, AckInv, MTypeOK
<1>3. /\ entry'[m] = new /\ new # NoEntry /\ new.sync = sync
      /\ \A n \in Msgs : n # m => entry'[n] = entry[n]
  BY <1>1, <1>2 DEF NoEntry
<1>. HIDE DEF new
<1>4. /\ doing'[t] = m /\ pc'[t] = "sent" /\ pc[t] \notin Publishing
      /\ \A u \in Threads : u # t => doing'[u] = doing[u] /\ pc'[u] = pc[u]
  BY <1>1, <1>2 DEF Publishing
<1>5. ~ Linked(m)
  BY <1>1 DEF Linked
<1>6. ASSUME NEW x, Linked(x) PROVE Linked(x)' /\ x # m
  <2>1. x \in Msgs /\ x # m /\ entry'[x] # NoEntry
    BY <1>3, <1>5, <1>6 DEF Linked
  <2>. QED BY <1>4, <1>6, <2>1 DEF Linked
<1>7. BackLinked' /\ LinkedOnly' /\ Acyclic'
  <2>1. BackLinked'
    BY <1>1, <1>6 DEF ListInv, ShapeInv, BackLinked
  <2>2. LinkedOnly'
    BY <1>1, <1>6 DEF ListInv, ShapeInv, LinkedOnly
  <2>3. Acyclic'
    BY <1>1 DEF ListInv, ShapeInv, Acyclic, Ranking
  <2>. QED BY <2>1, <2>2, <2>3
<1>8. WalkInv'
  <2>1. Walking' => Walking
    BY <1>1, <1>2, <1>4 DEF Walking, Threads
  <2>. QED BY <1>1, <1>6, <2>1 DEF ListInv, WalkInv
<1>9. \A u \in Threads : pc[u] \in Publishing => doing[u] # m
  BY <1>1 DEF ListInv, PublishInv
<1>10. PublishInv'
  <2>1. \A u \in Threads : pc'[u] \in Publishing =>
            doing'[u] \in Msgs /\ entry'[doing'[u]] # NoEntry
    BY <1>3, <1>4, <1>9 DEF ListInv, PublishInv
  <2>2. \A u, v \in Threads :
            pc'[u] \in Publishing /\ pc'[v] \in Publishing /\ doing'[u] = doing'[v] => u = v
    BY <1>4, <1>9 DEF ListInv, PublishInv
  <2>3. report[m] = "none"
    BY <1>1 DEF ListInv, PublishInv
  <2>4. \A u \in Threads : pc'[u] \in {"sent", "linking"} => report'[doing'[u]] = "none"
    BY <1>1, <1>4, <2>3 DEF ListInv, PublishInv
  <2>5. \A n \in Msgs : entry'[n] = NoEntry => report'[n] = "none"
    BY <1>1, <1>3 DEF ListInv, PublishInv
  <2>6. ASSUME NEW n \in Msgs, entry'[n].sync, report'[n] = "none"
        PROVE  \E u \in Threads : pc'[u] \in Publishing /\ doing'[u] = n
    <3>1. CASE n = m
      BY <1>4, <3>1 DEF Publishing
    <3>2. CASE n # m
      <4>1. PICK u \in Threads : pc[u] \in Publishing /\ doing[u] = n
        BY <1>1, <1>3, <2>6, <3>2 DEF ListInv, PublishInv
      <4>. QED BY <1>4, <4>1
    <3>. QED BY <3>1, <3>2
  <2>. QED BY <2>1, <2>2, <2>4, <2>5, <2>6 DEF PublishInv
<1>. QED BY <1>7, <1>8, <1>10 DEF ListInv, ShapeInv

\* The tail that is read has been linked.
LEMMA ListReadTail ==
    ASSUME ListInv, AckInv', NEW t \in Threads, ReadTail(t)
    PROVE  ListInv'
<1>1. /\ pc[t] = "sent" /\ pc' = [pc EXCEPT ![t] = "linking"]
      /\ tail' = [tail EXCEPT ![t] = prev[Anchor]]
      /\ UNCHANGED <<next, prev, entry, report, doing, ret, at>>
  BY DEF ReadTail, Goto, listVars, msgVars, readVars
<1>2. pc \in [Threads -> Places] /\ tail \in [Threads -> Nodes]
  BY DEF ListInv, AckInv, MTypeOK
<1>3. \A u \in Threads : /\ pc'[u] \in Publishing <=> pc[u] \in Publishing
                         /\ pc'[u] \in {"sent", "linking"} <=> pc[u] \in {"sent", "linking"}
  BY <1>1, <1>2 DEF Publishing
<1>4. \A x : Linked(x)' <=> Linked(x)
  BY <1>1, <1>3 DEF Linked
<1>5. BackLinked'
  BY <1>1, <1>4 DEF ListInv, ShapeInv, BackLinked
<1>6. LinkedOnly'
  <2>1. \A u \in Threads : tail'[u] = tail[u] \/ tail'[u] = prev[Anchor]
    BY <1>1, <1>2
  <2>2. \A u \in Threads : tail'[u] # Anchor => Linked(tail'[u])
    BY <2>1, Nodal DEF ListInv, ShapeInv, LinkedOnly
  <2>. QED BY <1>1, <1>4, <2>2 DEF ListInv, ShapeInv, LinkedOnly
<1>7. Acyclic'
  BY <1>1 DEF ListInv, ShapeInv, Acyclic, Ranking
<1>8. WalkInv'
  <2>1. Walking' => Walking
    BY <1>1, <1>2 DEF Walking, Threads
  <2>. QED BY <1>1, <1>4, <2>1 DEF ListInv, WalkInv
<1>9. PublishInv'
  BY <1>1, <1>3 DEF ListInv, PublishInv
<1>. QED BY <1>5, <1>6, <1>7, <1>8, <1>9 DEF ListInv, ShapeInv

\* A message is linked once, and its publisher waits if it is synchronous.
LEMMA ListLink ==
    ASSUME ListInv, AckInv', NEW t \in Threads, LinkEntry(t)
    PROVE  ListInv'
<1>. PICK m, last : m = doing[t] /\ last = tail[t]
  OBVIOUS
<1>1. /\ pc[t] = "linking"
      /\ pc' = [pc EXCEPT ![t] = IF entry[m].sync THEN "waiting" ELSE "lua"]
      /\ Insert(m, last)
      /\ tail' = [tail EXCEPT ![t] = Anchor]
      /\ doing' = IF entry[m].sync THEN doing ELSE [doing EXCEPT ![t] = Anchor]
      /\ UNCHANGED <<entry, report, ret, at>>
  BY DEF LinkEntry, Goto, msgVars, readVars
<1>2. /\ pc \in [Threads -> Places] /\ tail \in [Threads -> Nodes]
      /\ doing \in [Threads -> Nodes] /\ last \in Nodes /\ MTypeOK
  BY DEF ListInv, AckInv, MTypeOK
<1>3. /\ m \in Msgs /\ entry[m] # NoEntry /\ report[m] = "none" /\ ~ Linked(m)
  BY <1>1 DEF ListInv, PublishInv, Publishing, Linked
<1>4. \A u \in Threads : u # t => pc'[u] = pc[u] /\ doing'[u] = doing[u]
  BY <1>1, <1>2
<1>5. pc'[t] = (IF entry[m].sync THEN "waiting" ELSE "lua") /\ pc[t] \in Publishing
  BY <1>1, <1>2 DEF Publishing
<1>6. \A x : Linked(x) => Linked(x)'
  BY <1>1, <1>4, <1>5 DEF Linked
<1>7. Linked(m)'
  <2>1. \A u \in Threads : pc[u] \in Publishing /\ u # t => doing[u] # m
    BY <1>5 DEF ListInv, PublishInv
  <2>. QED BY <1>1, <1>3, <1>4, <1>5, <2>1 DEF Linked, Publishing
<1>8. ShapeInv'
  <2>1. last # Anchor => Linked(last)
    BY DEF ListInv, ShapeInv, LinkedOnly
  <2>2. \A u \in Threads : tail'[u] # Anchor => tail'[u] = tail[u]
    BY <1>1, <1>2
  <2>3. ShapeInv /\ \A x \in Nodes : Linked(x) => Linked(x)'
    BY <1>6 DEF ListInv
  <2>. QED BY <1>1, <1>2, <1>3, <1>7, <2>1, <2>2, <2>3, InsertShape
<1>9. WalkInv'
  <2>1. Walking' => Walking
    BY <1>1, <1>2 DEF Walking, Threads
  <2>. QED BY <1>1, <1>6, <2>1 DEF ListInv, WalkInv
<1>10. PublishInv'
  <2>1. \A u \in Threads : pc'[u] \in Publishing => pc[u] \in Publishing /\ doing'[u] = doing[u]
    BY <1>1, <1>4, <1>5 DEF Publishing
  <2>2. \A u \in Threads : pc'[u] \in {"sent", "linking"} => pc[u] \in {"sent", "linking"}
                                                             /\ doing'[u] = doing[u]
    BY <1>4, <1>5
  <2>3. ASSUME NEW n \in Msgs, entry'[n].sync, report'[n] = "none"
        PROVE  \E u \in Threads : pc'[u] \in Publishing /\ doing'[u] = n
    <3>1. PICK u \in Threads : pc[u] \in Publishing /\ doing[u] = n
      BY <1>1, <2>3 DEF ListInv, PublishInv
    <3>2. CASE u = t
      BY <1>1, <1>5, <2>3, <3>1, <3>2 DEF Publishing
    <3>3. CASE u # t
      BY <1>4, <3>1, <3>3
    <3>. QED BY <3>2, <3>3
  <2>. QED BY <1>1, <2>1, <2>2, <2>3 DEF ListInv, PublishInv
<1>. QED BY <1>8, <1>9, <1>10 DEF ListInv

\* A publisher returns once its message is reported.
LEMMA ListReturn ==
    ASSUME ListInv, AckInv', NEW t \in Threads, PublishReturns(t)
    PROVE  ListInv'
<1>1. /\ pc[t] = "waiting" /\ pc' = [pc EXCEPT ![t] = "lua"]
      /\ report[doing[t]] # "none"
      /\ doing' = [doing EXCEPT ![t] = Anchor]
      /\ UNCHANGED <<next, prev, entry, report, tail, ret, at>>
  BY DEF PublishReturns, Goto, Awake, listVars, msgVars, readVars
<1>2. pc \in [Threads -> Places] /\ doing \in [Threads -> Nodes]
  BY DEF ListInv, AckInv, MTypeOK
<1>3. pc'[t] = "lua" /\ \A u \in Threads : u # t => pc'[u] = pc[u] /\ doing'[u] = doing[u]
  BY <1>1, <1>2
<1>4. \A x : Linked(x)' <=> Linked(x)
  BY <1>1, <1>3 DEF Linked
<1>5. BackLinked'
  BY <1>1, <1>4 DEF ListInv, ShapeInv, BackLinked
<1>6. LinkedOnly'
  BY <1>1, <1>4 DEF ListInv, ShapeInv, LinkedOnly
<1>7. Acyclic'
  BY <1>1 DEF ListInv, ShapeInv, Acyclic, Ranking
<1>8. WalkInv'
  <2>1. Walking' => Walking
    BY <1>1, <1>2 DEF Walking, Threads
  <2>. QED BY <1>1, <1>4, <2>1 DEF ListInv, WalkInv
<1>9. PublishInv'
  <2>1. \A u \in Threads : pc'[u] \in Publishing => pc[u] \in Publishing /\ doing'[u] = doing[u]
    BY <1>3 DEF Publishing
  <2>2. \A u \in Threads : pc'[u] \in {"sent", "linking"} => pc[u] \in {"sent", "linking"}
                                                             /\ doing'[u] = doing[u]
    BY <1>3
  <2>3. ASSUME NEW n \in Msgs, entry'[n].sync, report'[n] = "none"
        PROVE  \E u \in Threads : pc'[u] \in Publishing /\ doing'[u] = n
    <3>1. PICK u \in Threads : pc[u] \in Publishing /\ doing[u] = n
      BY <1>1, <2>3 DEF ListInv, PublishInv
    <3>. QED BY <1>1, <1>3, <2>3, <3>1
  <2>. QED BY <1>1, <2>1, <2>2, <2>3 DEF ListInv, PublishInv
<1>. QED BY <1>5, <1>6, <1>7, <1>8, <1>9 DEF ListInv, ShapeInv

\* Reporting a message that is not freed and taking it out of the list.
LEMMA ListComplete ==
    ASSUME ListInv, AckInv', NEW m \in Msgs, NEW r \in {"ok", "timeout"}, Complete(m, r),
           Linked(m), report[m] = "none",
           UNCHANGED <<doing, tail>>,
           \A t \in Threads : pc'[t] = pc[t] \/ (pc[t] \notin Publishing /\ pc'[t] \notin Publishing),
           Walking' => at' = next[m]
    PROVE  ListInv'
<1>1. \A t \in Threads : /\ pc'[t] \in Publishing <=> pc[t] \in Publishing
                         /\ pc'[t] \in {"sent", "linking"} <=> pc[t] \in {"sent", "linking"}
  BY DEF Publishing
<1>2. /\ report' = [report EXCEPT ![m] = r] /\ UNCHANGED entry
      /\ report \in [Msgs -> {"none", "ok", "timeout"}] /\ MTypeOK
  BY DEF Complete, ListInv, AckInv, MTypeOK
<1>3. \A x : Linked(x)' <=> Linked(x)
  BY <1>1, <1>2 DEF Linked
<1>4. ShapeInv' /\ next[m] # m
  BY <1>2, <1>3, DeleteShape DEF ListInv
<1>5. WalkInv'
  <2>0. PICK n : n = next[m]
    OBVIOUS
  <2>1. n # Anchor => Linked(n) /\ report[n] = "none" /\ n # m
    BY <1>4, <2>0, Nodal DEF ListInv, ShapeInv, BackLinked
  <2>2. n # Anchor => Linked(n)' /\ report'[n] = "none"
    BY <1>2, <1>3, <2>1
  <2>. QED BY <2>0, <2>2 DEF WalkInv
<1>6. PublishInv'
  <2>1. \A t \in Threads : pc[t] \in {"sent", "linking"} => doing[t] # m
    BY DEF Linked
  <2>. QED BY <1>1, <1>2, <2>1 DEF ListInv, PublishInv, Linked
<1>. QED BY <1>4, <1>5, <1>6 DEF ListInv

\* Induction over the naturals, for a set of them.  It rests on the pigeonhole
\* principle: below a missing natural, n |-> n + 1 would map a finite
\* set with 0 into the same set without 0.
LEMMA SetInduction ==
    ASSUME NEW S, 0 \in S, \A n \in Nat : n \in S => n + 1 \in S
    PROVE  \A n \in Nat : n \in S
<1>. SUFFICES ASSUME NEW N \in Nat, N \notin S PROVE FALSE
  OBVIOUS
<1>. DEFINE A == {n \in 0 .. N : n \in S}  B == A \ {0}  f == [n \in A |-> n + 1]
<1>1. IsFiniteSet(A) /\ 0 \in A
  <2>1. IsFiniteSet(0 .. N)
    BY FS_Interval
  <2>. QED BY <2>1, FS_Subset
<1>2. IsFiniteSet(B) /\ Cardinality(B) = Cardinality(A) - 1 /\ Cardinality(A) \in Nat
  BY <1>1, FS_RemoveElement, FS_CardinalityType
<1>3. f \in [A -> B]
  <2>. SUFFICES ASSUME NEW n \in A PROVE n + 1 \in B
    OBVIOUS
  <2>1. n \in Nat /\ n \in S /\ n <= N /\ n + 1 \in S
    OBVIOUS
  <2>2. n # N
    BY <2>1
  <2>. QED BY <2>1, <2>2
<1>4. Cardinality(B) < Cardinality(A)
  BY <1>2
<1>. HIDE DEF A, B, f
<1>5. \E x, y \in A : x # y /\ f[x] = f[y]
  BY <1>1, <1>2, <1>3, <1>4, FS_PigeonHole
<1>6. PICK x \in A, y \in A : x # y /\ f[x] = f[y]
  BY <1>5
<1>7. x \in Nat /\ y \in Nat
  BY DEF A
<1>8. x + 1 = y + 1
  BY <1>6 DEF f
<1>. QED BY <1>6, <1>7, <1>8

\* Chain is a walk along next.
LEMMA WalkExists ==
    ASSUME NEW c \in Nat
    PROVE  \E node : node = [k \in 0 .. c |->
                        IF k = 0 THEN next[Anchor]
                        ELSE IF node[k - 1] = Anchor THEN Anchor ELSE next[node[k - 1]]]
<1>. DEFINE Rec(node, n) == node = [k \in 0 .. n |->
                IF k = 0 THEN next[Anchor]
                ELSE IF node[k - 1] = Anchor THEN Anchor ELSE next[node[k - 1]]]
            S == {n \in Nat : \E node : Rec(node, n)}
<1>1. 0 \in S
  <2>. DEFINE node == [k \in 0 .. 0 |-> next[Anchor]]
  <2>1. Rec(node, 0)
    OBVIOUS
  <2>. QED BY <2>1
<1>2. ASSUME NEW n \in Nat, n \in S PROVE n + 1 \in S
  <2>1. PICK node : Rec(node, n)
    BY <1>2
  <2>. DEFINE more == [k \in 0 .. n + 1 |->
                        IF k <= n THEN node[k] ELSE IF node[n] = Anchor THEN Anchor ELSE next[node[n]]]
  <2>2. \A k \in 0 .. n :
            node[k] = IF k = 0 THEN next[Anchor] ELSE IF node[k - 1] = Anchor THEN Anchor ELSE next[node[k - 1]]
    BY <2>1
  <2>3. ASSUME NEW k \in 0 .. n + 1
        PROVE  more[k] = IF k = 0 THEN next[Anchor] ELSE IF more[k - 1] = Anchor THEN Anchor ELSE next[more[k - 1]]
    <3>1. CASE k = 0
      BY <2>2, <3>1
    <3>2. CASE k # 0 /\ k <= n
      <4>1. k - 1 \in 0 .. n + 1 /\ k - 1 <= n /\ k \in 0 .. n
        BY <3>2
      <4>2. more[k] = node[k] /\ more[k - 1] = node[k - 1]
        BY <3>2, <4>1
      <4>. QED BY <2>2, <3>2, <4>1, <4>2
    <3>3. CASE k = n + 1
      <4>1. k - 1 = n /\ k # 0 /\ ~ (k <= n) /\ n \in 0 .. n + 1
        BY <3>3
      <4>2. more[k] = (IF node[n] = Anchor THEN Anchor ELSE next[node[n]]) /\ more[k - 1] = node[n]
        BY <4>1
      <4>. QED BY <4>1, <4>2
    <3>. QED BY <3>1, <3>2, <3>3
  <2>4. Rec(more, n + 1)
    BY <2>3
  <2>. HIDE DEF more, Rec
  <2>. QED BY <2>4
<1>. HIDE DEF S
<1>3. c \in S
  BY <1>1, <1>2, SetInduction
<1>. QED BY <1>3 DEF S

\* A link leads to whatever is met on a walk along the list.
LEMMA ListedIsLinkedTo ==
    ASSUME MTypeOK
    PROVE  \A k \in 0 .. Cardinality(Msgs) :
                Chain[k] = Anchor \/ \E x \in Nodes : next[x] = Chain[k]
<1>. DEFINE c == Cardinality(Msgs)  node == Chain
            S == {k \in Nat : k <= c => node[k] = Anchor \/ \E x \in Nodes : next[x] = node[k]}
<1>1. c \in Nat
  BY MqttAssumption, FS_CardinalityType
<1>2. node = [k \in 0 .. c |->
                IF k = 0 THEN next[Anchor]
                ELSE IF node[k - 1] = Anchor THEN Anchor ELSE next[node[k - 1]]]
  <2>. HIDE DEF c
  <2>. QED BY <1>1, WalkExists DEF Chain, c
<1>. HIDE DEF c, node
<1>3. 0 \in S
  <2>1. node[0] = next[Anchor]
    BY <1>1, <1>2
  <2>. QED BY <2>1, Nodal
<1>4. ASSUME NEW k \in Nat, k \in S PROVE k + 1 \in S
  <2>. SUFFICES ASSUME k + 1 <= c
                PROVE  node[k + 1] = Anchor \/ \E x \in Nodes : next[x] = node[k + 1]
    OBVIOUS
  <2>1. k + 1 \in 0 .. c /\ k + 1 # 0 /\ (k + 1) - 1 = k /\ k <= c
    BY <1>1
  <2>2. node[k + 1] = IF node[k] = Anchor THEN Anchor ELSE next[node[k]]
    BY <1>2, <2>1
  <2>3. node[k] = Anchor \/ node[k] \in Nodes
    <3>1. next \in [Nodes -> Nodes]
      BY DEF MTypeOK
    <3>. QED BY <1>4, <2>1, <3>1
  <2>. QED BY <2>2, <2>3
<1>5. \A k \in Nat : k \in S
  <2>. HIDE DEF S
  <2>. QED BY <1>3, <1>4, SetInduction
<1>6. \A k \in 0 .. c : node[k] = Anchor \/ \E x \in Nodes : next[x] = node[k]
  BY <1>1, <1>5
<1>. QED BY <1>6 DEF c, node

\* What is in the list has been linked and is not freed.
LEMMA ListedIsLive ==
    ASSUME ListInv
    PROVE  \A m \in Listed : Linked(m) /\ report[m] = "none"
<1>1. MTypeOK
  BY DEF ListInv, AckInv
<1>2. \A m \in Listed : \E x \in Nodes : next[x] = m /\ m # Anchor
  BY <1>1, ListedIsLinkedTo DEF Listed
<1>. QED BY <1>2 DEF ListInv, ShapeInv, BackLinked

\* A step of the client thread: it takes out messages that are not freed.
LEMMA ListClient ==
    ASSUME ListInv, AckInv', ClientStep
    PROVE  ListInv'
<1>. USE DEF clientVars, listVars, msgVars, callVars, readVars, netVars
<1>0. pc \in [Threads -> Places] /\ at \in Nodes /\ MTypeOK
  BY DEF ListInv, AckInv, MTypeOK
<1>1. CASE SetInited
  BY <1>0, <1>1, ListQuiet DEF SetInited, Goto, Publishing, Walking, Threads
<1>2. ASSUME NEW from \in {"inited", "made", "dialed"}, NEW s, Store(from, s)
      PROVE  ListInv'
  BY <1>0, <1>2, ListQuiet DEF Store, Goto, Publishing, Walking, Threads
<1>3. CASE CustomInit
  BY <1>0, <1>3, ListQuiet DEF CustomInit, Goto, InState, Publishing, Walking, Threads
<1>4. CASE CheckNetwork
  BY <1>0, <1>4, ListQuiet DEF CheckNetwork, Goto, InState, Publishing, Walking, Threads
<1>5. ASSUME NEW from \in {"dialing", "loop"}, NEW r \in {"dialed", "loop"}, ConnectAt(from, r)
      PROVE  ListInv'
  BY <1>0, <1>5, ListQuiet DEF ConnectAt, Callback, Goto, Publishing, Walking, Threads
<1>6. CASE DialFails
  BY <1>0, <1>6, ListQuiet DEF DialFails, Goto, Publishing, Walking, Threads
<1>7. CASE BeginScan
  <2>1. /\ pc["client"] = "loop" /\ pc' = [pc EXCEPT !["client"] = "scan"]
        /\ at' = next[Anchor]
        /\ UNCHANGED <<next, prev, entry, report, doing, tail>>
    BY <1>7 DEF BeginScan, Goto, InState
  <2>2. \A t \in Threads : /\ pc'[t] \in Publishing <=> pc[t] \in Publishing
                           /\ pc'[t] \in {"sent", "linking"} <=> pc[t] \in {"sent", "linking"}
    BY <1>0, <2>1 DEF Publishing, Threads
  <2>3. \A x : Linked(x)' <=> Linked(x)
    BY <2>1, <2>2 DEF Linked
  <2>4. BackLinked'
    BY <2>1, <2>3 DEF ListInv, ShapeInv, BackLinked
  <2>5. LinkedOnly'
    BY <2>1, <2>3 DEF ListInv, ShapeInv, LinkedOnly
  <2>6. Acyclic'
    BY <2>1 DEF ListInv, ShapeInv, Acyclic, Ranking
  <2>7. WalkInv'
    <3>1. PICK n : n = next[Anchor]
      OBVIOUS
    <3>2. n # Anchor => Linked(n) /\ report[n] = "none"
      BY <3>1, Nodal DEF ListInv, ShapeInv, BackLinked
    <3>. QED BY <2>1, <2>3, <3>1, <3>2 DEF WalkInv
  <2>8. PublishInv'
    BY <2>1, <2>2 DEF ListInv, PublishInv
  <2>. QED BY <2>4, <2>5, <2>6, <2>7, <2>8 DEF ListInv, ShapeInv
<1>8. CASE Expire
  <2>1. /\ pc["client"] = "scan" /\ at # Anchor /\ at \in Msgs
        /\ Complete(at, "timeout") /\ at' = next[at]
        /\ \E to \in {"scan", "lua"} : pc' = [pc EXCEPT !["client"] = to]
        /\ UNCHANGED <<doing, tail>>
    BY <1>0, <1>8, Nodal DEF Expire, ReportBack, Callback, Goto
  <2>2. Linked(at) /\ report[at] = "none"
    BY <2>1 DEF ListInv, WalkInv, Walking
  <2>3. \A t \in Threads :
            pc'[t] = pc[t] \/ (pc[t] \notin Publishing /\ pc'[t] \notin Publishing)
    BY <1>0, <2>1 DEF Publishing, Threads
  <2>. QED BY <2>1, <2>2, <2>3, ListComplete
<1>9. CASE KeepWaiting
  <2>1. /\ pc["client"] = "scan" /\ at # Anchor /\ at' = next[at]
        /\ UNCHANGED <<next, prev, entry, report, doing, tail, pc>>
    BY <1>9 DEF KeepWaiting, NextAfter
  <2>2. \A x : Linked(x)' <=> Linked(x)
    BY <2>1 DEF Linked
  <2>3. BackLinked' /\ Acyclic' /\ PublishInv'
    BY <2>1, <2>2 DEF ListInv, ShapeInv, BackLinked, Acyclic, Ranking, PublishInv
  <2>4. LinkedOnly'
    BY <2>1, <2>2 DEF ListInv, ShapeInv, LinkedOnly
  <2>5. WalkInv'
    <3>1. PICK n : n = next[at]
      OBVIOUS
    <3>2. n # Anchor => Linked(n) /\ report[n] = "none"
      BY <1>0, <3>1, Nodal DEF ListInv, ShapeInv, BackLinked
    <3>. QED BY <2>1, <2>2, <3>1, <3>2 DEF WalkInv
  <2>. QED BY <2>3, <2>4, <2>5 DEF ListInv, ShapeInv
<1>10. CASE EndScan
  BY <1>0, <1>10, ListQuiet DEF EndScan, Goto, Publishing, Walking, Threads
<1>11. CASE NothingToRead
  BY <1>0, <1>11, ListQuiet DEF NothingToRead, Goto, Publishing, Walking, Threads
<1>12. CASE MessageArrives
  BY <1>0, <1>12, ListQuiet DEF MessageArrives, Callback, Goto, Publishing, Walking, Threads
<1>13. CASE ReadAck
  BY <1>0, <1>13, ListQuiet DEF ReadAck, Callback, Goto, Publishing, Walking, Threads
<1>14. CASE ProcRecvAck
  <2>1. CASE UNCHANGED <<listVars, msgVars, ret>> /\ Goto("client", "acking", "loop")
    BY <1>0, <1>14, <2>1, ListQuiet DEF ProcRecvAck, Goto, Publishing, Walking, Threads
  <2>2. ASSUME NEW m \in Msgs, IsFirst(m, got.id), Complete(m, "ok"),
               ReportBack(m, "acking", "loop")
        PROVE  ListInv'
    <3>1. /\ pc["client"] = "acking"
          /\ \/ pc' = [pc EXCEPT !["client"] = "loop"]
             \/ pc' = [pc EXCEPT !["client"] = "lua"] /\ ret' = "loop"
          /\ UNCHANGED <<doing, tail>>
      BY <1>14, <2>2 DEF ProcRecvAck, ReportBack, Callback, Goto
    <3>2. Linked(m) /\ report[m] = "none"
      <4>1. m \in Listed
        BY <2>2, Nodal DEF IsFirst, Listed
      <4>. QED BY <4>1, ListedIsLive
    <3>3. \A t \in Threads :
              pc'[t] = pc[t] \/ (pc[t] \notin Publishing /\ pc'[t] \notin Publishing)
      BY <1>0, <3>1 DEF Publishing, Threads
    <3>4. ~ Walking'
      BY <1>0, <3>1 DEF Walking, Threads
    <3>. QED BY <2>2, <3>1, <3>2, <3>3, <3>4, ListComplete
  <2>. QED BY <1>14, <2>1, <2>2 DEF ProcRecvAck
<1>15. CASE ProcSuback
  BY <1>0, <1>15, ListQuiet DEF ProcSuback, Goto, Publishing, Walking, Threads
<1>16. CASE Disconnected
  BY <1>0, <1>16, ListQuiet DEF Disconnected, Callback, Goto, Publishing, Walking, Threads
<1>17. CASE Stop
  BY <1>0, <1>17, ListQuiet DEF Stop, InState, Goto, Publishing, Walking, Threads
<1>. QED
  BY <1>1, <1>2, <1>3, <1>4, <1>5, <1>6, <1>7, <1>8, <1>9, <1>10, <1>11, <1>12, <1>13,
     <1>14, <1>15, <1>16, <1>17
  DEF ClientStep, Yield, SetIdle, SetConnect, SetComplete, Dial, Reconnect

\* Every step keeps the invariant of the list.
LEMMA StepList == ListInv /\ [Next]_vars => ListInv'
<1>. SUFFICES ASSUME ListInv, [Next]_vars PROVE ListInv'
  OBVIOUS
<1>. USE DEF clientVars, listVars, msgVars, callVars, readVars, netVars
<1>0. AckInv' /\ pc \in [Threads -> Places] /\ ret \in {"loop", "dialed", "scan", "acking"}
  BY StepAck DEF ListInv, AckInv, MTypeOK
<1>1. ASSUME NEW t \in Threads, ScriptCall(t) \/ InCall(t) PROVE ListInv'
  <2>1. ASSUME NEW m \in Msgs, NEW sync \in BOOLEAN, NEW timeout \in Timeouts,
               Publish(t, m, sync, timeout)
        PROVE  ListInv'
    BY <1>0, <2>1, ListPublish
  <2>2. ASSUME NEW kind, Subscribe(t, kind) PROVE ListInv'
    BY <1>0, <2>2, ListQuiet DEF Subscribe, Walking
  <2>3. CASE OnSuback(t)
    BY <1>0, <2>3, ListQuiet DEF OnSuback, Walking
  <2>4. CASE Connect(t)
    BY <1>0, <2>4, ListQuiet DEF Connect, MayCall, Walking, Publishing, Threads
  <2>5. CASE ReadTail(t)
    BY <1>0, <2>5, ListReadTail
  <2>6. CASE LinkEntry(t)
    BY <1>0, <2>6, ListLink
  <2>7. CASE PublishReturns(t)
    BY <1>0, <2>7, ListReturn
  <2>8. CASE RequestInit(t)
    BY <1>0, <2>8, ListQuiet DEF RequestInit, Goto, Walking, Publishing, Threads
  <2>. QED BY <1>1, <2>1, <2>2, <2>3, <2>4, <2>5, <2>6, <2>7, <2>8 DEF ScriptCall, InCall
<1>2. CASE Collect
  BY <1>0, <1>2, ListQuiet DEF Collect, Goto, Walking, Publishing, Threads
<1>3. CASE ClientStep
  BY <1>0, <1>3, ListClient
<1>4. CASE CallbackReturns
  BY <1>0, <1>4, ListQuiet DEF CallbackReturns, Goto, Walking, Publishing, Threads
<1>5. CASE Environment
  BY <1>0, <1>5, ListQuiet DEF Environment, Acknowledge, Break, LinkChanges, Tick, Walking
<1>6. CASE UNCHANGED vars
  BY <1>0, <1>6, ListQuiet DEF vars, Walking
<1>. QED BY <1>1, <1>2, <1>3, <1>4, <1>5, <1>6 DEF Next

\* The invariant of the list holds in every state.
LEMMA ListInvCorrect == Spec => []ListInv
BY InitList, StepList, PTL DEF Spec

\* No walk of the client thread meets a freed message, however the insertions of
\* two threads race with each other and with removals.
THEOREM NoneFreedReached == Spec => []NoFreedEntryReached
<1>1. ListInv => NoFreedEntryReached
  BY ListedIsLive DEF NoFreedEntryReached, ListInv, WalkInv, Linked
<1>. QED BY <1>1, ListInvCorrect, PTL

\* The publisher of a synchronous message that can still be reported still waits
\* for it: no semaphore is posted after its publish has returned.
THEOREM WaitersStay == Spec => []NoStaleWaiter
<1>1. ListInv => NoStaleWaiter
  <2>. SUFFICES ASSUME ListInv, NEW m \in Msgs, entry[m].sync,
                       m \in Listed \/ (Walking /\ at = m)
                PROVE  \E t \in Threads : pc[t] = "waiting" /\ doing[t] = m
    BY DEF NoStaleWaiter
  <2>1. Linked(m) /\ report[m] = "none"
    BY ListedIsLive, Nodal DEF ListInv, WalkInv
  <2>2. PICK t \in Threads : pc[t] \in Publishing /\ doing[t] = m
    BY <2>1 DEF ListInv, PublishInv
  <2>. QED BY <2>1, <2>2 DEF Linked, Publishing
<1>. QED BY <1>1, ListInvCorrect, PTL
-----------------------------------------------------------------------------
(* The promise of Delivery *)

Sent == {m \in Msgs : entry[m] # NoEntry}
Settled == acked \cup {m \in Msgs : entry[m] # NoEntry /\ entry[m].handler < handler}

\* A step that neither sends, settles nor reports a message.
LEMMA Stutters ==
    ASSUME UNCHANGED <<entry, report, acked, handler>>
    PROVE  UNCHANGED Promise!vars
BY DEF Promise!vars

\* Messages that were sent become settled.
LEMMA Settles ==
    ASSUME UNCHANGED <<entry, report>>,
           Settled \subseteq Settled', Settled' \subseteq Settled \cup Sent
    PROVE  Promise!Next
<1>. DEFINE S == Settled' \cap Sent
<1>1. S \in SUBSET Sent /\ Settled' = Settled \cup S
  OBVIOUS
<1>2. Promise!Settle
  BY <1>1 DEF Promise!Settle, Settled, Sent
<1>. QED BY <1>2 DEF Promise!Next

\* A message that is linked and not freed is reported, as delivered only if it is settled.
LEMMA Reports ==
    ASSUME ListInv, AckInv', UNCHANGED <<entry, acked, handler>>,
           NEW m \in Msgs, NEW r \in {"ok", "timeout"}, Linked(m), report[m] = "none",
           report' = [report EXCEPT ![m] = r]
    PROVE  Promise!Next
<1>1. m \in Sent
  BY DEF Linked, Sent
<1>2. r = "ok" => m \in Settled
  <2>1. report'[m] = r
    BY DEF ListInv, AckInv, MTypeOK
  <2>. QED BY <1>1, <2>1 DEF AckInv, OkMeansAcked, Settled, Sent
<1>3. Promise!Report(m, r)
  BY <1>1, <1>2 DEF Promise!Report, Sent, Settled
<1>. QED BY <1>3 DEF Promise!Next, Promise!Outcomes

\* A new message is sent.
LEMMA Sends ==
    ASSUME AckInv, NEW t \in Threads, NEW m \in Msgs, NEW sync \in BOOLEAN,
           NEW timeout \in Timeouts, Publish(t, m, sync, timeout)
    PROVE  Promise!Next
<1>. DEFINE new == [id |-> nextId, handler |-> handler, sync |-> sync,
                    deadline |-> IF now + timeout = 0 THEN Default ELSE timeout]
<1>1. /\ entry[m] = NoEntry /\ entry' = [entry EXCEPT ![m] = new]
      /\ UNCHANGED <<report, acked, handler>>
  BY DEF Publish, clientVars
<1>2. nextId \in Nat /\ nextId >= 1 /\ handler \in Nat
  BY Typed DEF AckInv
<1>3. /\ entry'[m] = new /\ \A n \in Msgs : n # m => entry'[n] = entry[n]
      /\ new # NoEntry /\ new.handler = handler
  BY <1>1, <1>2 DEF AckInv, MTypeOK, NoEntry
<1>. HIDE DEF new
<1>4. m \notin Sent /\ Sent' = Sent \cup {m}
  BY <1>1, <1>3 DEF Sent
<1>5. Settled' = Settled
  BY <1>1, <1>2, <1>3 DEF Settled
<1>6. Promise!Send(m)
  BY <1>1, <1>4, <1>5 DEF Promise!Send, Sent, Settled
<1>. QED BY <1>6 DEF Promise!Next

\* A step of the client thread reports at most one message, a live one.
LEMMA ClientKeepsPromise ==
    ASSUME ListInv, AckInv', ClientStep
    PROVE  Promise!Next \/ UNCHANGED Promise!vars
<1>. USE DEF clientVars, listVars, msgVars, callVars, readVars, netVars
<1>0. handler \in Nat /\ \A m \in Msgs : entry[m].handler \in Nat
  BY Typed DEF ListInv, AckInv
<1>1. CASE CustomInit
  <2>1. handler' = handler + 1 /\ UNCHANGED <<entry, report, acked>>
    BY <1>1 DEF CustomInit
  <2>2. Settled \subseteq Settled' /\ Settled' \subseteq Settled \cup Sent
    BY <1>0, <2>1 DEF Settled, Sent
  <2>. QED BY <2>1, <2>2, Settles
<1>2. CASE Expire
  <2>1. /\ Complete(at, "timeout") /\ at \in Msgs /\ pc["client"] = "scan" /\ at # Anchor
        /\ UNCHANGED <<acked, handler>>
    BY <1>2, Nodal DEF Expire, ReportBack, Callback, Goto, ListInv, AckInv, MTypeOK
  <2>2. Linked(at) /\ report[at] = "none"
    BY <2>1 DEF ListInv, WalkInv, Walking
  <2>. QED BY <2>1, <2>2, Reports DEF Complete
<1>3. CASE ProcRecvAck
  <2>1. CASE UNCHANGED msgVars
    BY <1>3, <2>1, Stutters DEF ProcRecvAck
  <2>2. ASSUME NEW m \in Msgs, IsFirst(m, got.id), Complete(m, "ok")
        PROVE  Promise!Next
    <3>1. m \in Listed
      BY <2>2, Nodal DEF IsFirst, Listed
    <3>2. Linked(m) /\ report[m] = "none"
      BY <3>1, ListedIsLive
    <3>. QED BY <1>3, <2>2, <3>2, Reports DEF ProcRecvAck, Complete
  <2>. QED BY <1>3, <2>1, <2>2 DEF ProcRecvAck
<1>4. ASSUME ~ (CustomInit \/ Expire \/ ProcRecvAck) PROVE UNCHANGED Promise!vars
  <2>1. UNCHANGED <<entry, report, acked, handler>>
    BY <1>4 DEF ClientStep, Yield, SetInited, SetIdle, SetConnect, SetComplete, Store,
        CheckNetwork, Dial, Reconnect, ConnectAt, DialFails, BeginScan, KeepWaiting, EndScan,
        NothingToRead, MessageArrives, ReadAck, ProcSuback, Disconnected, Stop
  <2>. QED BY <2>1, Stutters
<1>. QED BY <1>1, <1>2, <1>3, <1>4

\* Every step is a step of Delivery or none.
LEMMA StepKeepsPromise ==
    ListInv /\ [Next]_vars => [Promise!Next]_(Promise!vars)
<1>. SUFFICES ASSUME ListInv, [Next]_vars PROVE Promise!Next \/ UNCHANGED Promise!vars
  OBVIOUS
<1>. USE DEF clientVars, listVars, msgVars, callVars, readVars, netVars
<1>0. AckInv /\ AckInv'
  BY StepAck DEF ListInv
<1>1. ASSUME NEW t \in Threads, ScriptCall(t) \/ InCall(t)
      PROVE  Promise!Next \/ UNCHANGED Promise!vars
  <2>1. ASSUME NEW m \in Msgs, NEW sync \in BOOLEAN, NEW timeout \in Timeouts,
               Publish(t, m, sync, timeout)
        PROVE  Promise!Next
    BY <1>0, <2>1, Sends
  <2>2. CASE \/ \E kind \in {"sub", "unsub"} : Subscribe(t, kind)
             \/ OnSuback(t) \/ Connect(t) \/ InCall(t)
    <3>1. UNCHANGED <<entry, report, acked, handler>>
      BY <2>2 DEF Subscribe, OnSuback, Connect, InCall, ReadTail, LinkEntry, PublishReturns,
          RequestInit
    <3>. QED BY <3>1, Stutters
  <2>. QED BY <1>1, <2>1, <2>2 DEF ScriptCall
<1>2. CASE ClientStep
  BY <1>0, <1>2, ClientKeepsPromise
<1>3. CASE Acknowledge
  <2>1. PICK packet \in inFlight :
            acked' = IF packet.kind # "pub" THEN acked
                     ELSE acked \cup {m \in Msgs : /\ entry[m].id = packet.id
                                                   /\ entry[m].handler = handler}
    BY <1>3 DEF Acknowledge
  <2>2. UNCHANGED <<entry, report, handler>>
    BY <1>3 DEF Acknowledge
  <2>3. packet.id \in Nat /\ packet.id >= 1
    BY <1>0, Typed DEF AckInv, Numbered
  <2>4. \A m \in Msgs : entry[m].id = packet.id => m \in Sent
    BY <2>3 DEF Sent, NoEntry
  <2>5. Settled \subseteq Settled' /\ Settled' \subseteq Settled \cup Sent
    BY <2>1, <2>2, <2>4 DEF Settled
  <2>. QED BY <2>2, <2>5, Settles
<1>4. CASE Collect \/ CallbackReturns \/ Break \/ LinkChanges \/ Tick \/ UNCHANGED vars
  <2>1. UNCHANGED <<entry, report, acked, handler>>
    BY <1>4 DEF Collect, CallbackReturns, Break, LinkChanges, Tick, vars
  <2>. QED BY <2>1, Stutters
<1>. QED BY <1>1, <1>2, <1>3, <1>4 DEF Next, Environment

\* The client keeps the promise of Delivery: it reports a message at most once, and as
\* delivered only if the broker acknowledged it or a new handle has reused its number.
THEOREM DeliveryImplemented == Spec => ImplementsDelivery
<1>1. Init => Promise!Init
  <2>. SUFFICES ASSUME Init PROVE Promise!Init
    OBVIOUS
  <2>1. \A m \in Msgs : entry[m] = NoEntry
    BY DEF Init
  <2>. QED BY <2>1 DEF Init, Promise!Init
<1>. QED
  BY <1>1, ListInvCorrect, StepKeepsPromise, PTL DEF Spec, ImplementsDelivery, Promise!Spec
====
