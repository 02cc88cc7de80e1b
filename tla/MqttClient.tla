----------------------------- MODULE MqttClient -----------------------------
(***************************************************************************)
(* lua-mqttc (components/modules/lua-mqttc/src): an MQTT client object of  *)
(* a Lua script.  The script's thread publishes, subscribes, connects and  *)
(* drops the client; a thread per client connects, reads acknowledgements, *)
(* expires messages and calls the script back.  They share the fields of   *)
(* the client and the list of unacknowledged messages, without a lock.     *)
(*                                                                         *)
(* tuya_list and the MQTT library belong to the SDK and are modelled by    *)
(* how this code uses them: a circular list with a head, whose tail is     *)
(* read before the new entry is linked to it; a handle that numbers its    *)
(* packets from 1, loses what is in flight when the connection breaks, and *)
(* calls back from connect and yield only.                                 *)
(*                                                                         *)
(* A publish without acknowledgement that is not synchronous leaves no     *)
(* trace here and is left out; a synchronous one (which waits for an       *)
(* acknowledgement that never comes) behaves as one whose acknowledgement  *)
(* is lost.  A call that fails in the library changes nothing.             *)
(***************************************************************************)
EXTENDS Naturals, FiniteSets, Sequences

CONSTANTS
    Msgs,           \* messages; each is published at most once
    Timeouts,       \* values of the option timeout_ms
    Default,        \* MATOP_TIMEOUT_MS_DEFAULT
    MaxTime,        \* bound of the clock
    MaxHandlers,    \* bound of the number of library handles
    MaxPackets,     \* bound of the packet number of a subscription
    Calls,          \* the methods scripts call on the two threads
    Anchor          \* the head of the list of messages

ASSUME MqttAssumption ==
    /\ Anchor \notin Msgs
    /\ IsFiniteSet(Msgs)
    /\ Timeouts \subseteq Nat
    /\ Default \in Nat
    /\ MaxTime \in Nat
    /\ MaxHandlers \in Nat
    /\ MaxPackets \in Nat
    /\ Calls \in [{"script", "client"} ->
            SUBSET {"publish", "publish_sync", "subscribe", "unsubscribe", "on", "connect"}]

VARIABLES
    \* the client object
    state,          \* client->state
    inited,         \* client->inited
    connected,      \* client->connected
    handler,        \* client->mqtt_handler: 0 for NULL, else the how-manieth
    onSuback,       \* a "suback" callback is registered
    subs,           \* client->submsglist: the packets it holds
    \* client->pubmsglist and the messages
    next, prev,     \* the links of the list
    entry,          \* the custom_message_t of a message
    report,         \* the result a message was reported with
    \* the two threads
    pc,             \* where a thread is
    ret,            \* where the client thread goes on after Lua code
    doing,          \* the message a thread publishes
    tail,           \* the tail of the list a thread has read
    at,             \* n of the loop over the list in __mqtt_custom_loop
    got,            \* the packet whose acknowledgement is processed
    \* the library and the network
    link,           \* the network interface is up
    up,             \* the connection of the current handle is up
    nextId,         \* the next packet number of the current handle
    inFlight,       \* packets sent and not acknowledged
    acks,           \* acknowledgements to be read
    acked,          \* messages whose acknowledgement was sent
    now             \* tal_time_get_posix

clientVars == <<state, inited, connected, handler, onSuback>>
listVars == <<next, prev>>
msgVars == <<entry, report>>
callVars == <<doing, tail>>
readVars == <<at, got>>
netVars == <<link, up, nextId, inFlight, acks, acked>>
vars == <<clientVars, subs, listVars, msgVars, pc, ret, callVars, readVars,
          netVars, now>>

Threads == {"script", "client"}
States == {"UNSET", "IDLE", "INIT", "CONNECT", "COMPLETE", "STOP", "EXIT"}
NoEntry == [id |-> 0, handler |-> 0, sync |-> FALSE, deadline |-> 0]
NoPacket == [kind |-> "none", id |-> 0]
Packets == [kind : {"pub", "sub", "unsub"}, id : Nat]
Nodes == Msgs \cup {Anchor}

\* lua_mqttc_new, before the client thread runs.  The memset of sizeof(0)
\* bytes leaves the state unset.
Init ==
    /\ state = "UNSET"
    /\ inited = FALSE
    /\ connected = FALSE
    /\ handler = 0
    /\ onSuback = FALSE
    /\ subs = <<>>
    /\ next = [x \in Nodes |-> Anchor]
    /\ prev = [x \in Nodes |-> Anchor]
    /\ entry = [m \in Msgs |-> NoEntry]
    /\ report = [m \in Msgs |-> "none"]
    /\ pc = [t \in Threads |-> IF t = "script" THEN "lua" ELSE "start"]
    /\ ret = "loop"
    /\ doing = [t \in Threads |-> Anchor]
    /\ tail = [t \in Threads |-> Anchor]
    /\ at = Anchor
    /\ got = NoPacket
    /\ link = TRUE
    /\ up = FALSE
    /\ nextId = 1
    /\ inFlight = {}
    /\ acks = <<>>
    /\ acked = {}
    /\ now = 0
-----------------------------------------------------------------------------
(* Helpers *)

Goto(t, from, to) ==
    /\ pc[t] = from
    /\ pc' = [pc EXCEPT ![t] = to]

\* A thread in Lua code, of a script that still has the client, calls f.
MayCall(t, f) == pc[t] = "lua" /\ pc["script"] # "gone" /\ f \in Calls[t]

\* The client thread runs a Lua callback and goes on at r after it.
Callback(from, r) ==
    /\ Goto("client", from, "lua")
    /\ ret' = r

\* The entries in the order of a walk along next, Anchor after the last.
Chain ==
    LET node[k \in 0 .. Cardinality(Msgs)] ==
            IF k = 0 THEN next[Anchor]
            ELSE IF node[k - 1] = Anchor THEN Anchor ELSE next[node[k - 1]]
    IN node

Listed == {Chain[k] : k \in 0 .. Cardinality(Msgs)} \ {Anchor}

\* Variant with a fault: an acknowledgement is taken for the oldest message.
IsOldest(m, id) == Chain[0] = m

\* The first entry of the list with this packet number.
IsFirst(m, id) ==
    \E k \in 0 .. Cardinality(Msgs) :
        /\ Chain[k] = m
        /\ entry[m].id = id
        /\ \A j \in 0 .. (k - 1) : entry[Chain[j]].id # id

NoneHas(id) == \A m \in Listed : entry[m].id # id

Freed(x) == x \in Msgs /\ report[x] # "none"

\* tuya_list_add_tail, after the tail was read.  What is written to a freed
\* entry is not kept: nothing reads it.
Insert(m, last) ==
    /\ next' = IF Freed(last) THEN next ELSE [next EXCEPT ![last] = m]
    /\ prev' = [prev EXCEPT ![m] = last, ![Anchor] = m]

\* tuya_list_del; the entry is freed right after.
Delete(m) ==
    /\ next' = [next EXCEPT ![prev[m]] = next[m], ![m] = Anchor]
    /\ prev' = [prev EXCEPT ![next[m]] = prev[m], ![m] = Anchor]

\* Variant with a fault: the message is reported and stays in the list.
CompleteListed(m, r) ==
    /\ report' = [report EXCEPT ![m] = r]
    /\ UNCHANGED <<entry, listVars>>

\* A message leaves the list and its sync_cb is called.
Complete(m, r) ==
    /\ Delete(m)
    /\ report' = [report EXCEPT ![m] = r]
    /\ UNCHANGED entry

\* Variant with a fault: acknowledgements survive their connection.
LoseSends ==
    /\ up' = FALSE
    /\ inFlight' = {}
    /\ UNCHANGED acks

\* What the connection leaves behind when it breaks or is replaced.
LoseConnection ==
    /\ up' = FALSE
    /\ inFlight' = {}
    /\ acks' = <<>>
-----------------------------------------------------------------------------
(* Calls of the script, on either thread *)

\* c:publish: the packet is sent ...  The test of the connection and the send
\* are one step: a connection lost in between is one lost right after, with the
\* packet on its way or not.  The deadline is what the C expression
\* now + timeout_ms == 0 ? Default : timeout_ms says.
Publish(t, m, sync, timeout) ==
    /\ MayCall(t, IF sync THEN "publish_sync" ELSE "publish")
    /\ connected
    /\ entry[m] = NoEntry
    /\ pc' = [pc EXCEPT ![t] = "sent"]
    /\ doing' = [doing EXCEPT ![t] = m]
    /\ entry' = [entry EXCEPT ![m] =
                    [id |-> nextId, handler |-> handler, sync |-> sync,
                     deadline |-> IF now + timeout = 0 THEN Default ELSE timeout]]
    /\ nextId' = nextId + 1
    /\ inFlight' = IF up THEN inFlight \cup {[kind |-> "pub", id |-> nextId]}
                   ELSE inFlight
    /\ UNCHANGED <<clientVars, subs, listVars, report, ret, tail, readVars,
                   link, up, acks, acked, now>>

\* ... tuya_list_add_tail reads the tail ...
ReadTail(t) ==
    /\ Goto(t, "sent", "linking")
    /\ tail' = [tail EXCEPT ![t] = prev[Anchor]]
    /\ UNCHANGED <<clientVars, subs, listVars, msgVars, ret, doing, readVars,
                   netVars, now>>

\* ... and links the entry to it.  An asynchronous publish returns.
LinkEntry(t) ==
    /\ Goto(t, "linking", IF entry[doing[t]].sync THEN "waiting" ELSE "lua")
    /\ Insert(doing[t], tail[t])
    /\ tail' = [tail EXCEPT ![t] = Anchor]
    /\ doing' = IF entry[doing[t]].sync THEN doing ELSE [doing EXCEPT ![t] = Anchor]
    /\ UNCHANGED <<clientVars, subs, msgVars, ret, readVars, netVars, now>>

\* Variant with a fault: the wait for the semaphore ends by itself.
AwakeAnyway(t) == pc[t] = "waiting"

\* The semaphore of a synchronous publish is posted.
Awake(t) == report[doing[t]] # "none"

\* The publish returns the result and frees what it waited on.
PublishReturns(t) ==
    /\ Goto(t, "waiting", "lua")
    /\ Awake(t)
    /\ doing' = [doing EXCEPT ![t] = Anchor]
    /\ UNCHANGED <<clientVars, subs, listVars, msgVars, ret, tail, readVars,
                   netVars, now>>

\* c:subscribe and c:unsubscribe, with qos 1.  The list of subscriptions is kept without
\* its links: no one waits for its entries.
Subscribe(t, kind) ==
    /\ MayCall(t, IF kind = "sub" THEN "subscribe" ELSE "unsubscribe")
    /\ connected
    /\ nextId < MaxPackets
    /\ LET packet == [kind |-> kind, id |-> nextId] IN
        /\ subs' = Append(subs, packet)
        /\ inFlight' = IF up THEN inFlight \cup {packet} ELSE inFlight
    /\ nextId' = nextId + 1
    /\ UNCHANGED <<clientVars, listVars, msgVars, pc, ret, callVars, readVars,
                   link, up, acks, acked, now>>

\* c:on("suback", f).  The other callbacks only decide what Lua code runs.
OnSuback(t) ==
    /\ MayCall(t, "on")
    /\ onSuback' = TRUE
    /\ UNCHANGED <<state, inited, connected, handler, subs, listVars, msgVars,
                   pc, ret, callVars, readVars, netVars, now>>

\* c:connect with valid options: it looks at connected ...
Connect(t) ==
    /\ MayCall(t, "connect")
    /\ ~connected
    /\ pc' = [pc EXCEPT ![t] = "connecting"]
    /\ UNCHANGED <<clientVars, subs, listVars, msgVars, ret, callVars, readVars,
                   netVars, now>>

\* Variant with a fault: a state the client thread has no case for.
SetStateDisconnect(s) == state' = IF inited THEN "DISCONNECT" ELSE state

\* lua_mqtt_client_set_state
SetState(s) == state' = IF inited THEN s ELSE state

\* ... and, the options read, asks for the connection.
RequestInit(t) ==
    /\ Goto(t, "connecting", "lua")
    /\ SetState("INIT")
    /\ UNCHANGED <<inited, connected, handler, onSuback, subs, listVars, msgVars,
                   ret, callVars, readVars, netVars, now>>

\* The collector finalizes the client (lua_mqttc_gc).  The memory, which Lua
\* frees and the client thread goes on to use, is taken to stay as it is.
Collect ==
    /\ Goto("script", "lua", "gone")
    /\ SetState("STOP")
    /\ onSuback' = FALSE
    /\ UNCHANGED <<inited, connected, handler, subs, listVars, msgVars, ret,
                   callVars, readVars, netVars, now>>
-----------------------------------------------------------------------------
(* The client thread: lua_mqtt_client_thread *)

SetInited ==
    /\ Goto("client", "start", "inited")
    /\ inited' = TRUE
    /\ UNCHANGED <<state, connected, handler, onSuback, subs, listVars, msgVars,
                   ret, callVars, readVars, netVars, now>>

\* client->state = s, after the work that precedes it is done.
Store(from, s) ==
    /\ Goto("client", from, "loop")
    /\ state' = s
    /\ UNCHANGED <<inited, connected, handler, onSuback, subs, listVars, msgVars,
                   ret, callVars, readVars, netVars, now>>

SetIdle == Store("inited", "IDLE")

InState(s) == pc["client"] = "loop" /\ state = s

\* __mqtt_custom_init makes a new handle, also when it fails and is repeated.
CustomInit ==
    /\ InState("INIT")
    /\ handler < MaxHandlers
    /\ \E to \in {"made", "loop"} : Goto("client", "loop", to)
    /\ handler' = handler + 1
    /\ nextId' = 1
    /\ LoseConnection
    /\ UNCHANGED <<state, inited, connected, onSuback, subs, listVars, msgVars,
                   ret, callVars, readVars, link, acked, now>>

SetConnect == Store("made", "CONNECT")

\* if (__network_check()) sleep and try again
MayDial == ~link

CheckNetwork ==
    /\ InState("CONNECT")
    /\ MayDial
    /\ Goto("client", "loop", "dialing")
    /\ UNCHANGED <<clientVars, subs, listVars, msgVars, ret, callVars, readVars,
                   netVars, now>>

\* Variant with a fault: the connection is not noted.
ConnectUnnoted(from, r) ==
    /\ link
    /\ Callback(from, r)
    /\ up' = TRUE
    /\ UNCHANGED <<clientVars, subs, listVars, msgVars, callVars, readVars,
                   link, nextId, inFlight, acks, acked, now>>

\* __mqtt_custom_connect: the library connects and calls on_connected.
ConnectAt(from, r) ==
    /\ link
    /\ Callback(from, r)
    /\ up' = TRUE
    /\ connected' = TRUE
    /\ UNCHANGED <<state, inited, handler, onSuback, subs, listVars, msgVars,
                   callVars, readVars, link, nextId, inFlight, acks, acked, now>>

Dial == ConnectAt("dialing", "dialed")

DialFails ==
    /\ Goto("client", "dialing", "loop")
    /\ UNCHANGED <<clientVars, subs, listVars, msgVars, ret, callVars, readVars,
                   netVars, now>>

SetComplete == Store("dialed", "COMPLETE")

\* __mqtt_custom_loop without a connection.  A failure only waits.
Reconnect ==
    /\ InState("COMPLETE")
    /\ ~connected
    /\ ConnectAt("loop", "loop")

\* __mqtt_custom_loop with a connection: first the list is walked.
BeginScan ==
    /\ InState("COMPLETE")
    /\ connected
    /\ Goto("client", "loop", "scan")
    /\ at' = next[Anchor]
    /\ UNCHANGED <<clientVars, subs, listVars, msgVars, ret, callVars, got,
                   netVars, now>>

Expired(m) == entry[m].deadline <= now

\* An asynchronous message is reported to the script's "publish" callback.
ReportBack(m, from, to) ==
    IF entry[m].sync THEN Goto("client", from, to) /\ UNCHANGED ret
                     ELSE Callback(from, to)

Expire ==
    /\ at # Anchor
    /\ Expired(at)
    /\ Complete(at, "timeout")
    /\ ReportBack(at, "scan", "scan")
    /\ at' = next[at]
    /\ UNCHANGED <<clientVars, subs, callVars, got, netVars, now>>

\* Variant with a fault: the walk ends at the first message not yet expired.
BreakOff(m) == Anchor

NextAfter(m) == next[m]

KeepWaiting ==
    /\ pc["client"] = "scan"
    /\ at # Anchor
    /\ ~Expired(at)
    /\ at' = NextAfter(at)
    /\ UNCHANGED <<clientVars, subs, listVars, msgVars, pc, ret, callVars, got,
                   netVars, now>>

EndScan ==
    /\ at = Anchor
    /\ Goto("client", "scan", "yield")
    /\ UNCHANGED <<clientVars, subs, listVars, msgVars, ret, callVars, readVars,
                   netVars, now>>
-----------------------------------------------------------------------------
(* mqtt_client_yield: the library reads and calls back *)

NothingToRead ==
    /\ acks = <<>>
    /\ up
    /\ Goto("client", "yield", "loop")
    /\ UNCHANGED <<clientVars, subs, listVars, msgVars, ret, callVars, readVars,
                   netVars, now>>

\* __mqtt_client_message_cb
MessageArrives ==
    /\ up
    /\ Callback("yield", "loop")
    /\ UNCHANGED <<clientVars, subs, listVars, msgVars, callVars, readVars,
                   netVars, now>>

\* The callbacks of acknowledgements run the script's callback first.
ReadAck ==
    /\ acks # <<>>
    /\ Callback("yield", "acking")
    /\ got' = acks[1]
    /\ acks' = Tail(acks)
    /\ UNCHANGED <<clientVars, subs, listVars, msgVars, callVars, at, link, up,
                   nextId, inFlight, acked, now>>

\* __proc_recv_ack for a message
ProcRecvAck ==
    /\ got.kind = "pub"
    /\ \/ /\ NoneHas(got.id)
          /\ Goto("client", "acking", "loop")
          /\ UNCHANGED <<listVars, msgVars, ret>>
       \/ \E m \in Msgs :
            /\ IsFirst(m, got.id)
            /\ Complete(m, "ok")
            /\ ReportBack(m, "acking", "loop")
    /\ got' = NoPacket
    /\ UNCHANGED <<clientVars, subs, callVars, at, netVars, now>>

\* __mqtt_client_subscribed_cb gives up when no callback is registered, and
\* __mqtt_client_unsubscribed_cb takes nothing off the list.  The
\* code tests for the callback before it calls it, here after: this differs only
\* for a callback registered in between, and nobody waits for what is in subs.
ProcSuback ==
    /\ got.kind # "pub"
    /\ Goto("client", "acking", "loop")
    /\ IF got.kind = "sub" /\ onSuback /\ \E i \in DOMAIN subs : subs[i].id = got.id
       THEN \E i \in DOMAIN subs :
                /\ subs[i].id = got.id
                /\ \A j \in 1 .. (i - 1) : subs[j].id # got.id
                /\ subs' = SubSeq(subs, 1, i - 1) \o SubSeq(subs, i + 1, Len(subs))
       ELSE UNCHANGED subs
    /\ got' = NoPacket
    /\ UNCHANGED <<clientVars, listVars, msgVars, ret, callVars, at, netVars,
                   now>>

\* __mqtt_client_disconnected_cb
Disconnected ==
    /\ ~up
    /\ Callback("yield", "loop")
    /\ connected' = FALSE
    /\ UNCHANGED <<state, inited, handler, onSuback, subs, listVars, msgVars,
                   callVars, readVars, netVars, now>>

\* __mqtt_custom_exit, the state EXIT and the end of the thread.  The lists
\* stay as they are.  (The handle is freed; nothing reads it from here on.)
Stop ==
    /\ InState("STOP")
    /\ Goto("client", "loop", "gone")
    /\ state' = "EXIT"
    /\ inited' = FALSE
    /\ connected' = FALSE
    /\ LoseConnection
    /\ UNCHANGED <<handler, onSuback, subs, listVars, msgVars, ret, callVars,
                   readVars, link, nextId, acked, now>>

\* The Lua code of a callback ends.
CallbackReturns ==
    /\ Goto("client", "lua", ret)
    /\ ret' = "loop"
    /\ UNCHANGED <<clientVars, subs, listVars, msgVars, callVars, readVars,
                   netVars, now>>
-----------------------------------------------------------------------------
(* The network, the broker and the clock *)

\* The broker acknowledges a packet.
Acknowledge ==
    /\ \E packet \in inFlight :
        /\ inFlight' = inFlight \ {packet}
        /\ acks' = Append(acks, packet)
        /\ acked' = IF packet.kind # "pub" THEN acked
                    ELSE acked \cup {m \in Msgs : /\ entry[m].id = packet.id
                                                  /\ entry[m].handler = handler}
    /\ UNCHANGED <<clientVars, subs, listVars, msgVars, pc, ret, callVars,
                   readVars, link, up, nextId, now>>

Break ==
    /\ up
    /\ LoseConnection
    /\ link' \in {link, FALSE}
    /\ UNCHANGED <<clientVars, subs, listVars, msgVars, pc, ret, callVars,
                   readVars, nextId, acked, now>>

LinkChanges ==
    /\ ~up
    /\ link' = ~link
    /\ UNCHANGED <<clientVars, subs, listVars, msgVars, pc, ret, callVars,
                   readVars, up, nextId, inFlight, acks, acked, now>>

Tick ==
    /\ now < MaxTime
    /\ \E time \in (now + 1) .. MaxTime : now' = time
    /\ UNCHANGED <<clientVars, subs, listVars, msgVars, pc, ret, callVars,
                   readVars, netVars>>
-----------------------------------------------------------------------------
ScriptCall(t) ==
    \/ \E m \in Msgs, sync \in BOOLEAN, timeout \in Timeouts :
            Publish(t, m, sync, timeout)
    \/ \E kind \in {"sub", "unsub"} : Subscribe(t, kind)
    \/ OnSuback(t)
    \/ Connect(t)

InCall(t) ==
    \/ ReadTail(t)
    \/ LinkEntry(t)
    \/ PublishReturns(t)
    \/ RequestInit(t)

Yield ==
    \/ NothingToRead \/ MessageArrives \/ ReadAck \/ ProcRecvAck \/ ProcSuback
    \/ Disconnected

ClientStep ==
    \/ SetInited \/ SetIdle
    \/ CustomInit \/ SetConnect
    \/ CheckNetwork \/ Dial \/ DialFails \/ SetComplete
    \/ Reconnect
    \/ BeginScan \/ Expire \/ KeepWaiting \/ EndScan
    \/ Yield
    \/ Stop

Environment == Acknowledge \/ Break \/ LinkChanges \/ Tick

Next ==
    \/ \E t \in Threads : ScriptCall(t) \/ InCall(t)
    \/ Collect
    \/ ClientStep
    \/ CallbackReturns
    \/ Environment

Spec == Init /\ [][Next]_vars

\* The scheduler runs the client thread; Lua code of a callback ends, though
\* calls of its own interrupt it; an attempt to connect succeeds when the link
\* stays up.
Fairness ==
    /\ WF_vars(ClientStep)
    /\ WF_vars(InCall("client"))
    /\ SF_vars(CallbackReturns)

FairSpec == Spec /\ Fairness
-----------------------------------------------------------------------------
(* Properties *)

Places ==
    {"start", "inited", "loop", "made", "dialing", "dialed", "scan", "yield",
     "acking", "lua", "sent", "linking", "waiting", "connecting", "gone"}

\* Types.
MTypeOK ==
    /\ state \in States
    /\ inited \in BOOLEAN
    /\ connected \in BOOLEAN
    /\ handler \in 0 .. MaxHandlers
    /\ onSuback \in BOOLEAN
    /\ subs \in Seq(Packets)
    /\ next \in [Nodes -> Nodes]
    /\ prev \in [Nodes -> Nodes]
    /\ entry \in [Msgs -> [id : Nat, handler : Nat, sync : BOOLEAN, deadline : Nat]]
    /\ report \in [Msgs -> {"none", "ok", "timeout"}]
    /\ pc \in [Threads -> Places]
    /\ ret \in {"loop", "dialed", "scan", "acking"}
    /\ doing \in [Threads -> Nodes]
    /\ tail \in [Threads -> Nodes]
    /\ at \in Nodes
    /\ got \in Packets \cup {NoPacket}
    /\ link \in BOOLEAN
    /\ up \in BOOLEAN
    /\ nextId \in Nat
    /\ inFlight \subseteq Packets
    /\ acks \in Seq(Packets)
    /\ acked \subseteq Msgs
    /\ now \in 0 .. MaxTime

\* Walking: the thread is between two entries of __mqtt_custom_loop's walk.
Walking == pc["client"] = "scan" \/ (pc["client"] \in {"lua", "sent", "linking",
                "waiting", "connecting"} /\ ret = "scan")

\* Memory: whatever insertions race with removals, the walks of the client
\* thread (lua-mqttc-client.c:40, :325) meet no message that was freed.
NoFreedEntryReached ==
    /\ \A m \in Listed : entry[m] # NoEntry /\ report[m] = "none"
    /\ Walking /\ at # Anchor => report[at] = "none"

\* Memory: a synchronous message that can still be reported has a publisher
\* that still waits, so __custom_mqtt_sync_cb posts no freed semaphore.
NoStaleWaiter ==
    \A m \in Msgs :
        entry[m].sync /\ (m \in Listed \/ (Walking /\ at = m))
            => \E t \in Threads : pc[t] = "waiting" /\ doing[t] = m

\* A message is reported as delivered only if the broker acknowledged it,
\* unless a new handle has replaced the one it was sent with and started to
\* number packets anew.
OkMeansAcked ==
    \A m \in Msgs :
        report[m] = "ok" => m \in acked \/ entry[m].handler < handler

\* The promise of Delivery: at most one report for each message, and a true one.
Promise == INSTANCE Delivery WITH
    sent <- {m \in Msgs : entry[m] # NoEntry},
    settled <- acked \cup {m \in Msgs : entry[m] # NoEntry
                                        /\ entry[m].handler < handler}
ImplementsDelivery == Promise!Spec

\* While the client stays connected, a message past its deadline leaves the
\* list (lua-mqttc-client.c:325), unless a callback has the client thread wait
\* for its own publish.
ExpiredIsReported ==
    \A m \in Msgs :
        m \in Listed /\ Expired(m)
            ~> \/ m \notin Listed
               \/ ~connected
               \/ state # "COMPLETE"
               \/ pc["client"] = "waiting"

\* A client that was connected once comes back whenever the network does
\* (lua-mqttc-client.c:304), unless its thread waits for its own publish.
Reconnects ==
    <>[](link /\ state = "COMPLETE" /\ pc["client"] # "waiting")
        => []<>connected

\* The comments LOCK and UNLOCK (lua-mqttc-client.c:320, :345) promise that the
\* list is protected.  Then whoever waits for a message has it in the list.
WaiterIsListed ==
    \A t \in Threads :
        pc[t] = "waiting" /\ report[doing[t]] = "none" => doing[t] \in Listed
=============================================================================
