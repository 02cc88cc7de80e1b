---------------------------- MODULE MCMqttClient ----------------------------
(* The methods that scripts call in the runs of MqttClient. *)
EXTENDS MqttClient, TLC

\* The script publishes and waits, its callbacks publish.
MCCalls ==
    "script" :> {"publish_sync", "subscribe", "on", "connect"}
    @@ "client" :> {"publish"}

\* Callbacks publish as well, and may wait for themselves.
MCCallbacks ==
    "script" :> {"publish", "unsubscribe", "connect"}
    @@ "client" :> {"publish", "publish_sync"}

\* The messages are interchangeable.
MCSymmetry == Permutations(Msgs)
=============================================================================
