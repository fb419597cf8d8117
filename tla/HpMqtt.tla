------------------------------- MODULE HpMqtt -------------------------------
(***************************************************************************)
(* The MQTT client of hp_mqtt.c.  The program's thread starts requests and *)
(* then sets cli->state; the library's thread answers them in order and    *)
(* sets cli->state in its callbacks.  Nothing protects the state, so the   *)
(* answer may be there before the request's own assignment.                *)
(*                                                                         *)
(* The library (external) keeps requests while it has no connection        *)
(* (sendWhileDisconnected) and reconnects by itself (automaticReconnect).  *)
(* The broker keeps the subscriptions of a client that is gone, or not.    *)
(***************************************************************************)
EXTENDS Integers, Sequences, FiniteSets, SequencesExt

CONSTANTS
  TopicLists,   \* lists of topics, arguments of hp_mqtt_sub
  QosArgs,      \* values of qos, 0..2 are valid
  MaxMqttCalls, \* bound: calls of the program
  MaxCuts       \* bound: connections that are cut

ASSUME TopicListsAssumption == \A t \in TopicLists : t \in Seq(ToSet(t))

VARIABLES
  state,        \* cli->state
  topics, qoses,\* the vectors; qoses is only ever appended to
  mpc,          \* the program's thread: "idle", what it is about to store, "freed"
  lib,          \* Seq of requests the library has not answered
  online,       \* "no", "yes", "lost"
  broker,       \* topics subscribed at the broker
  raced, failed,\* answers of the latest call came before its assignment, failed
  overlapped,   \* hp_mqtt_sub was called with another subscribe under way, or
                \* failed, or the broker forgot the subscriptions
  missed,       \* a message that should have reached on_message did not
  mcalls, cuts

client == <<state, topics, qoses, mpc>>
answers == <<raced, failed, overlapped, missed>>
mqttVars == <<state, topics, qoses, mpc, lib, online, broker, raced, failed,
              overlapped, missed, mcalls, cuts>>

MqttInit ==
  /\ state = "0" /\ topics = <<>> /\ qoses = <<>> /\ mpc = "idle"
  /\ lib = <<>> /\ online = "no" /\ broker = {}
  /\ raced = FALSE /\ failed = FALSE /\ overlapped = FALSE /\ missed = FALSE
  /\ mcalls = 0 /\ cuts = 0

MqttCalls ==
  /\ mpc = "idle" /\ mcalls < MaxMqttCalls
  /\ mcalls' = mcalls + 1
  /\ UNCHANGED <<online, broker, missed, cuts>>

Request(op, arg) ==
  /\ lib' = Append(lib, [op |-> op, arg |-> arg])
  /\ raced' = FALSE /\ failed' = FALSE

\* MQTTAsync_setConnected or MQTTAsync_connect fails: -2, -3.
ConnectNotStarted == UNCHANGED <<client, lib, raced, failed, overlapped>>

hp_mqtt_connect ==
  /\ MqttCalls
  /\ online = "no" /\ lib = <<>>
  /\ \/ /\ Request("connect", {})
        /\ mpc' = "CON_ING" /\ UNCHANGED <<state, topics, qoses, overlapped>>
     \/ ConnectNotStarted

\* The assignment after the library's call.
StateStored ==
  /\ mpc \notin {"idle", "freed"}
  /\ state' = mpc /\ mpc' = "idle"
  /\ UNCHANGED <<topics, qoses, lib, online, broker, answers, mcalls, cuts>>

\* cvector_cmp: as many topics, and each is one of the old ones
SameTopics(t) == Len(t) = Len(topics) /\ ToSet(t) \subseteq ToSet(topics)
Subscribing == {k \in 1..Len(lib) : lib[k].op = "subscribe"}
ValidQos(q) == IF q \in 0..2 THEN q ELSE 2

\* hp_mqtt_do_sub: the topics are those of the call, the qoses those of the first
\* calls.
hp_mqtt_do_sub(t) ==
  \/ Request("subscribe", ToSet(t)) /\ mpc' = "SUB_ING"
  \/ UNCHANGED <<lib, raced, failed, mpc>>      \* MQTTAsync_subscribeMany fails

UpdateTopics(t, q) ==
  /\ topics' = t
  /\ qoses' = qoses \o [k \in 1..Len(t) |-> ValidQos(q)]

hp_mqtt_sub(t, q) ==
  /\ MqttCalls
  /\ IF SameTopics(t) THEN UNCHANGED <<client, lib, raced, failed, overlapped>>
     ELSE /\ UpdateTopics(t, q)
          /\ hp_mqtt_do_sub(t)
          /\ overlapped' = (overlapped \/ Subscribing # {} \/ lib' = lib)
          /\ UNCHANGED state

\* Messages go round through the broker; "sure" if the client says it has
\* subscribed.
hp_mqtt_pub(topic) ==
  /\ MqttCalls
  /\ \/ lib' = Append(lib, [op |-> "publish",
                arg |-> IF state = "SUB_OK" /\ ~overlapped THEN {topic} ELSE {}])
     \/ UNCHANGED lib      \* MQTTAsync_send fails
  /\ UNCHANGED <<client, raced, failed, overlapped>>

hp_mqtt_disconnect ==
  /\ MqttCalls
  /\ IF online # "no" THEN /\ Request("disconnect", {})
                           /\ mpc' = "DISCON_ING" /\ UNCHANGED state
     ELSE state' = "0" /\ UNCHANGED <<lib, raced, failed, mpc>>
  /\ UNCHANGED <<topics, qoses, overlapped>>

hp_mqtt_uninit ==
  /\ mpc = "idle"
  /\ mpc' = "freed"
  /\ lib' = <<>> /\ topics' = <<>> /\ qoses' = <<>> /\ state' = "0" /\ online' = "no"
  /\ UNCHANGED <<broker, answers, mcalls, cuts>>
-----------------------------------------------------------------------------
(* Callbacks in the library's thread *)

Answer(op) ==
  /\ lib # <<>> /\ Head(lib).op = op
  /\ lib' = Tail(lib)
  /\ UNCHANGED <<topics, qoses, mpc, overlapped, mcalls, cuts>>

SetState(s) == state' = s /\ raced' = (mpc # "idle")

onConnect ==
  /\ Answer("connect")
  /\ online' = "yes" /\ SetState("CON_OK")
  /\ UNCHANGED <<broker, failed, missed>>

onConnectFailure ==
  /\ Answer("connect")
  /\ failed' = TRUE
  /\ UNCHANGED <<state, online, broker, raced, missed>>

\* Mutant: the state is set although the request failed.
Bad_onSubscribeFailure == failed' = TRUE /\ SetState("SUB_OK") /\ UNCHANGED broker

\* hp_mqtt_sub with the client's own topics: they have not changed, it returns.
onSubscribeFailure == failed' = TRUE /\ UNCHANGED <<state, raced, broker>>

onSubscribe ==
  /\ Answer("subscribe") /\ online = "yes"
  /\ \/ /\ broker' = broker \cup Head(lib).arg
        /\ SetState("SUB_OK") /\ UNCHANGED failed
     \/ onSubscribeFailure
  /\ UNCHANGED <<online, missed>>

messageArrived ==
  /\ Answer("publish") /\ online = "yes"
  /\ missed' = (missed \/ ~(overlapped \/ Head(lib).arg \subseteq broker))
  /\ UNCHANGED <<state, online, broker, raced, failed>>

onDisconnect ==
  /\ Answer("disconnect")
  /\ online' = "no" /\ SetState("0")
  /\ broker' \in {broker, {}}
  /\ UNCHANGED <<failed, missed>>

Cut ==
  /\ online = "yes" /\ cuts < MaxCuts
  /\ online' = "lost" /\ cuts' = cuts + 1
  /\ UNCHANGED <<client, lib, broker, answers, mcalls>>

\* The library reconnects: on_connect is called, the state stays, nothing is
\* subscribed again.
onConnected ==
  /\ online = "lost"
  /\ online' = "yes"
  /\ broker' \in {broker, {}}
  /\ overlapped' = (overlapped \/ broker' # broker)
  /\ UNCHANGED <<client, lib, raced, failed, missed, mcalls, cuts>>

Callback ==
  onConnect \/ onConnectFailure \/ onSubscribe \/ messageArrived \/ onDisconnect

MqttNext ==
  \/ hp_mqtt_connect \/ StateStored \/ hp_mqtt_disconnect \/ hp_mqtt_uninit
  \/ \E t \in TopicLists : \/ \E q \in QosArgs : hp_mqtt_sub(t, q)
                           \/ \E k \in 1..Len(topics) : hp_mqtt_pub(topics[k])
  \/ Callback \/ Cut \/ onConnected
MqttSpec == MqttInit /\ [][MqttNext]_mqttVars
-----------------------------------------------------------------------------
\* MQTTAsync_subscribeMany finds a QoS for every topic.
MqttTypeOK ==
  /\ state \in {"0", "CON_ING", "CON_OK", "SUB_ING", "SUB_OK", "DISCON_ING"}
  /\ topics \in TopicLists \cup {<<>>}
  /\ Len(qoses) >= Len(topics)
  /\ \A k \in 1..Len(qoses) : qoses[k] \in 0..2

\* A program that polls cli->state until it is no longer "..._ING" waits for an
\* answer that will come, unless the answer was a failure, or was faster than the
\* assignment of the call itself (hp_mqtt.c:364, 399, 498).
WaitsForAnswer ==
  /\ state \in {"CON_ING", "SUB_ING", "DISCON_ING"} /\ mpc = "idle"
  /\ ~raced /\ ~failed
  => lib # <<>>

\* While the state is SUB_OK every message on one of cli->topics comes back,
\* through reconnects, disconnects and failed calls, if the program does not change
\* its topics before the broker answered and the broker keeps the subscriptions of a
\* connection that was cut.
SubscribedMeansDelivered == ~missed

\* cli->state can be trusted although two threads set it: "..._ING" is answered and
\* SUB_OK means subscribed, with the exceptions named at the parts.
MqttSound == MqttTypeOK /\ WaitsForAnswer /\ SubscribedMeansDelivered
=============================================================================
