------------------------------ MODULE MCHpParts ------------------------------
(***************************************************************************)
(* Instances of the completion port loop, the clients (MySQL, MQTT), the   *)
(* parsers (messages, HTTP), the socket helpers and the pure helpers.      *)
(* They share no state: a behaviour picks one component and lets it run,   *)
(* the others keep their first state.                                      *)
(***************************************************************************)
EXTENDS HpMysql, HpMqtt, HpMsg, HpHttp, HpNet, HpText, HpConf, HpJson, HpCache,
        HpIocp, TLC

CONSTANTS w1, none

VARIABLE component

Lists == {<<"a">>, <<"a", "b">>, <<"a", "a">>}
Noise == {<<>>, <<101>>, <<100, 101>>, <<100, 100, 100, 101>>}
Bodies == {[body |-> <<>>, z |-> FALSE], [body |-> <<101, 102>>, z |-> FALSE],
           [body |-> <<100>>, z |-> TRUE]}
Lengths == {<<3>>, <<1, 2>>, <<2, 0, 2>>}
IniFiles == {<<[key |-> <<"s", "n">>, val |-> 1]>>,
             <<[key |-> <<"-", "n">>, val |-> 2], [key |-> <<"s", "n">>, val |-> 2]>>}

N(at, kind) == [at |-> at, kind |-> kind]
Documents ==
  {<<N(<<>>, "obj"), N(<<"a">>, "arr"), N(<<"a", "#0">>, "obj"),
     N(<<"a", "#0", "b">>, "str"), N(<<"a", "#1">>, "obj"), N(<<"b">>, "str")>>,
   <<N(<<>>, "obj"), N(<<"b">>, "arr"), N(<<"b", "#0">>, "obj"),
     N(<<"b", "#0", "a">>, "str"), N(<<"b", "#1">>, "obj"), N(<<"b", "#1", "a">>, "str")>>}
PathSteps == {[name |-> "a", index |-> 99], [name |-> "b", index |-> 99],
              [name |-> "a", index |-> 0], [name |-> "b", index |-> 5], [name |-> "", index |-> 1]}

Tree == (<<"a">> :> "dir") @@ (<<"a", "b">> :> "dir") @@ (<<"a", "b", "c">> :> "file")
        @@ (<<"a", "b", "f">> :> "file") @@ (<<"a", "d">> :> "file") @@ (<<"e">> :> "file")
VarValues == (<<97>> :> <<36, 98>>) @@ (<<97, 98>> :> <<>>)
Variables == {<<97>>, <<97, 98>>, <<98>>}
TwoTrees == {Tree, <<"a">> :> "dir"}

Init ==
  /\ component \in {"iocp", "mysql", "mqtt", "msg", "http", "net", "text", "conf", "json", "cache"}
  /\ IocpInit /\ SqlInit /\ MqttInit /\ MsgInit /\ HttpInit /\ NetInit
  /\ StringsInit /\ ConfInit /\ JsonInit /\ CacheInit
  /\ component = "mysql" \/ g_connect_cb
  /\ component = "msg" \/ noskip

clients == <<iocpVars, sqlVars, mqttVars>>
parsers == <<msgVars, httpVars>>
helpers == <<netVars, textVars, confVars, jsonVars, cacheVars>>

Iocp == component = "iocp" /\ IocpNext
  /\ UNCHANGED <<component, sqlVars, mqttVars, parsers, helpers>>
Mysql == component = "mysql" /\ SqlNext
  /\ UNCHANGED <<component, iocpVars, mqttVars, parsers, helpers>>
Mqtt == component = "mqtt" /\ MqttNext
  /\ UNCHANGED <<component, iocpVars, sqlVars, parsers, helpers>>
Msg == component = "msg" /\ MsgNext /\ UNCHANGED <<component, clients, httpVars, helpers>>
Http == component = "http" /\ HttpNext /\ UNCHANGED <<component, clients, msgVars, helpers>>
Net == component = "net" /\ NetNext
  /\ UNCHANGED <<component, clients, parsers, textVars, confVars, jsonVars, cacheVars>>
Text == component = "text" /\ TextNext
  /\ UNCHANGED <<component, clients, parsers, netVars, confVars, jsonVars, cacheVars>>
Conf == component = "conf" /\ ConfNext
  /\ UNCHANGED <<component, clients, parsers, netVars, textVars, jsonVars, cacheVars>>
Json == component = "json" /\ JsonNext
  /\ UNCHANGED <<component, clients, parsers, netVars, textVars, confVars, cacheVars>>
Cache == component = "cache" /\ CacheNext
  /\ UNCHANGED <<component, clients, parsers, netVars, textVars, confVars, jsonVars>>

Next == Iocp \/ Mysql \/ Mqtt \/ Msg \/ Http \/ Net \/ Text \/ Conf \/ Json \/ Cache
vars == <<component, clients, parsers, helpers>>
Spec == Init /\ [][Next]_vars
=============================================================================
