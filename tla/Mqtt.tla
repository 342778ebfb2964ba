-------------------------------- MODULE Mqtt ---------------------------------
(***************************************************************************)
(* tranceiver-mqtt.cpp: a message is published as it is and as JSON, to    *)
(* the broker libmosquitto's thread is connected to and reconnects to.     *)
(* What comes in by the topic-in goes to queue_incoming_message() as from  *)
(* any other thread (Router).                                              *)
(*                                                                         *)
(* Everything goes out with QoS 0: mosquitto_publish() leaves it with the  *)
(* library and succeeds, and the library hands it to the broker later.     *)
(* The connection can be cut at any time; until the library notices that,  *)
(* it takes what is published and loses it.                                *)
(***************************************************************************)
EXTENDS Traffic, Integers, Sequences

CONSTANTS
    TopicOut, TopicOutJson  \* are the topics configured?

VARIABLES
    mqtt,       \* put_message_low(): "idle", "raw", "json"
    published,  \* its message
    broker,     \* the connection: "up", "broken" (not noticed yet), "down"
    outbox,     \* what the library has still to hand over, <<topic, message>>
    raw, json,  \* what the broker got on each topic
    severed,    \* observer: the messages a cut connection took something of
    mqtt_rc     \* what put_message_low() returned for each message

mqtt_vars == <<mqtt, published, broker, outbox, raw, json, severed, mqtt_rc>>

MqttInit ==     \* init_mqtt() ends the program when it cannot connect
    /\ mqtt = "idle"
    /\ broker = "up"
    /\ outbox = <<>> /\ raw = <<>> /\ json = <<>>
    /\ severed = {}
    /\ mqtt_rc = [m \in Messages |-> "none"]

MqttReturn(rc) ==
    /\ mqtt' = "idle"
    /\ mqtt_rc' = [mqtt_rc EXCEPT ![published] = rc]

MqttPut(m) ==
    /\ mqtt = "idle"
    /\ published' = m
    /\ mqtt' = "raw"
    /\ UNCHANGED <<broker, outbox, raw, json, severed, mqtt_rc>>

\* mosquitto_publish() succeeds unless the library knows of no connection.
Publish(topic) ==
    /\ broker # "down"
    /\ outbox' = IF broker = "up" THEN Append(outbox, <<topic, published>>) ELSE outbox
    /\ severed' = IF broker = "up" THEN severed ELSE severed \cup {published}

NotPublished == UNCHANGED <<outbox, severed>>

(* Deliberately wrong variants, used to show that the properties bite. *)
PublishRaw_ErrorIgnored ==
    /\ mqtt = "raw"
    /\ mqtt' = "json"
    /\ (TopicOut /\ Publish("raw")) \/ ((TopicOut => broker = "down") /\ NotPublished)
    /\ UNCHANGED <<published, broker, raw, json, mqtt_rc>>

PublishRaw ==
    /\ mqtt = "raw"
    /\ \/ /\ TopicOut /\ broker = "down"
          /\ MqttReturn("TE_hardware")
          /\ NotPublished
       \/ /\ (TopicOut /\ Publish("raw")) \/ (~TopicOut /\ NotPublished)
          /\ mqtt' = "json"
          /\ UNCHANGED mqtt_rc
    /\ UNCHANGED <<published, broker, raw, json>>

PublishJson ==
    /\ mqtt = "json"
    /\ \/ /\ TopicOutJson /\ broker = "down"
          /\ MqttReturn("TE_hardware")
          /\ NotPublished
       \/ /\ (TopicOutJson /\ Publish("json")) \/ (~TopicOutJson /\ NotPublished)
          /\ MqttReturn("TE_ok")
    /\ UNCHANGED <<published, broker, raw, json>>

-----------------------------------------------------------------------------
\* The library's thread hands over what was published first.
Deliver ==
    /\ broker = "up" /\ outbox # <<>>
    /\ outbox' = Tail(outbox)
    /\ raw' = IF Head(outbox)[1] = "raw" THEN Append(raw, Head(outbox)[2]) ELSE raw
    /\ json' = IF Head(outbox)[1] = "json" THEN Append(json, Head(outbox)[2]) ELSE json
    /\ UNCHANGED <<mqtt, published, broker, severed, mqtt_rc>>

Queued(topic) == {m \in Messages : \E i \in DOMAIN outbox : outbox[i] = <<topic, m>>}

\* The connection is cut, with what is on its way;
BrokerGone ==
    /\ broker = "up"
    /\ broker' = "broken"
    /\ outbox' = <<>>
    /\ severed' = severed \cup Queued("raw") \cup Queued("json")
    /\ UNCHANGED <<mqtt, published, raw, json, mqtt_rc>>

\* the library notices;
Noticed ==
    /\ broker = "broken"
    /\ broker' = "down"
    /\ UNCHANGED <<mqtt, published, outbox, raw, json, severed, mqtt_rc>>

\* and makes a new one.
BrokerBack ==
    /\ broker = "down"
    /\ broker' = "up"
    /\ UNCHANGED <<mqtt, published, outbox, raw, json, severed, mqtt_rc>>

MqttStep == PublishRaw \/ PublishJson

-----------------------------------------------------------------------------
On(topic) == {topic[i] : i \in DOMAIN topic}

(***************************************************************************)
(* With both topics configured: a message that got TE_ok is on both, or is *)
(* queued to come there, unless the connection was cut while something of  *)
(* it was on its way or before the library had noticed an earlier cut (QoS *)
(* 0: nobody hears of that).  A message that got an error is not on the    *)
(* JSON topic, though it may be on the raw one; and with the same          *)
(* exception nothing is on the JSON topic that is not on the raw one.      *)
(* (tranceiver-mqtt.cpp:69-89)                                             *)
(***************************************************************************)
BothTopicsOrError ==
    TopicOut /\ TopicOutJson => \A m \in Messages :
        /\ mqtt_rc[m] = "TE_ok" /\ m \notin severed =>
              /\ m \in On(raw) \cup Queued("raw")
              /\ m \in On(json) \cup Queued("json")
        /\ mqtt_rc[m] = "TE_hardware" => m \notin On(json) \cup Queued("json")
        /\ m \in On(json) \ severed => m \in On(raw)
=============================================================================
