------------------------------- MODULE Outlets -------------------------------
(***************************************************************************)
(* main's loop (main.cpp:58-78) hands every message, in turn, to APRS-IS,  *)
(* MQTT and the traffic database, and waits for each: switchboard::        *)
(* put_message() with continue_on_error.  The servers, the broker and the  *)
(* visitors of the web pages do as they like meanwhile.                    *)
(***************************************************************************)
EXTENDS AprsIs, Mqtt, Database

CONSTANT Troubles   \* bound: the outlets that have trouble in one behaviour

VARIABLES
    todo,       \* the messages main has still to take, in order
    turn,       \* the outlet it is at: "take", "aprs", "mqtt", "db"
    exited,     \* how the program ended: "no", "name" (error_exit()), "signal"
    troubled    \* the outlets that have trouble, chosen at the start

main_vars == <<todo, turn, exited, troubled>>

vars == <<aprs_vars, mqtt_vars, db_vars, main_vars>>

Init ==
    /\ todo = SetToSeq(Messages) /\ turn = "take"
    /\ exited = "no" /\ troubled \in Troubles
    /\ uplinked = Head(todo) /\ published = Head(todo)  \* of no importance yet
    /\ AprsInit /\ MqttInit /\ DbInit

Running == exited = "no" /\ ~crashed

\* Without trouble everything is uplinked, the server accepts the session and
\* answers.
Answers == "aprs" \notin troubled =>
    /\ silent = {}
    /\ \A m \in Messages : aprs_rc[m] # "none" => aprs_rc[m] = "TE_ok" /\ written[m] > 0

\* main takes a message and offers it to the first outlet,
Take ==
    /\ turn = "take" /\ todo # <<>>
    /\ AprsPut(Head(todo))
    /\ turn' = "aprs"
    /\ UNCHANGED <<mqtt_vars, db_vars, todo, exited, troubled>>
    /\ Answers'

\* to the second when that returned,
ToMqtt ==
    /\ turn = "aprs" /\ aprs = "idle"
    /\ MqttPut(Head(todo))
    /\ turn' = "mqtt"
    /\ UNCHANGED <<aprs_vars, db_vars, todo, exited, troubled>>

\* and to the third.
ToDatabase ==
    /\ turn = "mqtt" /\ mqtt = "idle"
    /\ DbPut(Head(todo))
    /\ turn' = "db"
    /\ UNCHANGED <<aprs_vars, mqtt_vars, todo, exited, troubled>>

Done ==
    /\ turn = "db" /\ at["main"] = "idle"
    /\ todo' = Tail(todo)
    /\ turn' = "take"
    /\ UNCHANGED <<aprs_vars, mqtt_vars, db_vars, exited, troubled>>

\* connect_to() cannot resolve the name of the server: error_exit().
Unresolved ==
    /\ aprs = "connect" /\ "aprs" \in troubled
    /\ exited' = "name"
    /\ UNCHANGED <<aprs_vars, mqtt_vars, db_vars, todo, turn, troubled>>

\* WRITE() to a session that was cut raises SIGPIPE, which ends the program: it
\* looks after SIGINT only.  It goes on (AprsIs!Fails) where a library of its
\* configuration has the signal ignored, or the system has not noticed yet.
BrokenPipe ==
    /\ aprs \in {"login", "write"} /\ fd \in cut
    /\ exited' = "signal"
    /\ UNCHANGED <<aprs_vars, mqtt_vars, db_vars, todo, turn, troubled>>

Main == \/ Take \/ ToMqtt \/ ToDatabase \/ Done
        \/ AprsStep /\ UNCHANGED <<mqtt_vars, db_vars, main_vars>> /\ Answers'
        \/ MqttStep /\ UNCHANGED <<aprs_vars, db_vars, main_vars>>
        \/ DbStep("main") /\ UNCHANGED <<aprs_vars, mqtt_vars, main_vars>>

(* The outlets share nothing, so what happens to one commutes with what     *)
(* main does at another: it is taken while main is at that outlet, or has   *)
(* not begun with the next message.                                         *)
Network == /\ turn = "aprs" \/ todo = <<>>
           /\ Arrive \/ ("aprs" \in troubled /\ Cut)
           /\ UNCHANGED <<mqtt_vars, db_vars, main_vars>>

\* Without trouble the broker is as if it got everything at the end.
Broker == /\ turn = "mqtt" \/ todo = <<>>
          /\ "mqtt" \in troubled
          /\ Deliver \/ BrokerGone \/ Noticed \/ BrokerBack
          /\ UNCHANGED <<aprs_vars, db_vars, main_vars>>

Web == /\ turn \in {"take", "db"} /\ "db" \in troubled
       /\ \/ InsertFails
          \/ \E u \in Users : Fault(u) \/ Die(u)
          \/ \E v \in Visitors : Visit(v) \/ DbStep(v)
       /\ UNCHANGED <<aprs_vars, mqtt_vars, main_vars>>

Next == /\ Running
        /\ Main \/ Unresolved \/ BrokenPipe \/ Network \/ Broker \/ Web

Spec == Init /\ [][Next]_vars /\ WF_vars(Running /\ Main)

-----------------------------------------------------------------------------
\* main is in receive_string() and the server has nothing to say.
Blocked == aprs = "reply" /\ fd \in silent /\ fd \notin cut

(***************************************************************************)
(* What put_message() told main is borne out at the other end, of all      *)
(* three: a message that got TE_ok is missing only where the session was   *)
(* cut, the connection to the broker was (QoS 0: what was published then   *)
(* is lost and nobody hears of it), or an insertion failed; and one that   *)
(* got an error may be out on one topic of MQTT but is never at APRS-IS.   *)
(* (tranceiver-aprs-si.cpp:127-142, tranceiver-mqtt.cpp:69-89,             *)
(* db-mongodb.cpp:128-161)                                                 *)
(***************************************************************************)
VerdictsAreBorneOut == LostOnlyWhenCut /\ BothTopicsOrError /\ MissingOnlyByFault

\* What ends the program.
Ended == \/ exited = "name" /\ aprs = "connect"
         \/ exited = "signal" /\ fd \in cut
         \/ crashed /\ overlap

(***************************************************************************)
(* Every outlet is offered every message: an outlet that returns an error, *)
(* and returns it again, costs the others nothing.  Four things do cost    *)
(* them everything, all at APRS-IS or the database: a server that accepts  *)
(* the session and then says nothing, for as long as the session lasts; a  *)
(* name that cannot be resolved when a session is made (net.cpp:60); a     *)
(* SIGPIPE from a session that was cut (net.cpp:31, main.cpp:86); and a    *)
(* database client that was deleted under its user.                        *)
(* (main.cpp:34-79, tranceiver-aprs-si.cpp:110)                            *)
(***************************************************************************)
EveryMessageTried == <>(todo = <<>>) \/ <>[]Blocked \/ <>Ended
=============================================================================
