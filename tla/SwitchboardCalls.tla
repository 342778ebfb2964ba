--------------------------- MODULE SwitchboardCalls ---------------------------
(***************************************************************************)
(* A switchboard in use: the configuration fills its tables, then          *)
(* messages are put through it one target at a time, any of which may      *)
(* fail.  put_message() holds the lock throughout and main's loop is its   *)
(* only caller, so there is one call at a time.                            *)
(***************************************************************************)
EXTENDS Switchboard

CONSTANTS
    BridgeCalls,    \* <<in, out, f>>: add_bridge_mapping() calls to choose from
    RoutingCalls,   \* mappings to choose from for add_routing_mapping()
    MaxCalls        \* bound on the calls made while configuring

\* load_bridge_switchboard() looks the tranceivers and the filters up by name.
ASSUME SwitchboardCallsAssumption ==
    /\ BridgeCalls \subseteq Tranceivers \X Tranceivers \X (Filters \cup {NoFilter})
    /\ \A r \in RoutingCalls : r.out \in Seq(Tranceivers)

VARIABLES
    bridges, routes,    \* bridge_map, routing_map
    called,             \* observer: the add_bridge_mapping() calls made
    routed,             \* observer: the add_routing_mapping() calls made
    phase,              \* "configuring", "idle", "putting", "returned"
    message,            \* the message of the current call
    continue_on_error,
    todo,               \* the targets the loops have still to visit
    offered,            \* the targets visited, with what they answered
    forwarded,
    rc                  \* what put_message() returned

vars == <<bridges, routes, called, routed, phase, message, continue_on_error,
          todo, offered, forwarded, rc>>
tables == <<bridges, routes, called, routed>>

\* What a tranceiver's put_message_low() may answer.
Answers == {"TE_ok", "TE_hardware"}

\* What the code may return.
Returned == {"TE_ok", "TE_hardware", "TE_filter"}

-----------------------------------------------------------------------------
Init ==
    /\ bridges = NoBridges /\ routes = <<>>
    /\ called = {} /\ routed = {}
    /\ phase = "configuring"
    /\ message \in Messages
    /\ continue_on_error = TRUE
    /\ todo = <<>> /\ offered = <<>>
    /\ forwarded = FALSE
    /\ rc = "TE_ok"

Configuring ==
    /\ phase = "configuring"
    /\ Cardinality(called) + Len(routes) < MaxCalls
    /\ UNCHANGED <<phase, message, continue_on_error, todo, offered, forwarded,
                   rc>>

AddBridgeMapping ==
    /\ Configuring
    /\ \E c \in BridgeCalls \ called :
          /\ bridges' = AddBridge(bridges, c[1], c[2], c[3])
          /\ called' = called \cup {c}
    /\ UNCHANGED <<routes, routed>>

AddRoutingMapping ==
    /\ Configuring
    /\ \E mapping \in RoutingCalls \ routed :
          /\ routes' = AddRouting(routes, mapping)
          /\ routed' = routed \cup {mapping}
    /\ UNCHANGED <<bridges, called>>

\* The configuration has been read; main's loop starts.
Configured ==
    /\ phase = "configuring"
    /\ phase' = "idle"
    /\ UNCHANGED <<tables, message, continue_on_error, todo, offered, forwarded,
                   rc>>

\* put_message(from, m, continue_on_error) is entered.
PutMessage ==
    /\ phase \in {"idle", "returned"}
    /\ \E m \in Messages, c \in BOOLEAN :
          /\ message' = m
          /\ continue_on_error' = c
          /\ todo' = Targets(bridges, routes, Source[m], m)
    /\ phase' = "putting"
    /\ offered' = <<>>
    /\ forwarded' = FALSE
    /\ UNCHANGED <<tables, rc>>

(* Deliberately wrong variants, used to show that the properties bite. *)
Forwards_OnSuccess(answer) == forwarded \/ answer = "TE_ok"
GivesUp_Always(answer) == answer # "TE_ok"

\* forwarded = true, whatever the target answered, unless the call returns.
Forwards(answer) == TRUE

\* "if (rc != TE_ok && continue_on_error == false) return rc"
GivesUp(answer) == answer # "TE_ok" /\ ~continue_on_error

\* t->put_message(m) for the next target.
PutTarget ==
    /\ phase = "putting"
    /\ todo # <<>>
    /\ \E answer \in Answers :
          /\ offered' = Append(offered, [to |-> Head(todo), answer |-> answer])
          /\ todo' = Tail(todo)
          /\ forwarded' = Forwards(answer)
          /\ IF GivesUp(answer)
             THEN phase' = "returned" /\ rc' = answer
             ELSE UNCHANGED <<phase, rc>>
    /\ UNCHANGED <<tables, message, continue_on_error>>

\* Both loops are done.
PutReturn ==
    /\ phase = "putting"
    /\ todo = <<>>
    /\ rc' = IF forwarded THEN "TE_ok" ELSE "TE_filter"
    /\ phase' = "returned"
    /\ UNCHANGED <<tables, message, continue_on_error, todo, offered, forwarded>>

Next == \/ AddBridgeMapping \/ AddRoutingMapping \/ Configured
        \/ PutMessage \/ PutTarget \/ PutReturn

Spec == Init /\ [][Next]_vars /\ WF_vars(PutTarget \/ PutReturn)

-----------------------------------------------------------------------------
TypeOK ==
    /\ \A in \in DOMAIN bridges :
          /\ in \in Tranceivers
          /\ \A i \in DOMAIN bridges[in] :
                /\ bridges[in][i].f \in Filters \cup {NoFilter}
                /\ bridges[in][i].t \in Seq(Tranceivers) \ {<<>>}
    /\ phase \in {"configuring", "idle", "putting", "returned"}
    /\ message \in Messages
    /\ continue_on_error \in BOOLEAN /\ forwarded \in BOOLEAN
    /\ todo \in Seq(Tranceivers)
    /\ offered \in Seq([to : Tranceivers, answer : Answers])
    /\ rc \in Returned

Offered == {o.to : o \in ToSet(offered)}

\* Which tranceivers the configured calls, taken one by one, allow m to go to.
AskedByBridge(m) ==
    {c[2] : c \in {d \in called : /\ d[1] = Source[m] /\ d[1] # d[2]
                                  /\ \/ d[3] = NoFilter
                                     \/ d[3] \in Filters /\ m \in Passes[d[3]]}}

AskedByRoute(m) ==
    UNION {ToSet(r.out) : r \in {s \in routed : RouteApplies(s, m)}}

Asked(m) == AskedByBridge(m) \cup AskedByRoute(m)

(***************************************************************************)
(* A message only goes where a mapping of the configuration sends it: how  *)
(* mappings are grouped by their filter never lets a message past a filter *)
(* or back out of where it came in. (switchboard.cpp:15-45, 60-80)         *)
(***************************************************************************)
OnlyWhereAsked == phase = "returned" => Offered \subseteq Asked(message)

(***************************************************************************)
(* What the caller is told.  TE_filter: nobody was offered the message.    *)
(* TE_ok: somebody was.  Anything else: the call was not to continue on    *)
(* errors, and this is the answer of the target it stopped at.             *)
(* (switchboard.cpp:73-74, 129-142)                                        *)
(***************************************************************************)
VerdictIsRight ==
    phase = "returned" =>
        CASE rc = "TE_filter" -> offered = <<>>
          [] rc = "TE_ok"     -> offered # <<>>
          [] OTHER            -> /\ ~continue_on_error
                                 /\ offered # <<>> /\ Last(offered).answer = rc

(***************************************************************************)
(* Every mapping of the configuration takes effect, and a failing target   *)
(* costs the others nothing: a call that continues on errors offers the    *)
(* message to everyone the mappings ask for.  ham-router.cfg lines 225-238 *)
(* map ax0 once without and once with a filter and comment both as         *)
(* sending, but add_bridge_mapping() drops the second.                     *)
(* (switchboard.cpp:29-44, 60-134)                                         *)
(***************************************************************************)
EveryMappingCounts ==
    phase = "returned" /\ continue_on_error => Asked(message) \subseteq Offered

OneFilter(t) ==
    \A c, d \in {e \in called : e[1] = t /\ e[2] # t} : c[3] = d[3]

(***************************************************************************)
(* It does hold for a tranceiver that has the same filter, or none, in all *)
(* its bridge mappings, whatever the others have.                          *)
(* (switchboard.cpp:29-44, 60-134)                                         *)
(***************************************************************************)
MappingsOfOneFilterCount == OneFilter(Source[message]) => EveryMappingCounts
=============================================================================
