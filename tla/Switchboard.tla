----------------------------- MODULE Switchboard -----------------------------
(***************************************************************************)
(* switchboard.cpp: where a message goes.  The two tables and what the     *)
(* code does with them, as operators on their values.                      *)
(*                                                                         *)
(* A filter stands for its (pattern, ignore_if_field_is_missing) pair,     *)
(* which is what the code compares; the messages it lets pass are given.   *)
(* A regular expression stands for the callsigns it matches.               *)
(***************************************************************************)
EXTENDS Integers, Sequences, SequencesExt, FiniteSetsExt

CONSTANTS
    Tranceivers,
    Messages,
    Source,         \* Messages -> Tranceivers: m.get_source()
    FromCall,       \* the "from" of a message, NoField when it has none
    ToCall,         \* the "to" of a message, NoField when it has none
    Filters,
    Passes,         \* Filters -> SUBSET Messages: execute_filter() holds
    NoFilter,       \* the mapping has no filter
    NoTranceiver,   \* t_incoming_via = nullptr
    NoField         \* the message has no such field

ASSUME SwitchboardAssumption ==
    /\ Source \in [Messages -> Tranceivers]
    /\ Passes \in [Filters -> SUBSET Messages]
    /\ NoFilter \notin Filters /\ NoTranceiver \notin Tranceivers

\* sb_bridge_mapping_t, and bridge_map: tranceiver -> sequence of these.
BridgeMapping(f, ts) == [f |-> f, t |-> ts]
NoBridges == <<>>

\* sb_routing_mapping_t; from and to are sets of callsigns.
RoutingMapping(from, to, via, out) ==
    [from |-> from, to |-> to, via |-> via, out |-> out]

-----------------------------------------------------------------------------
\* The tables with the first mapping of `in'.
WithFirst(bridges, in, mapping) ==
    [x \in DOMAIN bridges \cup {in} |-> IF x = in THEN <<mapping>> ELSE bridges[x]]

(* Deliberately wrong variants, used to show that the properties bite. *)
AddBridge_AnyFilter(bridges, in, out, f) ==
    CASE in = out -> bridges
      [] in # out /\ in \notin DOMAIN bridges ->
            WithFirst(bridges, in, BridgeMapping(f, <<out>>))
      [] OTHER -> [bridges EXCEPT ![in][1].t = Append(@, out)]

\* The mappings add_bridge_mapping() finds to have the same filter, or none.
SameFilter(mappings, f) == {i \in DOMAIN mappings : mappings[i].f = f}

\* add_bridge_mapping(in, out, f).  When `in' already has mappings and none
\* of them has filter f, the loop ends without having done anything.
AddBridge(bridges, in, out, f) ==
    CASE in = out -> bridges
      [] in # out /\ in \notin DOMAIN bridges ->
            WithFirst(bridges, in, BridgeMapping(f, <<out>>))
      [] in # out /\ in \in DOMAIN bridges ->
            LET same == SameFilter(bridges[in], f)
            IN  IF same = {}
                THEN bridges
                ELSE [bridges EXCEPT ![in][Min(same)].t = Append(@, out)]

\* add_routing_mapping(m)
AddRouting(routes, mapping) == Append(routes, mapping)

-----------------------------------------------------------------------------
\* The mapping has no filter or the message passes it.
BridgeApplies(mapping, m) ==
    mapping.f = NoFilter \/ (mapping.f # NoFilter /\ m \in Passes[mapping.f])

\* Both callsigns are there and match, and the message came in the right way.
RouteApplies(mapping, m) ==
    /\ FromCall[m] \in mapping.from
    /\ ToCall[m] \in mapping.to
    /\ mapping.via \in {NoTranceiver, Source[m]}

\* The targets of the first loop of put_message(), in order.
BridgeTargets(bridges, from, m) ==
    IF from \notin DOMAIN bridges
    THEN <<>>
    ELSE FlattenSeq([i \in DOMAIN bridges[from] |->
                        IF BridgeApplies(bridges[from][i], m)
                        THEN bridges[from][i].t ELSE <<>>])

\* The targets of the second loop, in order.
RouteTargets(routes, m) ==
    FlattenSeq([i \in DOMAIN routes |->
                   IF RouteApplies(routes[i], m) THEN routes[i].out ELSE <<>>])

\* Whom put_message(from, m, true) offers m to, in order.
Targets(bridges, routes, from, m) ==
    BridgeTargets(bridges, from, m) \o RouteTargets(routes, m)
=============================================================================
