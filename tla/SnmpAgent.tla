------------------------------ MODULE SnmpAgent ------------------------------
(***************************************************************************)
(* snmp.cpp and snmp-elem.cpp: the agent answers the requests of a manager *)
(* that walks the tree of OIDs.  Request and answer cross the network as   *)
(* BER, of which what the codec does to an OID is modelled byte by byte.   *)
(***************************************************************************)
EXTENDS SnmpTree

CONSTANT Starts     \* the OIDs a walk may start from

\* The largest number that "%d" and atoll() leave as it is.
MaxNumber == 2147483647

\* Every OID that is registered lies under 1.3.6.1.2.1.
\* (configuration.cpp:98-107, 238-245, seen.cpp:131, tranceiver.cpp:205-211)
ASSUME AgentAssumption ==
    /\ \A o \in Oids : /\ o \in Seq(0..MaxNumber)
                       /\ Len(o) > 2 /\ o[1] = 1 /\ o[2] = 3
    /\ \A o \in Starts : o \in Seq(0..MaxNumber) /\ o # <<>>

VARIABLES
    walk,       \* "idle", "walking", "done"
    from,       \* where the walk started
    cur,        \* the OID of its next request
    visited,    \* observer: the bindings it got
    back        \* observer: an answer to a known OID went back

agentVars == <<treeVars, walk, from, cur, visited, back>>

-----------------------------------------------------------------------------
(* OIDs on the network.                                                    *)

(* Deliberately wrong variants, used to show that the properties bite. *)
Groups_LowFirst(v) ==
    LET low[w \in 0..v] ==
            IF w < 128 THEN <<w>> ELSE <<128 + (w % 128)>> \o low[w \div 128]
    IN  low[v]

\* The bytes of one number: 7 bits each, the highest first, with the top bit
\* set in all but the last.
Groups(v) ==
    LET high[w \in 0..v] ==
            IF w = 0 THEN <<>> ELSE Append(high[w \div 128], 128 + (w % 128))
    IN  Append(high[v \div 128], v % 128)

\* snmp_oid::snmp_oid(): "1.3." becomes one byte.
SnmpOid(o) ==
    LET short == Len(o) > 2 /\ Prefix(o, 2) = <<1, 3>>
        rest  == IF short THEN SubSeq(o, 3, Len(o)) ELSE o
        v[i \in 0..Len(rest)] ==
            IF i = 0 THEN IF short THEN <<43>> ELSE <<>>
                     ELSE v[i - 1] \o Groups(rest[i])
    IN  v[Len(rest)]

\* The text of an OID that does not begin with 1.3 begins with a dot.
Nameless == -1

\* What get_OID() has read after byte p, the i-th one.
Read(got, p, i) ==
    LET v == got.v * 128 + (p % 128)
    IN  IF p >= 128
        THEN [oid |-> got.oid, v |-> v]
        ELSE [oid |-> IF i = 1 /\ v = 43 THEN <<1, 3>>
                      ELSE IF got.oid = <<>> THEN <<Nameless, v>>
                      ELSE Append(got.oid, v),
              v   |-> 0]

\* get_OID() of bytes whose last one ends a number.
GetOid(bytes) ==
    LET got[i \in 0..Len(bytes)] ==
            IF i = 0 THEN [oid |-> <<>>, v |-> 0]
                     ELSE Read(got[i - 1], bytes[i], i)
    IN  got[Len(bytes)].oid

OverNetwork(o) == GetOid(SnmpOid(o))

-----------------------------------------------------------------------------
AgentInit ==
    /\ TreeInit
    /\ walk = "idle"
    /\ from = <<>> /\ cur = <<>>
    /\ visited = {}
    /\ back = FALSE

StartWalk ==
    /\ serving /\ walk \in {"idle", "done"}
    /\ \E o \in Starts : cur' = o /\ from' = o
    /\ walk' = "walking"
    /\ visited' = {}
    /\ back' = FALSE
    /\ UNCHANGED treeVars

\* process_BER(): a GetNext request and its answer, which is an error when
\* there is no next OID.
GetNext ==
    /\ walk = "walking"
    /\ \E o \in {OverNetwork(cur)} : \E next \in {FindNext(o)} :
          \/ /\ next = <<>>
             /\ walk' = "done"
             /\ UNCHANGED <<cur, visited, back>>
          \/ /\ next # <<>>
             /\ cur' \in {OverNetwork(next)}
             /\ visited' = visited \cup {<<cur', Data(next)>>}
             /\ back' = (back \/ (cur \in Nodes /\ ~Less(cur, cur')))
             /\ UNCHANGED walk
    /\ UNCHANGED <<treeVars, from>>

AgentNext == \/ TreeNext /\ UNCHANGED <<walk, from, cur, visited, back>>
             \/ StartWalk \/ GetNext

AgentSpec == AgentInit /\ [][AgentNext]_agentVars /\ WF_agentVars(GetNext)

-----------------------------------------------------------------------------
(***************************************************************************)
(* A walk that came to its end has seen each OID behind its start, once,   *)
(* in ascending order (a manager gives up on a walk that goes back) and    *)
(* with the value that was registered for it, large numbers in OIDs        *)
(* notwithstanding.  A walk from an OID the tree does not have starts      *)
(* wherever the part the tree has leads, before that OID or behind it, and *)
(* only then ascends. (snmp-data.cpp:180-281, snmp.cpp:62-93, 264-333,     *)
(* snmp-elem.cpp:174-218)                                                  *)
(***************************************************************************)
WalkIsComplete ==
    /\ ~back
    /\ walk = "done" /\ from \in Nodes =>
          visited = {<<o, <<"value of", o>>>> : o \in {p \in registered : Less(from, p)}}

(***************************************************************************)
(* Every walk comes to its end, from an unknown OID too.                   *)
(* (snmp-data.cpp:256-280)                                                 *)
(***************************************************************************)
WalkEnds == walk = "walking" ~> walk = "done"
=============================================================================
