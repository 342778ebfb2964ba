------------------------------ MODULE SnmpTree ------------------------------
(***************************************************************************)
(* snmp-data.cpp: the tree of OIDs.  They are registered while the         *)
(* configuration is read; the agent's thread (SnmpAgent) is started after  *)
(* that (main.cpp:94-98), so the tree does not change under its requests.  *)
(*                                                                         *)
(* An OID is a sequence of numbers, <<>> the top of the tree.              *)
(***************************************************************************)
EXTENDS Integers, Sequences, SequencesExt, FiniteSetsExt

CONSTANT Oids       \* what may be registered

ASSUME SnmpAssumption ==
    /\ Oids # {}
    /\ \A o \in Oids : o \in Seq(Nat) /\ Len(o) >= 2
    \* one root, and no OID lies under another one
    /\ \A o, p \in Oids : o[1] = p[1] /\ ~IsStrictPrefix(o, p)

VARIABLES
    kids,       \* for each node of the tree, the numbers of its children
    registered, \* observer: the OIDs registered
    serving     \* the agent's thread is there

treeVars == <<kids, registered, serving>>

-----------------------------------------------------------------------------
Nodes == DOMAIN kids

Prefix(o, k) == SubSeq(o, 1, k)

(* Deliberately wrong variants, used to show that the properties bite. *)
InOrder_AtEnd(s, i) == Append(s, i)

\* Child i goes before the first that is larger, else to the end.
InOrder(s, i) ==
    InsertAt(s, Min({k \in 1..Len(s) : i < s[k]} \cup {Len(s) + 1}), i)

\* The tree with nodes for every prefix of o.
WithOid(o) ==
    [n \in Nodes \cup {Prefix(o, k) : k \in 1..Len(o)} |->
        LET has == IF n \in Nodes THEN kids[n] ELSE <<>>
        IN  IF IsStrictPrefix(n, o) /\ ~Contains(has, o[Len(n) + 1])
            THEN InOrder(has, o[Len(n) + 1])
            ELSE has]

\* "search for end of branch": down along the first child of each node.
FirstLeaf(n) ==
    CHOOSE o \in Nodes :
        /\ kids[o] = <<>> /\ IsPrefix(n, o)
        /\ \A k \in Len(n)..(Len(o) - 1) : o[k + 1] = Head(kids[Prefix(o, k)])

Known_OneShort(o) ==
    Prefix(o, Max({k \in 0..(Len(o) - 1) : Prefix(o, k) \in Nodes}))

\* How much of o the tree has.
Known(o) == Prefix(o, Max({k \in 0..Len(o) : Prefix(o, k) \in Nodes}))

\* The siblings of the node of o at level k that come after it.
Later(o, k) == {i \in ToSet(kids[Prefix(o, k - 1)]) : i > o[k]}

\* The levels of o where the branch has a later sibling, not that of the root.
Forks(o) == {k \in 2..Len(o) : Later(o, k) # {}}

\* "go to a sibbling": the next one at the deepest of these levels, and down.
AfterBranch(o) ==
    LET k == Max(Forks(o))
    IN  FirstLeaf(Append(Prefix(o, k - 1), Min(Later(o, k))))

\* find_next_oid(); <<>> is "".
FindNext(o) ==
    LET leaf == FirstLeaf(Known(o))
    IN  CASE leaf # o                   -> leaf
          [] leaf = o /\ Forks(o) # {}  -> AfterBranch(o)
          [] OTHER                      -> <<>>

\* The order of OIDs.
Less(o, p) ==
    \/ IsStrictPrefix(o, p)
    \/ \E k \in 1..Min({Len(o), Len(p)}) :
          Prefix(o, k - 1) = Prefix(p, k - 1) /\ o[k] < p[k]

-----------------------------------------------------------------------------
\* find_by_oid() of a node: get_data() of an inner node is nullptr.
Data(o) == IF kids[o] = <<>> THEN <<"value of", o>> ELSE <<"null", <<>>>>

TreeInit ==
    /\ kids = [n \in {<<>>} |-> <<>>]
    /\ registered = {}
    /\ serving = FALSE

\* register_oid(); an OID that is already there is left as it is.
Register ==
    /\ ~serving
    /\ \E o \in Oids : kids' = WithOid(o) /\ registered' = registered \cup {o}
    /\ UNCHANGED serving

\* The agent is there; load_configuration() has always registered something.
Serve ==
    /\ ~serving /\ registered # {}
    /\ serving' = TRUE
    /\ UNCHANGED <<kids, registered>>

TreeNext == Register \/ Serve

TreeSpec == TreeInit /\ [][TreeNext]_treeVars

-----------------------------------------------------------------------------
(***************************************************************************)
(* Whatever was registered and in which order: for every OID the tree has, *)
(* leaf or not, GetNext gives the smallest registered OID that is larger,  *)
(* and nothing when there is none. (snmp-data.cpp:127-170, 212-281)        *)
(***************************************************************************)
NextIsSuccessor ==
    serving =>
        \A o \in Nodes \ {<<>>} :
            LET larger == {p \in registered : Less(o, p)}
                next == FindNext(o)
            IN  IF larger = {}
                THEN next = <<>>
                ELSE /\ next \in larger
                     /\ \A p \in larger : p = next \/ Less(next, p)
=============================================================================
