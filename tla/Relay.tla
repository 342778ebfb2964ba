-------------------------------- MODULE Relay --------------------------------
(***************************************************************************)
(* What the router promises, seen from outside: one queue per tranceiver,  *)
(* from which messages are taken in the order they were accepted.  A       *)
(* message that is taken is either dropped, where there is a global        *)
(* repetition filter, or sent once to each of its targets, in order and    *)
(* before anything else is sent.  As long as the router runs, every        *)
(* accepted message is taken.                                              *)
(***************************************************************************)
EXTENDS Sequences

CONSTANTS
    Tranceivers, Messages, Source,
    TargetsOf,      \* Messages -> Seq(Tranceivers)
    MayDrop         \* there is a global repetition filter

VARIABLES
    queue,      \* accepted messages of each tranceiver, not yet taken
    accepted,   \* all messages accepted so far
    log,        \* what was sent: <<message, target>>, in order
    running

vars == <<queue, accepted, log, running>>

Sends(m) == [i \in DOMAIN TargetsOf[m] |-> <<m, TargetsOf[m][i]>>]

Init ==
    /\ queue = [t \in Tranceivers |-> <<>>]
    /\ accepted = {}
    /\ log = <<>>
    /\ running = TRUE

Accept(m) ==
    /\ m \notin accepted
    /\ accepted' = accepted \cup {m}
    /\ queue' = [queue EXCEPT ![Source[m]] = Append(@, m)]
    /\ UNCHANGED <<log, running>>

Forward(t) ==
    /\ running
    /\ queue[t] # <<>>
    /\ queue' = [queue EXCEPT ![t] = Tail(@)]
    /\ log' = log \o Sends(Head(queue[t]))
    /\ UNCHANGED <<accepted, running>>

Drop(t) ==
    /\ running /\ MayDrop
    /\ queue[t] # <<>>
    /\ queue' = [queue EXCEPT ![t] = Tail(@)]
    /\ UNCHANGED <<accepted, log, running>>

Stop ==
    /\ running
    /\ running' = FALSE
    /\ UNCHANGED <<queue, accepted, log>>

Next ==
    \/ \E m \in Messages : Accept(m)
    \/ \E t \in Tranceivers : Forward(t) \/ Drop(t)
    \/ Stop

Spec ==
    /\ Init /\ [][Next]_vars
    /\ \A t \in Tranceivers : WF_vars(Forward(t) \/ Drop(t))
=============================================================================
