----------------------------- MODULE KissChannel -----------------------------
(***************************************************************************)
(* What KISS framing promises: frames come out as they went in, in order   *)
(* and none twice, and as long as the line works and somebody listens each *)
(* of them does.                                                           *)
(***************************************************************************)
EXTENDS Sequences, SequencesExt

CONSTANT Payloads

VARIABLES sent, received, up

vars == <<sent, received, up>>

Init == sent = <<>> /\ received = <<>> /\ up = TRUE

Send == /\ \E p \in Payloads : sent' = Append(sent, p)
        /\ UNCHANGED <<received, up>>

Receive == /\ up
           /\ IsStrictPrefix(received, sent)
           /\ received' = Append(received, sent[Len(received) + 1])
           /\ UNCHANGED <<sent, up>>

\* The line is closed or the listener stops.
Down == up /\ up' = FALSE /\ UNCHANGED <<sent, received>>

Next == Send \/ Receive \/ Down

Spec == Init /\ [][Next]_vars /\ WF_vars(Receive)
=============================================================================
