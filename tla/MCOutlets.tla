------------------------------ MODULE MCOutlets ------------------------------
(* Two messages with the same bytes, from one call. *)
EXTENDS Outlets

CONSTANTS m1, m2, call

MCMessages == {m1, m2}
MCFrom == [m \in MCMessages |-> call]
MCRaw == [m \in MCMessages |-> 1]
=============================================================================
