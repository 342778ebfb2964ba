----------------------------- MODULE MCSnmpTree -----------------------------
(* A cut-out of the OIDs configuration.cpp and tranceiver.cpp register, with *)
(* most of the long common prefix left out: leaves of unequal depth, numbers *)
(* that order otherwise than their texts (2 and 10), and one that takes two  *)
(* bytes in BER.                                                             *)
EXTENDS SnmpAgent

MCOids == {<<1, 3, 1, 1, 0>>, <<1, 3, 1, 2, 0>>, <<1, 3, 2, 1, 0>>,
           <<1, 3, 2, 2, 1, 2>>, <<1, 3, 2, 2, 1, 10>>, <<1, 3, 2, 300, 1>>,
           <<1, 3, 31, 1>>}
MCStarts == {<<1, 3>>, <<1, 3, 2>>, <<1, 3, 1, 1, 0>>, <<1, 3, 2, 5>>}
=============================================================================
