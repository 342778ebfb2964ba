------------------------------ MODULE Traffic --------------------------------
(* The messages of a run, for the outlets that main hands them to. *)
CONSTANT Messages
=============================================================================
