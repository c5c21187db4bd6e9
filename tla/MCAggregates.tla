---------------------------- MODULE MCAggregates ----------------------------
(***************************************************************************)
(* Both aggregate scenarios, with the retries and defects the .cfg allows. *)
(***************************************************************************)
EXTENDS Aggregates
=============================================================================
