------------------------------ MODULE MCPinBump ------------------------------
(***************************************************************************)
(* PinBump over two revisions of oss, a rewrite of its default branch      *)
(* being a step back from one to the other; and over a third that people   *)
(* name by hand and no crosscheck has tested.                              *)
(***************************************************************************)
EXTENDS PinBump

AnyRun   == Permutations(Runs)
OneStep  == {<<1, 2>>}
TwoSteps == {<<1, 2>>, <<2, 3>>, <<1, 3>>}
=============================================================================
