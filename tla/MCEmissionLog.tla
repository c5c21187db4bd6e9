---------------------------- MODULE MCEmissionLog ----------------------------
(***************************************************************************)
(* EmissionLog over two stimuli, with the defects each .cfg allows.        *)
(***************************************************************************)
EXTENDS EmissionLog
=============================================================================
