---------------------------- MODULE MCQuestionRun ----------------------------
(* Instances of the regimes.                                               *)
EXTENDS Regimes
=============================================================================
