--------------------------- MODULE MCCapabilityRun ---------------------------
(* Instances of CapabilityRun.                                             *)
EXTENDS CapabilityRun

FirstCase == {1}
=============================================================================
