------------------------- MODULE CapabilityPromise --------------------------
(***************************************************************************)
(* What a capability experiment promises (evaluation/artifacts.py and      *)
(* scoring.py): a case settles once, with one result, and stays settled;   *)
(* the report is published when every case has settled, with those         *)
(* results, and stays what it is.  How runs are resumed, how often a case  *)
(* is tried and which files are written in between does not show.          *)
(***************************************************************************)
CONSTANTS
  Tasks,     (* a case in one of the two arms                              *)
  Outcomes   (* what a task can settle with                                *)

VARIABLES
  settled,   (* the outcome of each task, or "open"                        *)
  published  (* the report: the outcomes it was made of, or <<>>           *)

Init ==
  /\ settled = [k \in Tasks |-> "open"]
  /\ published = <<>>

Settle(k) ==
  /\ settled[k] = "open"
  /\ \E o \in Outcomes : settled' = [settled EXCEPT ![k] = o]
  /\ UNCHANGED published

Publish ==
  /\ published = <<>>
  /\ \A k \in Tasks : settled[k] # "open"
  /\ published' = settled
  /\ UNCHANGED settled

Next == (\E k \in Tasks : Settle(k)) \/ Publish

Spec == Init /\ [][Next]_<<settled, published>>
=============================================================================
