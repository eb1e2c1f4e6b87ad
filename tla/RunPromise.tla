----------------------------- MODULE RunPromise -----------------------------
(***************************************************************************)
(* What a hosted run promises the page that asked for it: one verdict,     *)
(* and the right one, unless the connection broke.                         *)
(***************************************************************************)
VARIABLES
  outcome,  (* what became of the run                                      *)
  sound,    (* whether the connection still stands                         *)
  verdict   (* what the page says became of it                             *)

promiseVars == <<outcome, sound, verdict>>

Outcomes == {"completed", "refused", "failed", "rejected"}

Init == outcome = "running" /\ sound = TRUE /\ verdict = "none"

Decide ==
  /\ outcome = "running"
  /\ outcome' \in Outcomes
  /\ UNCHANGED <<sound, verdict>>

Break ==
  /\ sound /\ verdict = "none"
  /\ sound' = FALSE
  /\ UNCHANGED <<outcome, verdict>>

Tell ==
  /\ verdict = "none"
  /\ verdict' \in (IF outcome = "running" THEN {} ELSE {outcome})
                    \cup (IF sound THEN {} ELSE {"error"})
  /\ UNCHANGED <<outcome, sound>>

Next == Decide \/ Break \/ Tell

Spec == Init /\ [][Next]_promiseVars /\ WF_promiseVars(Decide)
          /\ WF_promiseVars(Tell)
=============================================================================
