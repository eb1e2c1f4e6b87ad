--------------------------- MODULE MCBeliefFrame ---------------------------
(* Instances of BeliefFrame: two or six hypotheses, a unit of 0.025.       *)
EXTENDS BeliefFrame

Signal(id, type, lik, unresolved, fit, verifiability, external, root) ==
  [id |-> id, type |-> type, targets |-> DOMAIN lik, likelihoods |-> lik,
   unresolved |-> unresolved, fit |-> fit, independent |-> id # 15,
   verifiability |-> verifiability, external |-> external, root |-> root]

SD == "strongly_disconfirming"
MD == "moderately_disconfirming"
MC == "moderately_confirming"
SC == "strongly_confirming"
N  == "neutral"

(* Events of an exclusive-open frame: against every hypothesis (1);         *)
(* for an alternative, out of a tool (2, 3) or of model reasoning (4, 5),  *)
(* the last one also for hypothesis 1; for both hypotheses (6).            *)
OpenEvents ==
  {Signal(1, "counterevidence", <<MD, MD, MD>>, N, "explained_by_named", "low", TRUE, 1),
   Signal(2, "other", <<MD, SD>>, SC, "supports_unresolved", "high", TRUE, 2),
   Signal(3, "counterevidence", <<N, MD, MD>>, MC, "supports_unresolved", "moderate", TRUE, 3),
   Signal(4, "other", <<MD, N>>, SC, "supports_unresolved", "high", FALSE, 4),
   Signal(5, "other", <<SC, N>>, MC, "supports_unresolved", "moderate", FALSE, 5),
   Signal(6, "other", <<SC, SC>>, N, "explained_by_named", "low", TRUE, 5)}

(* Events of the other frames: counterevidence, twice against all          *)
(* hypotheses alike (12, 16), an anomaly, support.                         *)
ClosedEvents ==
  {Signal(11, "counterevidence", <<SD, MD>>, "none", "explained_by_named", "low", TRUE, 1),
   Signal(12, "counterevidence", [i \in 1 .. 6 |-> SD], "none", "explained_by_named", "low", TRUE, 2),
   Signal(13, "anomaly", <<N, N>>, "none", "underdetermined", "low", FALSE, 3),
   Signal(14, "other", <<SC, N>>, "none", "explained_by_named", "low", TRUE, 4),
   Signal(15, "counterevidence", <<MD, N>>, "none", "explained_by_named", "low", TRUE, 5),
   Signal(16, "counterevidence", [i \in 1 .. 6 |-> MD], "none", "explained_by_named", "low", TRUE, 6)}

AllEvents == OpenEvents \cup ClosedEvents

Of(competition, coverage, expander, priors) ==
  [competition |-> competition, coverage |-> coverage, expander |-> expander,
   priors |-> priors]

Evens == <<Total \div 2, Total \div 2>>
Quarters == <<Total \div 4, Total \div 4>>

(* A multiple-choice question with as many choices as framing allows.      *)
SixChoices == <<53, 53, 53, 53, 54, 54>>

AllSetups ==
  {Of("exclusive", "open", TRUE, Quarters), Of("exclusive", "open", FALSE, Quarters),
   Of("exclusive", "exhaustive", FALSE, Evens),
   Of("exclusive", "exhaustive", FALSE, SixChoices),
   Of("independent", "open", TRUE, Evens),
   Of("independent", "exhaustive", FALSE, Evens)}

ExhaustiveSetup == {Of("exclusive", "exhaustive", FALSE, Evens)}
=============================================================================
