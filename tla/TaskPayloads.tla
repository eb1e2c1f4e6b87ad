---------------------------- MODULE TaskPayloads ----------------------------
(***************************************************************************)
(* What the structured tasks of a question accept of a model's answer:     *)
(* admission (task_admission.py), framing (task_framing.py), probe design  *)
(* (probe_design.py), evidence judgment (model_gateway.py, evidence.py),   *)
(* expansion (hypothesis_expansion.py), answer projection (projections.py) *)
(* and the plan and repair of a python probe (evaluation/python_probe.py). *)
(*                                                                         *)
(* A payload is a record of the features that its validators tell apart.   *)
(* Missing and unknown fields, empty texts, repeated statements and secret *)
(* material are one feature, "clean"; a payload that is not a JSON object  *)
(* never gets here (ProviderCall).  A reading is what the validator        *)
(* returns, or Rejected.  The readings of a task are sets computed once.   *)
(***************************************************************************)
EXTENDS Naturals, FiniteSets

Rejected == [status |-> "rejected"]

(* Task kinds: "decision" stands for every open kind but exact_answer.     *)
Kinds == {"multiple_choice", "exact_answer", "decision"}
OpenKinds == Kinds \ {"multiple_choice"}
Relationships == {"selection", "synthesis"}

-----------------------------------------------------------------------------
(* Admission.  An outline is the strongest relationship it permits.        *)

AdmissionPayloads ==
  [status: {"admitted", "needs_reframing", "out_of_scope"},
   kind: Kinds \cup {"none"}, outline: Relationships \cup {"none"},
   questions: BOOLEAN, clean: BOOLEAN]

(* TaskAdmissionDecision.validate_status_contract.                         *)
StatusContract(p) ==
  /\ p.status = "admitted" => p.kind # "none" /\ p.outline # "none"
  /\ p.status = "needs_reframing" => p.questions
  /\ p.status = "out_of_scope" => p.kind = "none" /\ p.outline = "none"

Decision(p) == [status |-> p.status, kind |-> p.kind, outline |-> p.outline]

(* _decision_from_mapping.                                                 *)
AdmissionReading(p) ==
  IF p.clean /\ StatusContract(p) THEN Decision(p) ELSE Rejected

AdmissionReadings == {AdmissionReading(p) : p \in AdmissionPayloads}

(* ExplicitTaskAdmitter.assess: listed choices are a multiple-choice task, *)
(* seeds a task of the kind the caller gave.                               *)
ExplicitDecision(kind) ==
  [status |-> "admitted", kind |-> kind,
   outline |-> IF kind = "multiple_choice" THEN "selection" ELSE "synthesis"]

-----------------------------------------------------------------------------
(* Framing.  Masses are counted in parts of 1/(2n) for n named hypotheses, *)
(* so that 1/n is 2, one half is n and a full distribution is 2n.          *)

NamedCounts == {1, 2, 7}

FramePayloads ==
  [kind: Kinds, relationship: Relationships, outline: Relationships,
   competition: {"exclusive", "independent"}, coverage: {"open", "exhaustive"},
   named: NamedCounts, values: {"none", "some", "typed", "mistyped", "repeated"},
   kept: BOOLEAN, clean: BOOLEAN]

(* Mutated form of NamedLimit: one candidate is enough for every kind.     *)
OneIsEnough(kind) == 1 .. 6

(* _validate_native_hypothesis_count.                                      *)
NamedLimit(kind) == IF kind = "exact_answer" THEN 1 .. 6 ELSE 2 .. 6

ExclusiveOpen(f) == f.competition = "exclusive" /\ f.coverage = "open"

(* _canonicalize_native_frame.  "kept" says that value type, decision form *)
(* and, for an exact answer, the admitted sections are in the contract.    *)
(* The answer values of an exact answer are typed and unique; other kinds  *)
(* have none.                                                              *)
Canonical(p, decision) ==
  /\ decision.status = "admitted" /\ p.kind = decision.kind
  /\ p.kept /\ p.outline = decision.outline
  /\ p.relationship = "synthesis" => p.outline = "synthesis"
  /\ p.named \in NamedLimit(p.kind)
  /\ IF p.kind = "exact_answer"
     THEN p.relationship = "selection" /\ ExclusiveOpen(p) /\ p.values = "typed"
     ELSE p.kind = "multiple_choice" \/ p.values = "none"

(* The priors of task_frame_from_mapping: half of an exclusive-open frame  *)
(* is unresolved, members of an independent frame have one half each.      *)
NativePrior(p) ==
  IF p.competition = "independent" THEN p.named
  ELSE IF p.coverage = "open" THEN 1 ELSE 2

NativeReserve(p) == IF ExclusiveOpen(p) THEN p.named ELSE 0

Frame(p, prior, reserve) ==
  [status |-> "framed", kind |-> p.kind, relationship |-> p.relationship,
   competition |-> p.competition, coverage |-> p.coverage, named |-> p.named,
   valued |-> p.values = "typed", prior |-> prior, reserve |-> reserve]

(* HypothesisFrame.validate_frame and TaskFrame.validate_frame.            *)
FrameAccepted(f) ==
  /\ f.named \in NamedLimit(f.kind)
  /\ IF f.competition = "exclusive"
     THEN /\ f.named * f.prior + f.reserve = 2 * f.named
          /\ f.coverage = "exhaustive" => f.reserve = 0
     ELSE f.reserve = 0
  /\ f.kind = "multiple_choice" =>
       f.competition = "exclusive" /\ f.coverage = "exhaustive"
  /\ f.kind \in {"multiple_choice", "exact_answer"} =>
       f.relationship = "selection"
  /\ f.kind = "exact_answer" => ExclusiveOpen(f)

(* task_frame_from_mapping.                                                *)
FrameReading(p, decision) ==
  LET f == Frame(p, NativePrior(p), NativeReserve(p))
  IN IF p.clean /\ p.kind # "multiple_choice" /\ Canonical(p, decision)
        /\ FrameAccepted(f)
     THEN f ELSE Rejected

AdmittedDecisions == [status: {"admitted"}, kind: Kinds, outline: Relationships]

FrameReadings ==
  [d \in AdmittedDecisions |-> {FrameReading(p, d) : p \in FramePayloads}]

(* _frame_choices: a selection among n labels, which are the values.       *)
ChoiceFrame(n) ==
  Frame([kind |-> "multiple_choice", relationship |-> "selection",
         competition |-> "exclusive", coverage |-> "exhaustive",
         named |-> n, values |-> "typed"], 2, 0)

-----------------------------------------------------------------------------
(* Probe design.  A proposal names targets, the first "known" of which are *)
(* distinct active hypotheses; proposals with the same identity are one.   *)

Purposes == {"discriminate", "falsify"}  (* the first stands for frame_coverage too *)

ProbeProposals ==
  [purpose: Purposes, known: 0 .. 2, unknown: BOOLEAN, available: BOOLEAN]

MaxProposals == 3

DesignPayloads ==
  {{}} \cup {{p} : p \in ProbeProposals}
       \cup {{p, q} : p, q \in ProbeProposals}
       \cup {[purpose: Purposes, known: {1, 2}, unknown: {FALSE}, available: {TRUE}]}

(* _validate_proposals: targets are active hypotheses.                     *)
KnownTargets(p, named) == p.known \in 1 .. named /\ ~p.unknown

(* The first design of an open frame asks for two hypotheses at once.  The *)
(* proposals of unavailable capabilities count.                            *)
InitialCoverage(proposals, named) ==
  \E p \in proposals : p.purpose = "discriminate" /\ p.known >= 2

(* ModelProbeDesigner: what _validate_proposals and _result_for_proposals  *)
(* make of a response; candidates need an available capability.            *)
DesignReading(proposals, named, initialOpen) ==
  IF /\ Cardinality(proposals) \in 1 .. MaxProposals
     /\ \A p \in proposals : KnownTargets(p, named)
     /\ initialOpen => InitialCoverage(proposals, named)
  THEN [status |-> "designed", candidates |-> \E p \in proposals : p.available]
  ELSE Rejected

DesignReadings ==
  [named \in 1 .. 6 |-> [initialOpen \in BOOLEAN |->
     {DesignReading(ps, named, initialOpen) : ps \in DesignPayloads}]]

-----------------------------------------------------------------------------
(* Evidence judgment of one signal, for the target hypotheses of its       *)
(* probe.  Bands are grouped by what the validator asks of them.           *)

JudgmentPayloads ==
  [targets: {"equal", "fewer", "more"},
   unresolved: {"none", "confirming", "neutral", "disconfirming"},
   fit: {"explained_by_named", "underdetermined", "supports_unresolved"},
   clean: BOOLEAN]

(* evidence_judgment_from_mapping and _validated_evidence_judgment.        *)
JudgmentAccepted(p, exclusiveOpen) ==
  /\ p.clean /\ p.targets = "equal"
  /\ exclusiveOpen <=> p.unresolved # "none"
  /\ p.fit = "supports_unresolved" => p.unresolved = "confirming"
  /\ p.fit = "explained_by_named" => p.unresolved # "confirming"
  /\ p.fit = "underdetermined" /\ exclusiveOpen => p.unresolved = "neutral"

JudgmentReading(p, exclusiveOpen) ==
  IF JudgmentAccepted(p, exclusiveOpen)
  THEN [status |-> "judged", outside |-> p.fit = "supports_unresolved"]
  ELSE Rejected

JudgmentReadings ==
  [open \in BOOLEAN |-> {JudgmentReading(p, open) : p \in JudgmentPayloads}]

-----------------------------------------------------------------------------
(* Expansion: one to three proposals.  What the service does with them is  *)
(* the subject of BeliefFrame.                                             *)

ExpansionPayloads == [candidates: 0 .. 4, clean: BOOLEAN]

ExpansionReadings ==
  {IF p.clean /\ p.candidates \in 1 .. 3 THEN [status |-> "expanded"] ELSE Rejected
     : p \in ExpansionPayloads}

(* Synthesis of an answer: the contract's sections and admitted evidence.  *)
ProjectionPayloads == [sections: {"equal", "other"},
                       cites: {"nothing", "admitted", "other"}, clean: BOOLEAN]

(* _validate_synthesis_response.                                           *)
ProjectionReading(p, evidence) ==
  IF p.clean /\ p.sections = "equal"
     /\ p.cites \in {"nothing"} \cup IF evidence THEN {"admitted"} ELSE {}
  THEN [status |-> "synthesis"] ELSE Rejected

ProjectionReadings ==
  [evidence \in BOOLEAN |->
     {ProjectionReading(p, evidence) : p \in ProjectionPayloads}]

(* Python probe: the plan names known targets and has code just when its   *)
(* mode is python; a repair is an object with code.                        *)
PlanPayloads == [mode: {"python", "reasoning", "other"}, targets: BOOLEAN,
                 code: BOOLEAN, clean: BOOLEAN]

(* python_probe_plan_from_mapping.                                         *)
PlanReading(p) ==
  IF p.clean /\ p.targets /\ p.mode # "other" /\ (p.mode = "python" <=> p.code)
  THEN [status |-> "planned", mode |-> p.mode] ELSE Rejected

PlanReadings == {PlanReading(p) : p \in PlanPayloads}
=============================================================================
