------------------------------ MODULE HostedRun ------------------------------
(***************************************************************************)
(* A run of a question with everything around it: the host that starts it  *)
(* and reports its end, the model tasks of its stages, the provider calls  *)
(* under them, and the python probes of the evaluation arm.                *)
(*                                                                         *)
(* Hosts: "webui" streams the progress to a page, "json" answers a request *)
(* once (webui.py), "arm" is BayesProbePythonArm and "direct" is           *)
(* DirectFlashArm, whose cases end in a result (evaluation/arms.py).       *)
(* run_question is the sequence of its stages as in QuestionRun, here with *)
(* one probe in a cycle, without ledger, and with what the stages ask a    *)
(* model and say to the observer.                                          *)
(***************************************************************************)
EXTENDS PythonProbe, RunStream

CONSTANTS
  Setups,          (* the hosts, providers and questions a run starts with *)
  MaxCycleAtDeath  (* bound on the cycle in which a case dies              *)

(* The evaluation arms have a provider, and cases whose choices the        *)
(* initializer finds in the question (_initializer_matches, hle.py).       *)
ASSUME HostAssumption ==
  /\ MaxCycleAtDeath \in Nat
  /\ Setups \subseteq
       [host: {"webui", "json", "arm", "direct"}, model: BOOLEAN,
        input: {"choices", "open"}, context: BOOLEAN, stopOnNoProbes: BOOLEAN]
  /\ \A s \in Setups :
       s.host \in {"arm", "direct"} => s.model /\ s.input = "choices"

VARIABLES
  setup,    (* chosen at the start                                         *)
  stage,    (* where the run stands                                        *)
  attempt,  (* how often the case was started                              *)
  run,      (* what the run knows                                          *)
  outcome,  (* what became of it                                           *)
  fault     (* what ended it early, and what was said of that              *)

threadVars == <<setup, stage, attempt, run, outcome, fault>>
sayRest == <<emitter, writer, wire, link, page>>
vars == <<threadVars, probeVars, streamVars>>

Watched == setup.host \in {"webui", "json"}
Explicit == setup.input = "choices"

(* Model tasks are for hosts with a provider; the arm judges and executes  *)
(* probes with it, its other parts are deterministic.                      *)
ModelHost == setup.model /\ Watched

NotFramed == [status |-> "none"]
NewRun ==
  [cycle |-> 0, framing |-> NotFramed, pool |-> FALSE, asked |-> FALSE,
   signals |-> 0, judged |-> FALSE, condemned |-> FALSE, spawned |-> FALSE]
NoFault == [by |-> "none", category |-> "none", attempts |-> 0, stage |-> "none"]

Init ==
  /\ setup \in Setups
  /\ stage = CASE Watched -> "prepare"
               [] setup.host = "arm" -> "admit"
               [] OTHER -> "direct"
  /\ attempt = 1 /\ run = NewRun /\ outcome = "running" /\ fault = NoFault
  /\ ProbeInit /\ StreamInit

At(s) == stage = s /\ outbox = <<>>

(* The thread says something and goes on to stage s.                       *)
Goes(s, said) ==
  /\ stage' = s
  /\ outbox' = IF Watched THEN said ELSE <<>>
  /\ UNCHANGED <<setup, attempt, sayRest>>

Says(event) == Progress(event, run.cycle)

(* A step that asks no model.                                              *)
Local == UNCHANGED probeVars

Starts(name, repairs) ==
  /\ TaskIdle /\ StartTask(name, repairs, ~Watched)
  /\ UNCHANGED <<threadVars, probe, sandboxVars, streamVars>>

(* The result of task t is taken.                                          *)
Takes(t) == Done(t) /\ EndTask /\ UNCHANGED <<probe, sandboxVars>>

-----------------------------------------------------------------------------
(* Ends of a run.                                                          *)

EndSaid(o, event, failureStage) ==
  IF setup.host = "json" THEN <<Response(o, failureStage)>> ELSE <<event>>

(* _provider_runtime_error_message: three errors name their stage, others  *)
(* have the stage of the last progress; a deterministic run names none.    *)
FailureStage(by) ==
  CASE ~setup.model -> "none"
    [] by = "design_probes" -> "probe design"
    [] by = "expand_hypotheses" -> "hypothesis expansion"
    [] by = "project_answer" -> "answer projection"
    [] OTHER -> emitter.stage

Fails(by, category, attempts) ==
  /\ outcome' = "failed"
  /\ fault' = [by |-> by, category |-> category, attempts |-> attempts,
               stage |-> FailureStage(by)]
  /\ Goes("over", EndSaid("failed", Failure(FailureStage(by)), FailureStage(by)))
  /\ UNCHANGED run

(* A case whose hypotheses are not the labels any more is not an answer:   *)
(* the best one is no choice, or there are others beside the choices.      *)
Completes(said) ==
  /\ IF setup.host = "arm" /\ run.spawned
     THEN /\ outcome' = "failed"
          /\ \E category \in {"invalid_final_hypothesis", "hypothesis_space_changed"} :
               fault' = [NoFault EXCEPT !.by = "hypotheses", !.category = category]
     ELSE outcome' = "completed" /\ UNCHANGED fault
  /\ Goes("over", said \o EndSaid("completed", Says("run_completed"), "none"))

(* Mutated form of Caught: the probe gateway lets exceptions through.      *)
NeverCaught == FALSE

(* execute_probe of the python gateway makes signals of its own troubles.  *)
Caught == setup.host = "arm" /\ probe.step # "idle"

(* An exception of a model task leaves run_question.                       *)
TaskFails ==
  /\ outbox = <<>> /\ ~TaskIdle
  /\ task.result.status \in {"failed", "raised"} /\ ~Caught
  /\ IF task.result.status = "raised"
     THEN Fails(task.name, Category(task.result.fault), task.result.attempts)
     ELSE Fails(task.name, "none", 0)
  /\ EndTaskFailed /\ UNCHANGED <<probe, sandboxVars>>

-----------------------------------------------------------------------------
(* The host and the start of a run.                                        *)

(* A malformed request is refused, and a question without choices needs a  *)
(* model.                                                                  *)
Prepare ==
  /\ At("prepare")
  /\ \/ /\ outcome' = "rejected" /\ Goes("over", <<Response("rejected", "none")>>)
     \/ /\ setup.model \/ Explicit
        /\ Goes("admit", <<>>) /\ UNCHANGED outcome
  /\ UNCHANGED <<run, fault>> /\ Local

Admitted(decision) ==
  /\ run' = [run EXCEPT !.framing = decision]
  /\ Goes("frame", <<Progress("run_started", 0), Progress("task_framing_started", 0)>>)
  /\ UNCHANGED <<outcome, fault>>

Refused ==
  /\ outcome' = "refused"
  /\ Goes("over", EndSaid("refused", Progress("task_admission_completed", 0), "none"))
  /\ UNCHANGED <<run, fault>>

(* RoutingTaskAdmitter.                                                    *)
Admit ==
  /\ At("admit")
  /\ \/ Explicit /\ Admitted(ExplicitDecision("multiple_choice")) /\ Local
     \/ ~Explicit /\ Starts("assess_task_admission", 1)
     \/ /\ Takes("assess_task_admission") /\ task.result.status # "failed"
        /\ IF task.result.status = "admitted" THEN Admitted(task.result)
           ELSE Refused

(* The initializer has a candidate for choices and none for open frames.   *)
Framed(frame) ==
  LET said == <<Says("task_framing_completed"), Says("initialization_completed")>>
  IN /\ run' = [run EXCEPT !.framing = frame, !.pool = Explicit]
     /\ IF Explicit THEN Goes("open", said)
        ELSE Goes("design", Append(said, Says("probe_design_started")))
     /\ UNCHANGED <<outcome, fault>>

(* RoutingTaskFramer.                                                      *)
FrameTask ==
  /\ At("frame")
  /\ \/ Explicit /\ Framed(ChoiceFrame(2)) /\ Local
     \/ ~Explicit /\ Starts("frame_open_question", 1)
     \/ /\ Takes("frame_open_question") /\ task.result.status = "framed"
        /\ Framed(task.result)

(* Candidates come from the designer, and after a cycle also from the      *)
(* condition of the answer.  A cycle that asked nothing is the last.       *)
Designed(candidates, said) ==
  IF run.cycle > 0 /\ ~run.asked
  THEN Completes(said) /\ UNCHANGED run
  ELSE /\ run' = [run EXCEPT !.pool = candidates \/ run.cycle > 0,
                             !.asked = FALSE, !.judged = FALSE]
       /\ Goes("open", said)
       /\ UNCHANGED <<outcome, fault>>

DesignProbes ==
  /\ At("design")
  /\ \/ ~ModelHost /\ Designed(TRUE, <<Says("probe_design_completed")>>) /\ Local
     \/ ModelHost /\ Starts("design_probes", 1)
     \/ /\ Takes("design_probes") /\ task.result.status = "designed"
        /\ Designed(task.result.candidates, <<Says("probe_design_completed")>>)

-----------------------------------------------------------------------------
(* A cycle.                                                                *)

OpenCycle ==
  /\ At("open")
  /\ run' = [run EXCEPT !.cycle = @ + 1]
  /\ Goes("plan", <<Progress("cycle_started", run.cycle + 1)>>)
  /\ UNCHANGED <<outcome, fault>> /\ Local

ContextSignals == IF setup.context /\ run.cycle = 1 THEN 1 ELSE 0

(* The planner raises when it has nothing and must not; with context the   *)
(* first cycle goes on without probes.                                     *)
PlanProbes ==
  LET planned == <<Says("probe_set_planned"), Says("probe_execution_started")>>
  IN /\ At("plan")
     /\ CASE run.pool ->
               /\ run' = [run EXCEPT !.asked = TRUE]
               /\ Goes("execute", planned) /\ UNCHANGED <<outcome, fault>>
          [] ~run.pool /\ ~setup.stopOnNoProbes -> Fails("plan", "none", 0)
          [] ~run.pool /\ setup.stopOnNoProbes /\ ContextSignals = 0 ->
               Completes(<<Says("probe_set_planned")>>) /\ UNCHANGED run
          [] OTHER ->
               Goes("execute", planned) /\ UNCHANGED <<run, outcome, fault>>
     /\ Local

Executed ==
  /\ run' = [run EXCEPT !.signals =
               ContextSignals + IF run.asked THEN 1 ELSE 0]
  /\ Goes("judge", <<Says("signals_collected"), Says("evidence_integration_started")>>)
  /\ UNCHANGED <<outcome, fault>>

ExecuteProbe ==
  /\ At("execute") /\ setup.host # "arm"
  /\ \/ (~run.asked \/ ~setup.model) /\ Executed /\ Local
     \/ run.asked /\ setup.model /\ Starts("execute_probe", 0)
     \/ Takes("execute_probe") /\ task.result.status = "signals" /\ Executed

(* The arm's probe gateway, and the exception it does not catch.           *)
ExecutePython ==
  /\ At("execute") /\ setup.host = "arm"
  /\ \/ BeginProbe /\ UNCHANGED <<threadVars, streamVars>>
     \/ ProbeStep(attempt, run.cycle) /\ UNCHANGED <<threadVars, streamVars>>
     \/ EndProbe /\ Executed /\ UNCHANGED taskVars
     \/ /\ probe.step = "launching"
        /\ Fails("sandbox", "provider_error", 0)
        /\ probe' = NoProbe /\ sandbox' = NoExecution
        /\ UNCHANGED <<taskVars, clients, containers>>

(* One judgment for each signal, the context last; a signal that repeats   *)
(* an earlier one needs none.  Only the context, which no model wrote, can *)
(* condemn an exclusive-open frame (BeliefFrame).                          *)
Judged(admitted, outside) ==
  \E condemned \in IF outside /\ ContextSignals = 1 /\ run.signals = 1
                   THEN BOOLEAN ELSE {FALSE} :
    /\ run' = [run EXCEPT !.signals = @ - 1, !.judged = @ \/ admitted,
                          !.condemned = @ \/ condemned]
    /\ UNCHANGED <<setup, stage, attempt, outcome, fault, streamVars>>

(* The repairs of a judgment: none by default, one in the arm.             *)
JudgmentRepairs == IF setup.host = "arm" THEN 1 ELSE 0

JudgeSignal ==
  /\ At("judge") /\ run.signals > 0
  /\ \/ ~setup.model /\ Judged(TRUE, FALSE) /\ Local
     \/ /\ TaskIdle /\ run.cycle > 1
        /\ Judged(FALSE, FALSE) /\ Local
     \/ setup.model /\ Starts("judge_evidence", JudgmentRepairs)
     \/ /\ Takes("judge_evidence") /\ task.result.status \in {"judged", "discarded"}
        /\ Judged(task.result.status = "judged",
                  task.result.status = "judged" /\ task.result.outside)

(* integrate_cycle is done: the frame is assessed, hypotheses may be new.  *)
Integrated(spawned, expanded) ==
  /\ run' = [run EXCEPT !.spawned = @ \/ spawned,
               !.condemned = @ /\ ~expanded,
               !.framing.named = IF expanded THEN 2 ELSE @]
  /\ Goes("project",
          <<Says("frame_adequacy_assessed")>>
            \o (IF spawned THEN <<Says("hypothesis_expansion_completed")>> ELSE <<>>)
            \o <<Says("answer_projection_started")>>)
  /\ UNCHANGED <<outcome, fault>>

(* Hypotheses appear by anomalies in frames that are not exclusive-open,   *)
(* by expansion in those that are; the revalidation may raise.             *)
Integrate ==
  LET expands == ModelHost /\ run.condemned
  IN /\ At("judge") /\ run.signals = 0
     /\ \/ /\ ~expands
           /\ \E spawned \in IF run.judged /\ ~ExclusiveOpen(run.framing)
                             THEN BOOLEAN ELSE {FALSE} : Integrated(spawned, FALSE)
           /\ Local
        \/ ~expands /\ Fails("integrate", "invalid_response", 0) /\ Local
        \/ expands /\ Starts("expand_hypotheses", 1)
        \/ /\ Takes("expand_hypotheses") /\ task.result.status = "expanded"
           /\ Integrated(TRUE, TRUE) \/ Fails("expand_hypotheses", "none", 0)

Projected ==
  /\ Goes("advance", <<Says("answer_projection_completed"), Says("cycle_integrated")>>)
  /\ UNCHANGED <<run, outcome, fault>>

(* TaskAwareAnswerProjector selects without a model; so does the           *)
(* projector of the other hosts.                                           *)
ProjectAnswer ==
  LET synthesis == ModelHost /\ run.framing.relationship = "synthesis"
  IN /\ At("project")
     /\ \/ ~synthesis /\ Projected /\ Local
        \/ synthesis /\ Starts("project_answer", 1)
        \/ Takes("project_answer") /\ task.result.status = "synthesis" /\ Projected

(* The arm has no thresholds and stops for its cycles only.                *)
Advance ==
  /\ At("advance")
  /\ \/ /\ run.cycle = MaxCycles \/ Watched
        /\ Completes(<<>>) /\ UNCHANGED run
     \/ /\ run.cycle < MaxCycles
        /\ Goes("design", <<Says("probe_design_started")>>)
        /\ UNCHANGED <<run, outcome, fault>>
  /\ Local

-----------------------------------------------------------------------------
(* DirectFlashArm.run_case: one task, and what it returns of it.           *)
DirectAnswer ==
  /\ At("direct")
  /\ \/ Starts("answer_multiple_choice", 1)
     \/ /\ Takes("answer_multiple_choice") /\ task.result.status = "answer"
        /\ Completes(<<>>) /\ UNCHANGED run
     \/ /\ Takes("answer_multiple_choice") /\ task.result.status = "invalid"
        /\ Fails("answer_multiple_choice", "structured_output_invalid", 0)

(* The result of a case is handed to the experiment (CapabilityRun).       *)
ReturnCase ==
  /\ At("over") /\ ~Watched
  /\ stage' = "told"
  /\ UNCHANGED <<setup, attempt, run, outcome, fault, streamVars>> /\ Local

(* The process dies while it waits for docker, and the case is started     *)
(* again under the same run id; clients and containers stay.               *)
RunAgain ==
  /\ sandbox.phase \in {"wait", "remove", "kill"}
  /\ attempt < MaxAttempts /\ run.cycle <= MaxCycleAtDeath
  /\ attempt' = attempt + 1 /\ stage' = "admit" /\ run' = NewRun
  /\ call' = NoCall /\ telemetry' = <<>> /\ task' = NoTask
  /\ probe' = NoProbe /\ sandbox' = NoExecution
  /\ UNCHANGED <<setup, outcome, fault, clients, containers, streamVars>>

-----------------------------------------------------------------------------
(* What the validators can read, by task and by what the run knows.        *)
Readings ==
  CASE task.name = "assess_task_admission" -> AdmissionReadings
    [] task.name = "frame_open_question" -> FrameReadings[run.framing]
    [] task.name = "design_probes" ->
         DesignReadings[run.framing.named]
                       [run.cycle = 0 /\ run.framing.coverage = "open"]
    [] task.name = "judge_evidence" -> JudgmentReadings[ExclusiveOpen(run.framing)]
    [] task.name = "expand_hypotheses" -> ExpansionReadings
    [] task.name = "project_answer" -> ProjectionReadings[run.judged]
    [] task.name = "plan_python_probe" -> PlanReadings
    [] task.name = "execute_probe" -> {Result("signals"), Rejected}
    [] task.name = "repair_python_probe_code" -> {Result("code"), Rejected}
    [] OTHER -> {Result("answer"), Rejected}

ReadTask ==
  /\ TaskStep(Readings)
  /\ UNCHANGED <<threadVars, probe, sandboxVars, streamVars>>

SayNext ==
  /\ IF setup.host = "json" THEN Track ELSE Emit
  /\ UNCHANGED <<threadVars, probeVars>>

Thread ==
  \/ Prepare \/ Admit \/ FrameTask \/ DesignProbes \/ OpenCycle \/ PlanProbes
  \/ ExecuteProbe \/ ExecutePython \/ JudgeSignal \/ Integrate \/ ProjectAnswer
  \/ Advance \/ DirectAnswer \/ ReturnCase \/ TaskFails \/ ReadTask \/ SayNext

Sandbox == SandboxStep /\ UNCHANGED <<threadVars, streamVars>>
Docker == DockerStep /\ UNCHANGED <<threadVars, streamVars>>
Page ==
  /\ Watched /\ PageStep(At("over"))
  /\ UNCHANGED <<threadVars, probeVars>>
Breaks == Watched /\ LinkBreaks /\ UNCHANGED <<threadVars, probeVars>>

Finished ==
  /\ At("told") \/ (At("over") /\ Watched /\ page.verdict # "none")
  /\ UNCHANGED vars

Next == Thread \/ Sandbox \/ Docker \/ Page \/ Breaks \/ RunAgain \/ Finished

(* The thread of the run goes on, timeouts fire, the page reads.  Docker   *)
(* and its programs need not do anything.                                  *)
Spec ==
  /\ Init /\ [][Next]_vars
  /\ WF_vars(Thread) /\ WF_vars(Sandbox) /\ WF_vars(Page)

-----------------------------------------------------------------------------
(* Properties.                                                             *)

(* Every variable has its type.                                            *)
TypeOK ==
  /\ ProbeTypeOK /\ StreamTypeOK
  /\ setup \in Setups
  /\ stage \in {"prepare", "admit", "frame", "design", "open", "plan", "execute",
                "judge", "project", "advance", "direct", "over", "told"}
  /\ attempt \in 1 .. MaxAttempts
  /\ run.cycle \in 0 .. MaxCycles /\ run.signals \in 0 .. 2
  /\ outcome \in {"running"} \cup Terminal

(* README, openai_gateway.py:842: the provider call that ends a case is    *)
(* recorded under the category that the result of the case names.  A case  *)
(* that no call ended (the answer of the direct arm is still invalid after *)
(* its repair) names a category of its own and is not meant.               *)
CaseNamesItsError ==
  ~Watched /\ fault.attempts > 0 /\ Len(telemetry) = fault.attempts =>
    Category(telemetry[fault.attempts].outcome) = fault.category

(* The stage a failed model task belongs to.                               *)
StageOf(name) ==
  CASE name \in {"assess_task_admission", "frame_open_question"} -> "task framing"
    [] name = "design_probes" -> "probe design"
    [] name = "execute_probe" -> "probe execution"
    [] name = "judge_evidence" -> "evidence judgment"
    [] name = "expand_hypotheses" -> "hypothesis expansion"
    [] OTHER -> "answer projection"

(* What the page is told of a failed model task is the stage and the cycle *)
(* it failed in, though the emitter knows only what progress said before.  *)
FailureNamesTask ==
  ModelHost /\ fault.by \in Tasks =>
    /\ fault.stage = StageOf(fault.by)
    /\ \A i \in DOMAIN outbox :
         outbox[i].event = "run_failed" => outbox[i].cycle = run.cycle

(* Plans, code, timeouts and empty outputs of a python probe do not end a  *)
(* case, they become signals.  What the start of the sandbox raises is not *)
(* caught and does (fault.by = "sandbox": a docker that is missing, and in *)
(* the same way any other error of Popen or code that has no UTF-8).       *)
TroubleIsASignal ==
  setup.host = "arm" /\ outcome = "failed" =>
    fault.by \in {"judge_evidence", "sandbox", "integrate", "hypotheses"}

told == IF Watched THEN page.verdict ELSE IF stage = "told" THEN outcome ELSE "none"

Promise == INSTANCE RunPromise
  WITH outcome <- outcome, sound <- (link = "up"), verdict <- told

(* Every run ends and the page says how, unless the connection breaks; a   *)
(* case returns what became of it.                                         *)
KeepsRunPromise == Promise!Spec

(* A task that framing accepted can be probed: some design of its probes   *)
(* is accepted and can be executed - but for an exact answer with a single *)
(* candidate, whose first design asks for two hypotheses that are not      *)
(* there.                                                                  *)
FramedCanBeProbed ==
  stage = "design" /\ ~(run.framing.kind = "exact_answer" /\ run.framing.named = 1) =>
    \E reading \in DesignReadings[run.framing.named]
                     [run.cycle = 0 /\ run.framing.coverage = "open"] :
      reading # Rejected /\ reading.candidates
=============================================================================
