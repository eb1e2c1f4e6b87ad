----------------------------- MODULE ModelTask -----------------------------
(***************************************************************************)
(* A structured task of a run: the question put to the model, the reading  *)
(* of its answer, and the one repair that is asked for when the reading    *)
(* rejects the answer.  The tasks differ in what they do with an answer    *)
(* that cannot be read and with an exception of the gateway:               *)
(*                                                                         *)
(*   assess_task_admission, frame_open_question, design_probes,            *)
(*   expand_hypotheses, project_answer                                     *)
(*                     repair a rejected answer; an exception of the       *)
(*                     gateway is the task's own error                     *)
(*   judge_evidence    repairs if its policy says so, discards the signal  *)
(*                     when no judgment can be read, lets the rest through *)
(*   execute_probe     neither repairs nor catches                         *)
(*   plan_python_probe repairs whatever cannot be read; the probe gateway  *)
(*                     turns what is left into a failure signal            *)
(*   repair_python_probe_code  is the repair itself                        *)
(*   answer_multiple_choice    the direct arm: repairs what cannot be read *)
(***************************************************************************)
EXTENDS ProviderCall, TaskPayloads

VARIABLE
  task  (* the task in hand, its round, and its result                     *)

taskVars == <<providerVars, task>>

(* Errors of these tasks are exceptions of their own classes.              *)
WrappingTasks == {"assess_task_admission", "frame_open_question",
                  "design_probes", "expand_hypotheses", "project_answer"}

Tasks == WrappingTasks \cup
  {"judge_evidence", "execute_probe", "plan_python_probe",
   "repair_python_probe_code", "answer_multiple_choice"}

Open == [status |-> "open"]
Result(status) == [status |-> status]

(* Mutated form of Raised: the task hides what the provider raised.        *)
RaisedAsOwn(fault, attempts) ==
  [status |-> "raised", fault |-> "provider_error", attempts |-> attempts]

(* An exception that reaches the caller, with the attempts it took.        *)
Raised(fault, attempts) ==
  [status |-> "raised", fault |-> fault, attempts |-> attempts]

NoTask == [name |-> "none", round |-> "ask", repairs |-> 0, result |-> Open]

TaskInit == ProviderInit /\ task = NoTask

TaskIdle == task.name = "none"

(* The result of task t is there.                                          *)
Done(t) == task.name = t /\ task.result # Open

TaskTypeOK ==
  /\ ProviderTypeOK
  /\ task.name \in Tasks \cup {"none"}
  /\ task.round \in {"ask", "repair"}
  /\ task.result = Open \/ call.phase = "idle"
  /\ TaskIdle => call.phase = "idle"

-----------------------------------------------------------------------------
(* The task builds its request; observed says whether the gateway has a    *)
(* telemetry observer, repairs how many repairs its policy allows.         *)
StartTask(name, repairs, observed) ==
  /\ TaskIdle
  /\ task' = [name |-> name, round |-> "ask", repairs |-> repairs,
              result |-> Open]
  /\ BeginCall(observed)

Settle(result) ==
  /\ task' = [task EXCEPT !.result = result]
  /\ EndCall

AskRepair ==
  /\ task' = [task EXCEPT !.round = "repair"]
  /\ BeginCall(call.observed)

CanRepair == task.round = "ask" /\ task.repairs > 0

(* An answer that stays unreadable or rejected when no repair is left.     *)
Unrepaired(name) ==
  CASE name = "judge_evidence" -> Result("discarded")
    [] name \in {"plan_python_probe", "repair_python_probe_code"} ->
         Result("unusable")
    [] name = "answer_multiple_choice" -> Result("invalid")
    [] name = "execute_probe" -> Raised("undecodable", call.attempt)
    [] OTHER -> Result("failed")

(* The answer is read by the validators of the task, whose readings the    *)
(* caller gives.                                                           *)
ReadAnswer(readings) ==
  /\ ~TaskIdle /\ call.phase = "answered"
  /\ \E reading \in readings :
       IF reading # Rejected THEN Settle(reading)
       ELSE IF CanRepair THEN AskRepair
       ELSE Settle(Unrepaired(task.name))

(* ModelGatewayValidationError for all three, any ValueError for the other *)
(* two.                                                                    *)
ReadsAsInvalid(outcome) ==
  \/ outcome = "unreadable"
       /\ task.name \in {"judge_evidence", "plan_python_probe",
                         "answer_multiple_choice"}
  \/ outcome = "undecodable"
       /\ task.name \in {"plan_python_probe", "answer_multiple_choice"}

(* A judgment that could not be read is not repaired: only one that was    *)
(* read and rejected is.                                                   *)
GatewayRaises ==
  /\ ~TaskIdle /\ call.phase = "raised"
  /\ IF ReadsAsInvalid(call.outcome)
     THEN IF CanRepair /\ task.name # "judge_evidence" THEN AskRepair
          ELSE Settle(Unrepaired(task.name))
     ELSE Settle(IF task.name \in WrappingTasks THEN Result("failed")
                 ELSE Raised(call.outcome, call.attempt))

TaskStep(readings) ==
  \/ ProviderStep /\ UNCHANGED task
  \/ ReadAnswer(readings)
  \/ GatewayRaises

(* The caller takes the result; what the calls left in the telemetry is    *)
(* kept for the one that fails the run.                                    *)
EndTask == task' = NoTask /\ telemetry' = <<>> /\ UNCHANGED call
EndTaskFailed == task' = NoTask /\ UNCHANGED providerVars
=============================================================================
