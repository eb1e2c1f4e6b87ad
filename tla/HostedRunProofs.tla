-------------------------- MODULE HostedRunProofs --------------------------
(***************************************************************************)
(* Theorems about HostedRun, for any number of attempts, cycles, chunks of *)
(* output and lines in flight, any faults of a provider and any setups.    *)
(***************************************************************************)
EXTENDS HostedRun, SequenceTheorems, FiniteSetTheorems, TLAPS

-----------------------------------------------------------------------------
(* The inductive invariant, in parts.                                      *)

Attempts == 1 .. MaxProviderAttempts
Records == [attempt: Attempts, outcome: Outcomes]

(* The provider call: no record is of a later attempt than the one in      *)
(* hand, and a record of that one has its outcome.                         *)
CallType ==
  /\ call \in [phase: CallPhases, attempt: 0 .. MaxProviderAttempts,
               outcome: Outcomes \cup {"none"}, observed: BOOLEAN]
  /\ call.phase # "idle" => call.attempt \in Attempts
  /\ call.phase \in {"observe", "wait", "answered", "raised"} =>
       call.outcome \in Outcomes
  /\ call.phase = "wait" => ~GivesUp(call)
  /\ telemetry \in Seq(Records)

RecordsRise ==
  \A i \in DOMAIN telemetry :
    /\ telemetry[i].attempt >= i
    /\ \A j \in 1 .. (i - 1) :
         /\ telemetry[j].attempt < telemetry[i].attempt
         /\ Transient(telemetry[j].outcome)

RecordsOfCall ==
  \A i \in DOMAIN telemetry :
    /\ call.phase \in {"invoke", "observe"} => telemetry[i].attempt < call.attempt
    /\ call.phase \in {"wait", "answered", "raised"} =>
         /\ telemetry[i].attempt <= call.attempt
         /\ telemetry[i].attempt = call.attempt => telemetry[i].outcome = call.outcome
    /\ call.phase \in {"invoke", "observe", "wait"} => Transient(telemetry[i].outcome)

CallInv == CallType /\ RecordsRise /\ RecordsOfCall

(* The shape of the records of the run; some fields may be anything.       *)
TaskShape ==
  task \in [name: Tasks \cup {"none"}, round: {"ask", "repair"},
            repairs: {0, 1}, result: {task.result}]

RunShape ==
  /\ run \in [cycle: 0 .. MaxCycles, framing: {run.framing}, pool: {run.pool},
              asked: {run.asked}, signals: 0 .. 2, judged: {run.judged},
              condemned: {run.condemned}, spawned: {run.spawned}]
  /\ attempt \in 1 .. MaxAttempts
  /\ setup \in Setups

Shapes ==
  /\ TaskShape /\ RunShape
  /\ probe \in [step: {"idle", "planning", "reasoning", "launching",
                       "executing", "repairing", "done"},
                signal: {"none", "failure", "reasoning", "execution"}]

(* In which stage a task is in hand, and why.                              *)
TaskPlace ==
  /\ task.result = Open \/ call.phase = "idle"
  /\ TaskIdle => call.phase = "idle" /\ task.result = Open
  /\ task.name = "assess_task_admission" => stage = "admit" /\ ~Explicit
  /\ task.name = "frame_open_question" => stage = "frame" /\ ~Explicit
  /\ task.name = "design_probes" => stage = "design" /\ ModelHost
  /\ task.name = "execute_probe" =>
       /\ stage = "execute"
       /\ IF setup.host = "arm" THEN probe.step = "reasoning"
          ELSE run.asked /\ setup.model
  /\ task.name = "plan_python_probe" => probe.step = "planning"
  /\ task.name = "repair_python_probe_code" => probe.step = "repairing"
  /\ task.name = "judge_evidence" =>
       stage = "judge" /\ run.signals > 0 /\ setup.model
  /\ task.name = "expand_hypotheses" =>
       stage = "judge" /\ run.signals = 0 /\ ModelHost /\ run.condemned
  /\ task.name = "project_answer" =>
       /\ stage = "project" /\ ModelHost
       /\ run.framing.relationship = "synthesis"
  /\ task.name = "answer_multiple_choice" => stage = "direct"
  /\ task.name # "none" => outbox = <<>>

(* Where the cycle and the python probe stand, by stage.                   *)
RunPlace ==
  /\ stage \in {"prepare", "admit", "frame", "design", "open", "plan", "execute",
                "judge", "project", "advance", "direct", "over", "told"}
  /\ stage \in {"prepare", "admit", "frame"} => run.cycle = 0
  /\ stage \in {"design", "open"} => run.cycle < MaxCycles
  /\ stage \in {"plan", "execute", "judge", "project", "advance"} => run.cycle >= 1
  /\ fault.attempts > 0 => stage \in {"over", "told"}

ProbePlace ==
  /\ probe.step # "idle" => stage = "execute" /\ setup.host = "arm" /\ outbox = <<>>
  /\ probe.step \in {"idle", "planning", "reasoning"} => sandbox.phase = "idle"
  /\ probe.step = "launching" => sandbox.phase \in {"idle", "done"}
  /\ probe.step \in {"repairing", "done"} => sandbox.phase \in {"idle", "done"}
  /\ probe.step = "executing" => sandbox.phase # "idle"

StagePlace == RunPlace /\ ProbePlace

(* The execution in hand.                                                  *)
Boxes ==
  [phase: {"idle", "wait", "remove", "kill", "join", "done"},
   who: Executions \cup {Nobody}, timedOut: BOOLEAN,
   exit: {"none", "zero", "error"}, produced: [Streams -> Nat],
   pipe: [Streams -> Nat], captured: [Streams -> Nat], truncated: BOOLEAN,
   removal: {"none", "removed", "missed", "failed"}]

SandboxType ==
  /\ sandbox \in Boxes
  /\ clients \in [Executions -> {"none", "asking", "starting", "attached"}]
  /\ containers \in [Names -> [state: {"absent", "created", "running"},
                               by: Executions \cup {Nobody}]]
  /\ \A n \in Names : containers[n].state # "absent" =>
       containers[n].by \in Executions /\ ContainerName(containers[n].by) = n
  /\ sandbox.phase # "idle" =>
       /\ sandbox.who \in Executions
       /\ sandbox.who[1] = attempt /\ sandbox.who[2] = run.cycle
  /\ probe.step \in {"launching", "repairing"} /\ sandbox.phase = "done" =>
       sandbox.who[3] = 0

(* What was captured, is in the pipes, and was passed over.                *)
CaptureInv ==
  LET captured == sandbox.captured["stdout"] + sandbox.captured["stderr"]
      piped == sandbox.pipe["stdout"] + sandbox.pipe["stderr"]
      written == sandbox.produced["stdout"] + sandbox.produced["stderr"]
  IN /\ \A s \in Streams : sandbox.captured[s] + sandbox.pipe[s] <= sandbox.produced[s]
     /\ captured <= OutputLimit
     /\ IF sandbox.truncated
        THEN captured = OutputLimit /\ written > piped + OutputLimit
        ELSE captured + piped = written
     /\ sandbox.phase = "done" => sandbox.pipe = NoOutput
     /\ sandbox.phase \in {"join", "done"} => clients[sandbox.who] = "none"

(* Executions that are still to come have neither client nor container.    *)
Unlaunched(e) ==
  \/ e[1] > attempt
  \/ e[1] = attempt /\ e[2] > run.cycle
  \/ /\ e[1] = attempt /\ e[2] = run.cycle /\ stage \in {"plan", "execute"}
     /\ sandbox.phase = "idle" \/ e[3] > sandbox.who[3]

FreshInv == \A e \in Executions : Unlaunched(e) => clients[e] = "none" /\ ~Mine(e)

(* When the container of the execution in hand can still be there.         *)
RemovalInv ==
  sandbox.phase # "idle" =>
    /\ clients[sandbox.who] = "asking" => ~Mine(sandbox.who)
    /\ sandbox.phase = "wait" => ~sandbox.timedOut
    /\ sandbox.phase \in {"remove", "kill"} => sandbox.timedOut
    /\ sandbox.phase \in {"join", "done"} /\ ~sandbox.timedOut => ~Mine(sandbox.who)
    /\ sandbox.phase \in {"kill", "join", "done"} /\ sandbox.timedOut =>
         \/ sandbox.removal \in {"missed", "failed"}
         \/ ~Mine(sandbox.who) /\ clients[sandbox.who] # "asking"

(* What a task raised, and what the result of a case says of it, is what   *)
(* the telemetry says.                                                     *)
ErrorInv ==
  /\ task.result.status = "raised" /\ task.result.attempts > 0
       /\ Len(telemetry) = task.result.attempts =>
       telemetry[task.result.attempts].outcome = task.result.fault
  /\ CaseNamesItsError

(* What is said: the progress of a run, and its end.                       *)
Events ==
  {"run_started", "task_framing_started", "task_framing_completed",
   "initialization_completed", "probe_design_started", "probe_design_completed",
   "cycle_started", "probe_set_planned", "probe_execution_started",
   "signals_collected", "evidence_integration_started", "frame_adequacy_assessed",
   "hypothesis_expansion_completed", "answer_projection_started",
   "answer_projection_completed", "cycle_integrated"}

FailureStages ==
  {"none", "task framing", "probe design", "probe execution", "evidence judgment",
   "hypothesis expansion", "answer projection"}

Said ==
  [event: Events \cup {"run_completed", "run_failed", "task_admission_completed"},
   cycle: Nat, stage: FailureStages]
    \cup [event: {"response"}, cycle: Nat, stage: FailureStages, outcome: Terminal]

StreamType ==
  /\ outbox \in Seq(Said)
  /\ wire \in Seq([said: Said, sequence: Nat])
  /\ emitter \in [sequence: Nat, cycle: Nat,
                  stage: {"task framing", "probe execution", "evidence judgment"}]
  /\ writer \in {"open", "disconnected"} /\ link \in {"up", "gone"}
  /\ page \in [read: Nat, framed: {page.framed}, terminal: {"none"} \cup Terminal,
               verdict: {"none", "error"} \cup Terminal]
  /\ Len(wire) <= MaxInFlight
  /\ outcome \in {"running"} \cup Terminal

(* The end of the run is on the wire, or was read.                         *)
EndSeen ==
  \/ page.terminal # "none"
  \/ \E i \in DOMAIN wire : EndsRun(wire[i].said)

(* The end is the last thing said, sent and read, and it is said when the  *)
(* run is over; the lines on the wire follow the one that was read last,   *)
(* and the response of the other endpoint is the only one.                 *)
StreamInv ==
  /\ \A i \in DOMAIN outbox : EndsRun(outbox[i]) =>
       i = Len(outbox) /\ stage \in {"over", "told"}
  /\ link = "gone" => wire = <<>>
  /\ link = "up" => writer = "open"
  /\ \A i \in DOMAIN wire : wire[i].sequence = page.read + i
  /\ \A i \in DOMAIN wire : EndsRun(wire[i].said) => i = Len(wire)
  /\ link = "up" /\ setup.host # "json" => emitter.sequence = page.read + Len(wire)
  /\ EndSeen => outbox = <<>> /\ stage \in {"over", "told"}
  /\ page.terminal # "none" => wire = <<>>
  /\ setup.host = "json" =>
       /\ page.terminal = "none" => page.read = 0
       /\ \A i \in DOMAIN wire : EndsRun(wire[i].said)

StageInv == Shapes /\ TaskPlace /\ StagePlace
BoxInv == SandboxType /\ CaptureInv /\ FreshInv /\ RemovalInv
SaidInv == StreamType /\ StreamInv

-----------------------------------------------------------------------------
(* The provider call.                                                      *)

(* What a step can do to the call in hand and to its records.              *)
CallChange ==
  \/ \E observed \in BOOLEAN : BeginCall(observed)
  \/ Invoke
  \/ Observe
  \/ Retry
  \/ call.phase \in {"answered", "raised"} /\ EndCall
  \/ UNCHANGED providerVars
  \/ call' \in {call, NoCall} /\ telemetry' = <<>>

LEMMA RecordTypes ==
  ASSUME CallType
  PROVE  \A i \in DOMAIN telemetry :
           telemetry[i] \in Records /\ telemetry[i].attempt \in Nat
<1>1. \A i \in DOMAIN telemetry : telemetry[i] \in Records
  BY ElementOfSeq, LenProperties DEF CallType
<1> QED BY <1>1 DEF Records, Attempts

LEMMA EmptyKeeps ==
  ASSUME CallInv, call' \in {call, NoCall}, telemetry' = <<>> PROVE CallInv'
<1>1. call'.phase = "idle" \/ call' = call BY DEF NoCall
<1>2. CallType'
  <2>1. telemetry' \in Seq(Records) OBVIOUS
  <2>2. CASE call' = call BY <2>1, <2>2 DEF CallInv, CallType, GivesUp
  <2>3. CASE call' = NoCall
    BY <2>1, <2>3, ProviderAssumption DEF CallType, CallPhases, NoCall
  <2> QED BY <2>2, <2>3
<1>3. DOMAIN telemetry' = {} OBVIOUS
<1> QED BY <1>2, <1>3 DEF CallInv, RecordsRise, RecordsOfCall

LEMMA BeginKeeps ==
  ASSUME CallInv, NEW observed \in BOOLEAN, BeginCall(observed) PROVE CallInv'
<1>1. CallType'
  <2>1. telemetry' \in Seq(Records) BY DEF BeginCall
  <2> QED BY <2>1, ProviderAssumption DEF BeginCall, CallType, CallPhases, Attempts
<1>2. DOMAIN telemetry' = {} BY DEF BeginCall
<1> QED BY <1>1, <1>2 DEF CallInv, RecordsRise, RecordsOfCall

LEMMA InvokeKeeps == ASSUME CallInv, Invoke PROVE CallInv'
<1>1. PICK o \in Outcomes : call' = [call EXCEPT !.phase = "observe", !.outcome = o]
  BY DEF Invoke
<1>2. call.phase = "invoke" /\ telemetry' = telemetry BY DEF Invoke
<1>3. CallType'
  BY <1>1, <1>2 DEF CallInv, CallType, CallPhases
<1>4. call'.phase = "observe" /\ call'.attempt = call.attempt
  BY <1>1 DEF CallInv, CallType
<1> QED BY <1>2, <1>3, <1>4 DEF CallInv, RecordsRise, RecordsOfCall

LEMMA RetryKeeps == ASSUME CallInv, Retry PROVE CallInv'
<1>1. call.phase = "wait" /\ telemetry' = telemetry BY DEF Retry
<1>2. call' = [call EXCEPT !.phase = "invoke", !.attempt = @ + 1] BY DEF Retry
<1>3. call.attempt < MaxProviderAttempts /\ call.attempt \in Attempts
  BY <1>1, ProviderAssumption DEF CallInv, CallType, GivesUp, Attempts
<1>4. CallType'
  <2>1. call.attempt + 1 \in Attempts BY <1>3, ProviderAssumption DEF Attempts
  <2>2. Attempts \subseteq 0 .. MaxProviderAttempts BY ProviderAssumption DEF Attempts
  <2> QED BY <1>1, <1>2, <2>1, <2>2 DEF CallInv, CallType, CallPhases
<1>5. call'.phase = "invoke" /\ call'.attempt = call.attempt + 1
  BY <1>2 DEF CallInv, CallType
<1>6. \A i \in DOMAIN telemetry : telemetry[i].attempt \in Nat
  BY RecordTypes DEF CallInv
<1>7. RecordsOfCall'
  BY <1>1, <1>3, <1>5, <1>6 DEF CallInv, RecordsOfCall, Attempts
<1> QED BY <1>1, <1>4, <1>7 DEF CallInv, RecordsRise

LEMMA ObserveKeeps == ASSUME CallInv, Observe PROVE CallInv'
<1> DEFINE next == IF call.outcome = "answer" THEN "answered"
                   ELSE IF GivesUp(call) THEN "raised" ELSE "wait"
           record == InvocationRecord(call)
<1>1. call.phase = "observe" /\ call' = [call EXCEPT !.phase = next] BY DEF Observe
<1>2. telemetry' \in {telemetry, Append(telemetry, record)} BY DEF Observe
<1>3. call.attempt \in Attempts /\ call.outcome \in Outcomes
  BY <1>1 DEF CallInv, CallType
<1>4. record \in Records BY <1>3 DEF InvocationRecord, Records
<1>5. /\ call'.phase = next /\ call'.attempt = call.attempt
      /\ call'.outcome = call.outcome
      /\ call'.phase = "wait" => Transient(call.outcome)
  BY <1>1 DEF CallInv, CallType, GivesUp
<1>6. CallType'
  <2>1. telemetry' \in Seq(Records)
    BY <1>2, <1>4, AppendProperties DEF CallInv, CallType
  <2>2. call' \in [phase: CallPhases, attempt: 0 .. MaxProviderAttempts,
                  outcome: Outcomes \cup {"none"}, observed: BOOLEAN]
    BY <1>1 DEF CallInv, CallType, CallPhases
  <2>3. call'.phase = "wait" => ~GivesUp(call)'
    BY <1>5 DEF GivesUp
  <2> QED BY <1>3, <1>5, <2>1, <2>2, <2>3 DEF CallType
<1>7. \A i \in DOMAIN telemetry :
        /\ telemetry[i].attempt \in Nat /\ telemetry[i].attempt < call.attempt
        /\ Transient(telemetry[i].outcome)
  BY <1>1, RecordTypes DEF CallInv, RecordsOfCall
<1>8. CASE telemetry' = telemetry
  <2>1. RecordsOfCall' BY <1>5, <1>7, <1>8, <1>3 DEF RecordsOfCall, Attempts
  <2> QED BY <1>6, <1>8, <2>1 DEF CallInv, RecordsRise
<1>9. CASE telemetry' = Append(telemetry, record)
  <2> DEFINE n == Len(telemetry)
  <2>1. /\ n \in Nat /\ DOMAIN telemetry = 1 .. n
        /\ DOMAIN telemetry' = 1 .. (n + 1)
        /\ \A i \in 1 .. n : telemetry'[i] = telemetry[i]
        /\ telemetry'[n + 1] = record
    BY <1>4, <1>9, AppendProperties, LenProperties DEF CallInv, CallType
  <2>2. record.attempt = call.attempt /\ record.outcome = call.outcome
    BY DEF InvocationRecord
  <2>3. call.attempt \in Nat /\ call.attempt >= n + 1
    BY <1>3, <1>7, <2>1 DEF CallInv, RecordsRise, Attempts
  <2> HIDE DEF n, record
  <2>4. RecordsRise'
    <3>1. ASSUME NEW i \in 1 .. n
          PROVE /\ telemetry'[i].attempt >= i
                /\ \A j \in 1 .. (i - 1) :
                     /\ telemetry'[j].attempt < telemetry'[i].attempt
                     /\ Transient(telemetry'[j].outcome)
      BY <2>1 DEF CallInv, RecordsRise
    <3>2. /\ telemetry'[n + 1].attempt >= n + 1
          /\ \A j \in 1 .. n :
               /\ telemetry'[j].attempt < telemetry'[n + 1].attempt
               /\ Transient(telemetry'[j].outcome)
      BY <1>7, <2>1, <2>2, <2>3
    <3>3. (n + 1) - 1 = n /\ \A i \in 1 .. (n + 1) : i \in 1 .. n \/ i = n + 1
      BY <2>1
    <3> QED BY <2>1, <3>1, <3>2, <3>3 DEF RecordsRise
  <2>5. RecordsOfCall'
    <3>1. \A i \in 1 .. n :
            /\ telemetry'[i].attempt < call'.attempt
            /\ telemetry'[i].attempt \in Nat
            /\ Transient(telemetry'[i].outcome)
      BY <1>5, <1>7, <2>1
    <3>2. /\ telemetry'[n + 1].attempt = call'.attempt
          /\ telemetry'[n + 1].outcome = call'.outcome
          /\ call'.attempt \in Nat
      BY <1>5, <2>1, <2>2, <2>3
    <3>3. call'.phase \in {"wait", "answered", "raised"} BY <1>5
    <3> QED BY <1>5, <2>1, <3>1, <3>2, <3>3 DEF RecordsOfCall
  <2> QED BY <1>6, <2>4, <2>5 DEF CallInv
<1> QED BY <1>2, <1>8, <1>9

LEMMA EndKeeps ==
  ASSUME CallInv, call.phase \in {"answered", "raised"}, EndCall PROVE CallInv'
<1>1. CASE telemetry' = <<>> BY <1>1, EmptyKeeps DEF EndCall
<1>2. CASE telemetry' = telemetry
  <2>1. call'.phase = "idle" BY DEF EndCall, NoCall
  <2>2. CallType'
    BY <1>2, ProviderAssumption DEF EndCall, NoCall, CallInv, CallType, CallPhases
  <2> QED BY <1>2, <2>1, <2>2 DEF CallInv, RecordsRise, RecordsOfCall
<1> QED BY <1>1, <1>2 DEF EndCall

LEMMA CallKeeps == ASSUME CallInv, CallChange PROVE CallInv'
<1>1. CASE UNCHANGED providerVars
  BY <1>1 DEF CallInv, CallType, RecordsRise, RecordsOfCall, providerVars, GivesUp
<1> QED
  BY <1>1, BeginKeeps, InvokeKeeps, RetryKeeps, ObserveKeeps, EndKeeps, EmptyKeeps
  DEF CallChange

-----------------------------------------------------------------------------
(* Every step does one of these things to the call.                        *)

LEMMA TaskStepCalls ==
  ASSUME CallType, NEW readings, TaskStep(readings) PROVE CallChange
<1>1. CASE ProviderStep BY <1>1 DEF ProviderStep, CallChange
<1>2. call.observed \in BOOLEAN BY DEF CallType
<1>3. CASE ReadAnswer(readings)
  BY <1>2, <1>3 DEF ReadAnswer, Settle, AskRepair, CallChange
<1>4. CASE GatewayRaises
  BY <1>2, <1>4 DEF GatewayRaises, Settle, AskRepair, CallChange
<1> QED BY <1>1, <1>3, <1>4 DEF TaskStep

LEMMA StartCalls ==
  ASSUME NEW name, NEW repairs, Starts(name, repairs) PROVE CallChange
<1>1. BeginCall(~Watched) BY DEF Starts, StartTask
<1>2. (~Watched) \in BOOLEAN BY DEF Watched
<1> QED BY <1>1, <1>2 DEF CallChange

LEMMA EndTaskCalls ==
  ASSUME EndTask \/ EndTaskFailed \/ Local \/ UNCHANGED taskVars
  PROVE  CallChange
<1>1. CASE EndTask BY <1>1 DEF EndTask, CallChange
<1>2. CASE EndTaskFailed BY <1>2 DEF EndTaskFailed, CallChange
<1>3. CASE Local \/ UNCHANGED taskVars
  BY <1>3 DEF Local, probeVars, taskVars, CallChange
<1> QED BY <1>1, <1>2, <1>3

LEMMA ProbeCalls ==
  ASSUME BeginProbe \/ ProbeStep(attempt, run.cycle) PROVE CallChange
<1>1. CASE BeginProbe
  <2>1. BeginCall(TRUE) BY <1>1 DEF BeginProbe, StartTask
  <2> QED BY <2>1 DEF CallChange
<1>2. CASE UsePlan BY <1>2, EndTaskCalls DEF UsePlan
<1>3. CASE AskReasoning
  <2>1. BeginCall(TRUE) BY <1>3 DEF AskReasoning, StartTask
  <2> QED BY <2>1 DEF CallChange
<1>4. CASE UseReasoning BY <1>4, EndTaskCalls DEF UseReasoning
<1>5. CASE Execute(attempt, run.cycle) BY <1>5, EndTaskCalls DEF Execute
<1>6. CASE UseExecution
  <2>1. BeginCall(TRUE) \/ UNCHANGED taskVars BY <1>6 DEF UseExecution, StartTask
  <2> QED BY <2>1, EndTaskCalls DEF CallChange
<1>7. CASE UseRepair BY <1>7, EndTaskCalls DEF UseRepair
<1> QED BY <1>1, <1>2, <1>3, <1>4, <1>5, <1>6, <1>7 DEF ProbeStep

LEMMA ThreadCalls == ASSUME CallType, Thread PROVE CallChange
<1>1. CASE Prepare BY <1>1, EndTaskCalls DEF Prepare
<1>2. CASE Admit BY <1>2, EndTaskCalls, StartCalls DEF Admit, Takes
<1>3. CASE FrameTask BY <1>3, EndTaskCalls, StartCalls DEF FrameTask, Takes
<1>4. CASE DesignProbes BY <1>4, EndTaskCalls, StartCalls DEF DesignProbes, Takes
<1>5. CASE OpenCycle BY <1>5, EndTaskCalls DEF OpenCycle
<1>6. CASE PlanProbes BY <1>6, EndTaskCalls DEF PlanProbes
<1>7. CASE ExecuteProbe BY <1>7, EndTaskCalls, StartCalls DEF ExecuteProbe, Takes
<1>8. CASE ExecutePython BY <1>8, EndTaskCalls, ProbeCalls DEF ExecutePython
<1>9. CASE JudgeSignal BY <1>9, EndTaskCalls, StartCalls DEF JudgeSignal, Takes
<1>10. CASE Integrate BY <1>10, EndTaskCalls, StartCalls DEF Integrate, Takes
<1>11. CASE ProjectAnswer BY <1>11, EndTaskCalls, StartCalls DEF ProjectAnswer, Takes
<1>12. CASE Advance BY <1>12, EndTaskCalls DEF Advance
<1>13. CASE DirectAnswer BY <1>13, EndTaskCalls, StartCalls DEF DirectAnswer, Takes
<1>14. CASE ReturnCase BY <1>14, EndTaskCalls DEF ReturnCase
<1>15. CASE TaskFails BY <1>15, EndTaskCalls DEF TaskFails
<1>16. CASE ReadTask BY <1>16, TaskStepCalls DEF ReadTask
<1>17. CASE SayNext BY <1>17, EndTaskCalls DEF SayNext, Local
<1> QED
  BY <1>1, <1>2, <1>3, <1>4, <1>5, <1>6, <1>7, <1>8, <1>9, <1>10, <1>11, <1>12,
     <1>13, <1>14, <1>15, <1>16, <1>17 DEF Thread

LEMMA NextCalls == ASSUME CallType, [Next]_vars PROVE CallChange
<1>1. CASE Thread BY <1>1, ThreadCalls
<1>2. CASE Sandbox BY <1>2, EndTaskCalls DEF Sandbox, SandboxStep
<1>3. CASE Docker BY <1>3, EndTaskCalls DEF Docker, DockerStep
<1>4. CASE Page \/ Breaks BY <1>4, EndTaskCalls DEF Page, Breaks, Local
<1>5. CASE RunAgain BY <1>5 DEF RunAgain, CallChange
<1>6. CASE UNCHANGED vars BY <1>6, EndTaskCalls DEF vars, Local
<1> QED BY <1>1, <1>2, <1>3, <1>4, <1>5, <1>6 DEF Next, Finished

LEMMA CallInit == ASSUME Init PROVE CallInv
<1>1. call = NoCall /\ telemetry = <<>>
  BY DEF Init, ProbeInit, TaskInit, ProviderInit
<1>2. DOMAIN telemetry = {} BY <1>1
<1>3. CallType
  <2>1. telemetry \in Seq(Records) BY <1>1
  <2> QED BY <1>1, <2>1, ProviderAssumption DEF NoCall, CallType, CallPhases
<1> QED BY <1>2, <1>3 DEF CallInv, RecordsRise, RecordsOfCall

LEMMA CallInvariance == Spec => []CallInv
<1>1. CallInv /\ [Next]_vars => CallInv' BY NextCalls, CallKeeps DEF CallInv
<1> QED BY CallInit, <1>1, PTL DEF Spec

(* The telemetry of a call records no attempt twice or out of order, only  *)
(* the last record can be final, and every earlier one failed in a way     *)
(* worth another attempt - for any number of attempts and any faults.      *)
THEOREM TelemetryIsTrue == Spec => []TelemetryTellsAttempts
<1>1. CallInv => TelemetryTellsAttempts
  <2> SUFFICES ASSUME CallInv PROVE TelemetryTellsAttempts OBVIOUS
  <2>1. \A i \in DOMAIN telemetry :
          call.phase # "idle" => telemetry[i].attempt <= call.attempt
    BY RecordTypes DEF CallInv, CallType, RecordsOfCall, CallPhases, Attempts
  <2> QED BY <2>1 DEF CallInv, RecordsRise, TelemetryTellsAttempts
<1> QED BY CallInvariance, <1>1, PTL

-----------------------------------------------------------------------------
(* The stages of the run and its tasks.                                    *)

LEMMA StartKeeps ==
  ASSUME StageInv, NEW name \in Tasks, NEW repairs \in {0, 1},
         StartTask(name, repairs, ~Watched) \/ StartTask(name, repairs, TRUE),
         UNCHANGED <<threadVars, outbox, sandbox>>, outbox = <<>>,
         Shapes', StagePlace',
         name = "assess_task_admission" => stage = "admit" /\ ~Explicit,
         name = "frame_open_question" => stage = "frame" /\ ~Explicit,
         name = "design_probes" => stage = "design" /\ ModelHost,
         name = "execute_probe" =>
           /\ stage = "execute"
           /\ IF setup.host = "arm" THEN probe'.step = "reasoning"
              ELSE run.asked /\ setup.model,
         name = "plan_python_probe" => probe'.step = "planning",
         name = "repair_python_probe_code" => probe'.step = "repairing",
         name = "judge_evidence" => stage = "judge" /\ run.signals > 0 /\ setup.model,
         name = "expand_hypotheses" =>
           stage = "judge" /\ run.signals = 0 /\ ModelHost /\ run.condemned,
         name = "project_answer" =>
           /\ stage = "project" /\ ModelHost
           /\ run.framing.relationship = "synthesis",
         name = "answer_multiple_choice" => stage = "direct"
  PROVE  StageInv'
<1>1. task' = [name |-> name, round |-> "ask", repairs |-> repairs, result |-> Open]
  BY DEF StartTask
<1>2. name # "none" BY DEF Tasks, WrappingTasks
<1>3. TaskPlace'
  BY <1>1, <1>2 DEF TaskPlace, TaskIdle, threadVars, Explicit, ModelHost, Watched
<1> QED BY <1>3 DEF StageInv

LEMMA StartsKeeps ==
  ASSUME StageInv, NEW name \in Tasks, NEW repairs \in {0, 1},
         Starts(name, repairs), outbox = <<>>,
         name \notin {"plan_python_probe", "repair_python_probe_code"},
         name = "assess_task_admission" => stage = "admit" /\ ~Explicit,
         name = "frame_open_question" => stage = "frame" /\ ~Explicit,
         name = "design_probes" => stage = "design" /\ ModelHost,
         name = "execute_probe" =>
           stage = "execute" /\ setup.host # "arm" /\ run.asked /\ setup.model,
         name = "judge_evidence" => stage = "judge" /\ run.signals > 0 /\ setup.model,
         name = "expand_hypotheses" =>
           stage = "judge" /\ run.signals = 0 /\ ModelHost /\ run.condemned,
         name = "project_answer" =>
           /\ stage = "project" /\ ModelHost
           /\ run.framing.relationship = "synthesis",
         name = "answer_multiple_choice" => stage = "direct"
  PROVE  StageInv'
<1>1. UNCHANGED <<threadVars, probe, sandboxVars, streamVars>> BY DEF Starts
<1>2. StartTask(name, repairs, ~Watched) BY DEF Starts
<1>3. task' = [name |-> name, round |-> "ask", repairs |-> repairs, result |-> Open]
  BY <1>2 DEF StartTask
<1>4. Shapes' BY <1>1, <1>3 DEF StageInv, Shapes, TaskShape, RunShape, threadVars
<1>5. StagePlace'
  BY <1>1 DEF StageInv, StagePlace, RunPlace, ProbePlace, threadVars, sandboxVars, streamVars
<1> QED
  BY <1>1, <1>2, <1>4, <1>5, StartKeeps DEF sandboxVars, streamVars

(* A task in hand is one of its stage, so that most stages have none.      *)
LEMMA TasksOfStage ==
  ASSUME StageInv
  PROVE  /\ TaskIdle => task.result = Open /\ call.phase = "idle"
         /\ stage \in {"prepare", "open", "plan", "advance", "over", "told"} => TaskIdle
         /\ stage \in {"admit", "frame"} /\ Explicit => TaskIdle
         /\ stage \in {"design", "project"} /\ ~ModelHost => TaskIdle
         /\ stage = "project" /\ run.framing.relationship # "synthesis" => TaskIdle
         /\ stage = "execute" /\ setup.host # "arm" /\ (~run.asked \/ ~setup.model)
              => TaskIdle
         /\ stage = "judge" /\ ~setup.model => TaskIdle
         /\ stage = "judge" /\ run.signals = 0 /\ ~(ModelHost /\ run.condemned)
              => TaskIdle
         /\ probe.step \in {"launching", "executing", "done"} => TaskIdle
BY DEF StageInv, Shapes, TaskShape, RunShape, StagePlace, RunPlace,
       ProbePlace, TaskPlace, TaskIdle, Tasks, WrappingTasks, ModelHost

(* A step after which no task is in hand.                                  *)
LEMMA MoveKeeps ==
  ASSUME StageInv, Shapes', StagePlace',
         \/ TaskIdle /\ UNCHANGED <<task, call>>
         \/ task' = NoTask /\ call'.phase = "idle"
  PROVE  StageInv'
<1>1. task'.name = "none" /\ task'.result = Open /\ call'.phase = "idle"
  BY DEF StageInv, TaskPlace, TaskIdle, NoTask
<1>2. TaskPlace' BY <1>1 DEF TaskPlace, TaskIdle
<1> QED BY <1>2 DEF StageInv

(* A move of the thread, and what it leaves of the task.                   *)
Moves == (TaskIdle /\ Local) \/ (\E t \in Tasks : Takes(t))

LEMMA Idle ==
  ASSUME StageInv, Moves
  PROVE  /\ \/ TaskIdle /\ UNCHANGED <<task, call>>
            \/ task' = NoTask /\ call'.phase = "idle"
         /\ UNCHANGED <<probe, sandbox, clients, containers>>
         /\ TaskShape'
<1>1. CASE TaskIdle /\ Local
  BY <1>1 DEF Local, probeVars, taskVars, providerVars, sandboxVars, StageInv, Shapes,
     TaskShape
<1>2. CASE \E t \in Tasks : Takes(t)
  <2>1. PICK t \in Tasks : Takes(t) BY <1>2
  <2>2. task' = NoTask /\ call' = call BY <2>1 DEF Takes, EndTask
  <2>3. call.phase = "idle" BY <2>1 DEF Takes, Done, StageInv, TaskPlace
  <2>4. TaskShape' BY <2>2 DEF TaskShape, NoTask
  <2> QED BY <2>1, <2>2, <2>3, <2>4 DEF Takes, sandboxVars
<1> QED BY <1>1, <1>2 DEF Moves

(* A move of the thread outside a python probe.                            *)
LEMMA StageMoves ==
  ASSUME StageInv, stage # "execute" \/ setup.host # "arm",
         Moves, RunShape', RunPlace'
  PROVE  StageInv'
<1>1. probe.step = "idle" /\ sandbox.phase = "idle"
  BY DEF StageInv, StagePlace, ProbePlace, Shapes
<1>2. UNCHANGED <<probe, sandbox>> BY Idle
<1>3. Shapes' BY <1>2, Idle DEF StageInv, Shapes
<1>4. StagePlace' BY <1>1, <1>2 DEF StagePlace, ProbePlace
<1> QED BY <1>3, <1>4, Idle, MoveKeeps

LEMMA PrepareKeeps == ASSUME StageInv, Prepare PROVE StageInv'
<1>1. Moves /\ stage # "execute" BY TasksOfStage DEF Prepare, At, Moves
<1>2. RunShape' /\ RunPlace'
  BY DEF Prepare, At, Goes, StageInv, Shapes, RunShape, StagePlace, RunPlace
<1> QED BY <1>1, <1>2, StageMoves

LEMMA AdmitKeeps == ASSUME StageInv, Admit PROVE StageInv'
<1>1. stage = "admit" /\ outbox = <<>> BY DEF Admit, At
<1>2. CASE ~Explicit /\ Starts("assess_task_admission", 1)
  BY <1>1, <1>2, StartsKeeps DEF Tasks, WrappingTasks
<1>3. ASSUME NEW decision, Admitted(decision) PROVE RunShape' /\ RunPlace'
  BY <1>1, <1>3 DEF Admitted, Goes, StageInv, Shapes, RunShape, StagePlace, RunPlace
<1>4. ASSUME Refused PROVE RunShape' /\ RunPlace'
  BY <1>1, <1>4 DEF Refused, Goes, StageInv, Shapes, RunShape, StagePlace, RunPlace
<1>5. CASE ~(~Explicit /\ Starts("assess_task_admission", 1))
  <2>1. Moves
    BY <1>1, <1>5, TasksOfStage DEF Moves, Admit, Tasks, WrappingTasks
  <2>2. (\E decision : Admitted(decision)) \/ Refused BY <1>5 DEF Admit
  <2>3. RunShape' /\ RunPlace' BY <1>3, <1>4, <2>2
  <2>4. stage # "execute" BY <1>1
  <2> QED BY <2>1, <2>3, <2>4, StageMoves
<1> QED BY <1>2, <1>5 DEF Admit

LEMMA FrameKeeps == ASSUME StageInv, FrameTask PROVE StageInv'
<1>1. stage = "frame" /\ outbox = <<>> BY DEF FrameTask, At
<1>2. CASE ~Explicit /\ Starts("frame_open_question", 1)
  BY <1>1, <1>2, StartsKeeps DEF Tasks, WrappingTasks
<1>3. ASSUME NEW frame, Framed(frame) PROVE RunShape' /\ RunPlace'
  <2>1. RunShape' BY <1>3 DEF Framed, Goes, StageInv, Shapes, RunShape
  <2>2. /\ stage' \in {"open", "design"} /\ run'.cycle = run.cycle
        /\ fault' = fault
    BY <1>3 DEF Framed, Goes, StageInv, Shapes, RunShape
  <2> QED
    BY <1>1, <2>1, <2>2, SandboxAssumption DEF StageInv, StagePlace, RunPlace
<1>4. CASE ~(~Explicit /\ Starts("frame_open_question", 1))
  <2>1. Moves
    BY <1>1, <1>4, TasksOfStage DEF Moves, FrameTask, Tasks, WrappingTasks
  <2>2. \E frame : Framed(frame) BY <1>4 DEF FrameTask
  <2>3. RunShape' /\ RunPlace' BY <1>3, <2>2
  <2>4. stage # "execute" BY <1>1
  <2> QED BY <2>1, <2>3, <2>4, StageMoves
<1> QED BY <1>2, <1>4 DEF FrameTask

LEMMA DesignKeeps == ASSUME StageInv, DesignProbes PROVE StageInv'
<1>1. stage = "design" /\ outbox = <<>> BY DEF DesignProbes, At
<1>2. CASE ModelHost /\ Starts("design_probes", 1)
  BY <1>1, <1>2, StartsKeeps DEF Tasks, WrappingTasks
<1>3. ASSUME NEW candidates, NEW said, Designed(candidates, said)
      PROVE  RunShape' /\ RunPlace'
  <2>1. RunShape' BY <1>3 DEF Designed, Completes, Goes, StageInv, Shapes, RunShape
  <2>2. \/ stage' = "open" /\ run'.cycle = run.cycle /\ fault' = fault
        \/ stage' = "over"
    BY <1>3 DEF Designed, Completes, Goes, StageInv, Shapes, RunShape
  <2> QED BY <1>1, <2>1, <2>2 DEF StageInv, StagePlace, RunPlace
<1>4. CASE ~(ModelHost /\ Starts("design_probes", 1))
  <2>1. Moves
    BY <1>1, <1>4, TasksOfStage DEF Moves, DesignProbes, Tasks, WrappingTasks
  <2>2. \E candidates, said : Designed(candidates, said) BY <1>4 DEF DesignProbes
  <2>3. RunShape' /\ RunPlace' BY <1>3, <2>2
  <2>4. stage # "execute" BY <1>1
  <2> QED BY <2>1, <2>3, <2>4, StageMoves
<1> QED BY <1>2, <1>4 DEF DesignProbes

LEMMA OpenKeeps == ASSUME StageInv, OpenCycle PROVE StageInv'
<1>1. Moves /\ stage = "open" BY TasksOfStage DEF OpenCycle, At, Moves
<1>2. run.cycle \in 0 .. MaxCycles /\ run.cycle < MaxCycles
  BY <1>1 DEF StageInv, Shapes, RunShape, StagePlace, RunPlace
<1>3. run.cycle + 1 \in 1 .. MaxCycles BY <1>2, SandboxAssumption
<1>4. RunShape' BY <1>3 DEF OpenCycle, Goes, StageInv, Shapes, RunShape
<1>5. run'.cycle = run.cycle + 1 /\ stage' = "plan" /\ fault' = fault
  BY DEF OpenCycle, Goes, StageInv, Shapes, RunShape
<1>6. RunPlace' BY <1>1, <1>3, <1>5 DEF StageInv, StagePlace, RunPlace
<1> QED BY <1>1, <1>4, <1>6, StageMoves

LEMMA PlanKeeps == ASSUME StageInv, PlanProbes PROVE StageInv'
<1>1. Moves /\ stage = "plan" BY TasksOfStage DEF PlanProbes, At, Moves
<1>2. RunShape'
  BY DEF PlanProbes, Fails, Completes, Goes, StageInv, Shapes, RunShape
<1>3. \/ stage' = "execute" /\ run'.cycle = run.cycle /\ fault' = fault
      \/ stage' = "over"
  BY DEF PlanProbes, Fails, Completes, Goes, StageInv, Shapes, RunShape
<1>4. RunPlace' BY <1>1, <1>3 DEF StageInv, StagePlace, RunPlace
<1> QED BY <1>1, <1>2, <1>4, StageMoves

LEMMA ExecutedPlace ==
  ASSUME StageInv, stage = "execute", Executed PROVE RunShape' /\ RunPlace'
<1>1. ContextSignals + (IF run.asked THEN 1 ELSE 0) \in 0 .. 2 BY DEF ContextSignals
<1>2. RunShape' BY <1>1 DEF Executed, Goes, StageInv, Shapes, RunShape
<1>3. stage' = "judge" /\ run'.cycle = run.cycle /\ fault' = fault
  BY DEF Executed, Goes, StageInv, Shapes, RunShape
<1> QED BY <1>2, <1>3 DEF StageInv, StagePlace, RunPlace

LEMMA ExecuteKeeps == ASSUME StageInv, ExecuteProbe PROVE StageInv'
<1>1. stage = "execute" /\ outbox = <<>> /\ setup.host # "arm"
  BY DEF ExecuteProbe, At
<1>2. CASE run.asked /\ setup.model /\ Starts("execute_probe", 0)
  BY <1>1, <1>2, StartsKeeps DEF Tasks, WrappingTasks
<1>3. CASE ~(run.asked /\ setup.model /\ Starts("execute_probe", 0))
  <2>1. Moves /\ Executed
    BY <1>1, <1>3, TasksOfStage DEF Moves, ExecuteProbe, Tasks, WrappingTasks
  <2> QED BY <1>1, <2>1, ExecutedPlace, StageMoves
<1> QED BY <1>2, <1>3

(* One judgment, and the repairs of its task.                              *)
LEMMA JudgeKeeps == ASSUME StageInv, JudgeSignal PROVE StageInv'
<1>1. stage = "judge" /\ outbox = <<>> /\ run.signals > 0 BY DEF JudgeSignal, At
<1>2. CASE setup.model /\ Starts("judge_evidence", JudgmentRepairs)
  <2>1. JudgmentRepairs \in {0, 1} BY DEF JudgmentRepairs
  <2> QED BY <1>1, <1>2, <2>1, StartsKeeps DEF Tasks, WrappingTasks
<1>3. ASSUME NEW admitted, NEW outside, Judged(admitted, outside)
      PROVE  RunShape' /\ RunPlace'
  <2>1. run.signals \in 0 .. 2 BY DEF StageInv, Shapes, RunShape
  <2>2. run.signals - 1 \in 0 .. 2 BY <1>1, <2>1
  <2>3. PICK condemned :
          run' = [run EXCEPT !.signals = @ - 1, !.judged = @ \/ admitted,
                             !.condemned = @ \/ condemned]
    BY <1>3 DEF Judged
  <2>4. UNCHANGED <<setup, stage, attempt, fault>> BY <1>3 DEF Judged
  <2>5. RunShape' BY <2>2, <2>3, <2>4 DEF StageInv, Shapes, RunShape
  <2>6. run'.cycle = run.cycle BY <2>3 DEF StageInv, Shapes, RunShape
  <2> QED BY <2>4, <2>5, <2>6 DEF StageInv, StagePlace, RunPlace
<1>4. CASE ~(setup.model /\ Starts("judge_evidence", JudgmentRepairs))
  <2>1. Moves
    BY <1>1, <1>4, TasksOfStage DEF Moves, JudgeSignal, Tasks, WrappingTasks
  <2>2. \E admitted, outside : Judged(admitted, outside) BY <1>4 DEF JudgeSignal
  <2>3. RunShape' /\ RunPlace' BY <1>3, <2>2
  <2>4. stage # "execute" BY <1>1
  <2> QED BY <2>1, <2>3, <2>4, StageMoves
<1> QED BY <1>2, <1>4

LEMMA FailsPlace ==
  ASSUME StageInv, NEW by, NEW category, NEW attempts, Fails(by, category, attempts)
  PROVE  RunShape' /\ RunPlace'
<1>1. RunShape' BY DEF Fails, Goes, StageInv, Shapes, RunShape
<1>2. stage' = "over" BY DEF Fails, Goes
<1> QED BY <1>1, <1>2 DEF RunPlace

LEMMA IntegrateKeeps == ASSUME StageInv, Integrate PROVE StageInv'
<1>1. stage = "judge" /\ outbox = <<>> /\ run.signals = 0 BY DEF Integrate, At
<1>2. CASE ModelHost /\ run.condemned /\ Starts("expand_hypotheses", 1)
  BY <1>1, <1>2, StartsKeeps DEF Tasks, WrappingTasks
<1>3. ASSUME NEW spawned, NEW expanded, Integrated(spawned, expanded)
      PROVE  RunShape' /\ RunPlace'
  <2>1. RunShape' BY <1>3 DEF Integrated, Goes, StageInv, Shapes, RunShape
  <2>2. stage' = "project" /\ run'.cycle = run.cycle /\ fault' = fault
    BY <1>3 DEF Integrated, Goes, StageInv, Shapes, RunShape
  <2> QED BY <1>1, <2>1, <2>2 DEF StageInv, StagePlace, RunPlace
<1>4. CASE ~(ModelHost /\ run.condemned /\ Starts("expand_hypotheses", 1))
  <2>1. Moves
    BY <1>1, <1>4, TasksOfStage DEF Moves, Integrate, Tasks, WrappingTasks
  <2>2. \/ \E spawned, expanded : Integrated(spawned, expanded)
        \/ \E by, category, attempts : Fails(by, category, attempts)
    BY <1>4 DEF Integrate
  <2>3. RunShape' /\ RunPlace' BY <1>3, <2>2, FailsPlace
  <2>4. stage # "execute" BY <1>1
  <2> QED BY <2>1, <2>3, <2>4, StageMoves
<1> QED BY <1>2, <1>4

LEMMA ProjectKeeps == ASSUME StageInv, ProjectAnswer PROVE StageInv'
<1>1. stage = "project" /\ outbox = <<>> BY DEF ProjectAnswer, At
<1> DEFINE synthesis == ModelHost /\ run.framing.relationship = "synthesis"
<1>2. CASE synthesis /\ Starts("project_answer", 1)
  BY <1>1, <1>2, StartsKeeps DEF Tasks, WrappingTasks
<1>3. CASE ~(synthesis /\ Starts("project_answer", 1))
  <2>1. Moves /\ Projected
    BY <1>1, <1>3, TasksOfStage DEF Moves, ProjectAnswer, Tasks, WrappingTasks
  <2>2. RunShape' BY <2>1 DEF Projected, Goes, StageInv, Shapes, RunShape
  <2>3. stage' = "advance" /\ run' = run /\ fault' = fault
    BY <2>1 DEF Projected, Goes
  <2>4. RunPlace' BY <1>1, <2>3 DEF StageInv, StagePlace, RunPlace
  <2>5. stage # "execute" BY <1>1
  <2> QED BY <2>1, <2>2, <2>4, <2>5, StageMoves
<1> QED BY <1>2, <1>3

LEMMA AdvanceKeeps == ASSUME StageInv, Advance PROVE StageInv'
<1>1. Moves /\ stage = "advance" BY TasksOfStage DEF Advance, At, Moves
<1>2. RunShape' BY DEF Advance, Completes, Goes, StageInv, Shapes, RunShape
<1>3. \/ stage' = "over"
      \/ stage' = "design" /\ run' = run /\ fault' = fault /\ run.cycle < MaxCycles
  BY DEF Advance, Completes, Goes
<1>4. RunPlace' BY <1>1, <1>3 DEF StageInv, StagePlace, RunPlace
<1> QED BY <1>1, <1>2, <1>4, StageMoves

LEMMA DirectKeeps == ASSUME StageInv, DirectAnswer PROVE StageInv'
<1>1. stage = "direct" /\ outbox = <<>> BY DEF DirectAnswer, At
<1>2. CASE Starts("answer_multiple_choice", 1)
  BY <1>1, <1>2, StartsKeeps DEF Tasks, WrappingTasks
<1>3. CASE ~Starts("answer_multiple_choice", 1)
  <2>1. Moves BY <1>1, <1>3 DEF Moves, DirectAnswer, Tasks, WrappingTasks
  <2>2. RunShape'
    BY <1>3 DEF DirectAnswer, Completes, Fails, Goes, StageInv, Shapes, RunShape
  <2>3. stage' = "over" BY <1>3 DEF DirectAnswer, Completes, Fails, Goes
  <2>4. RunPlace' BY <2>3 DEF RunPlace
  <2>5. stage # "execute" BY <1>1
  <2> QED BY <2>1, <2>2, <2>4, <2>5, StageMoves
<1> QED BY <1>2, <1>3

LEMMA ReturnKeeps == ASSUME StageInv, ReturnCase PROVE StageInv'
<1>1. Moves /\ stage = "over" BY TasksOfStage DEF ReturnCase, At, Moves
<1>2. RunShape' BY DEF ReturnCase, StageInv, Shapes, RunShape
<1>3. RunPlace' BY DEF ReturnCase, RunPlace
<1> QED BY <1>1, <1>2, <1>3, StageMoves

LEMMA TaskFailsKeeps == ASSUME StageInv, TaskFails PROVE StageInv'
<1>1. \E by, category, attempts : Fails(by, category, attempts) BY DEF TaskFails
<1>2. RunShape' /\ RunPlace' BY <1>1, FailsPlace
<1>3. probe.step = "idle" /\ sandbox.phase = "idle"
  BY DEF TaskFails, Caught, StageInv, StagePlace, ProbePlace, Shapes
<1>4. UNCHANGED <<probe, sandbox>> BY DEF TaskFails, sandboxVars
<1>5. task' = NoTask /\ call' = call BY DEF TaskFails, EndTaskFailed, providerVars
<1>6. task.result.status \in {"failed", "raised"} BY DEF TaskFails
<1>7. call.phase = "idle" BY <1>6 DEF Open, StageInv, TaskPlace
<1>8. Shapes' BY <1>2, <1>4, <1>5 DEF StageInv, Shapes, TaskShape, NoTask
<1>9. StagePlace' BY <1>2, <1>3, <1>4 DEF StagePlace, ProbePlace
<1> QED BY <1>5, <1>7, <1>8, <1>9, MoveKeeps

LEMMA TaskStepKeeps ==
  ASSUME StageInv, NEW readings, TaskStep(readings),
         UNCHANGED <<threadVars, probe, sandbox, outbox>>
  PROVE  StageInv'
<1>1. /\ ~TaskIdle
      /\ \/ task' = task /\ task.result = Open
         \/ task' = [task EXCEPT !.round = "repair"] /\ task.result = Open
         \/ (\E result : task' = [task EXCEPT !.result = result]) /\ call' = NoCall
  <2>1. CASE ProviderStep /\ UNCHANGED task
    <3>1. call.phase # "idle" BY <2>1 DEF ProviderStep, Invoke, Observe, Retry
    <3> QED BY <2>1, <3>1 DEF StageInv, TaskPlace
  <2>2. CASE ReadAnswer(readings)
    BY <2>2 DEF ReadAnswer, Settle, AskRepair, EndCall, StageInv, TaskPlace
  <2>3. CASE GatewayRaises
    BY <2>3 DEF GatewayRaises, Settle, AskRepair, EndCall, StageInv, TaskPlace
  <2> QED BY <2>1, <2>2, <2>3 DEF TaskStep
<1>2. TaskShape' BY <1>1 DEF StageInv, Shapes, TaskShape
<1>3. /\ task'.name = task.name
      /\ task'.result = Open \/ call'.phase = "idle"
  BY <1>1 DEF NoCall, StageInv, Shapes, TaskShape
<1>4. Shapes' BY <1>2 DEF StageInv, Shapes, RunShape, threadVars
<1>5. StagePlace'
  BY DEF StageInv, StagePlace, RunPlace, ProbePlace, threadVars
<1>6. TaskPlace'
  BY <1>1, <1>3 DEF StageInv, TaskPlace, TaskIdle, threadVars, Explicit, ModelHost, Watched
<1> QED BY <1>4, <1>5, <1>6 DEF StageInv

LEMMA SayKeeps == ASSUME StageInv, SayNext PROVE StageInv'
<1>1. outbox # <<>> /\ UNCHANGED <<threadVars, probeVars>>
  BY DEF SayNext, Track, Emit
<1>2. TaskIdle /\ probe.step = "idle"
  BY <1>1 DEF TaskIdle, StageInv, TaskPlace, StagePlace, ProbePlace
<1>3. Shapes'
  BY <1>1 DEF threadVars, probeVars, taskVars, StageInv, Shapes, TaskShape, RunShape
<1>4. StagePlace'
  BY <1>1, <1>2 DEF threadVars, probeVars, sandboxVars, StageInv, StagePlace, RunPlace,
     ProbePlace
<1>5. UNCHANGED <<task, call>> BY <1>1 DEF probeVars, taskVars, providerVars
<1> QED BY <1>2, <1>3, <1>4, <1>5, MoveKeeps

(* A step of the probe gateway that leaves the stage.                      *)
LEMMA ProbeMoves ==
  ASSUME StageInv, UNCHANGED <<threadVars, outbox>>, stage = "execute",
         setup.host = "arm", outbox = <<>>,
         probe' \in [step: {"idle", "planning", "reasoning", "launching",
                            "executing", "repairing", "done"},
                     signal: {"none", "failure", "reasoning", "execution"}],
         ProbePlace',
         \/ TaskIdle /\ UNCHANGED <<task, call>>
         \/ \E t \in Tasks : Done(t) /\ EndTask
  PROVE  StageInv'
<1>1. RunShape' /\ RunPlace'
  BY DEF threadVars, StageInv, Shapes, RunShape, StagePlace, RunPlace
<1>2. CASE TaskIdle /\ UNCHANGED <<task, call>>
  BY <1>1, <1>2, MoveKeeps DEF StageInv, Shapes, TaskShape, StagePlace
<1>3. CASE \E t \in Tasks : Done(t) /\ EndTask
  <2>1. task' = NoTask /\ call' = call BY <1>3 DEF EndTask
  <2>2. call.phase = "idle" BY <1>3 DEF Done, StageInv, TaskPlace
  <2>3. TaskShape' BY <2>1 DEF TaskShape, NoTask
  <2> QED BY <1>1, <2>1, <2>2, <2>3, MoveKeeps DEF Shapes, StagePlace
<1> QED BY <1>2, <1>3

(* A step of the probe gateway that asks the model.                        *)
LEMMA ProbeAsks ==
  ASSUME StageInv, UNCHANGED <<threadVars, outbox, sandbox>>, stage = "execute",
         setup.host = "arm", outbox = <<>>,
         probe' \in [step: {"idle", "planning", "reasoning", "launching",
                            "executing", "repairing", "done"},
                     signal: {"none", "failure", "reasoning", "execution"}],
         ProbePlace',
         NEW name \in {"plan_python_probe", "execute_probe",
                       "repair_python_probe_code"},
         NEW repairs \in {0, 1}, StartTask(name, repairs, TRUE),
         name = "plan_python_probe" => probe'.step = "planning",
         name = "execute_probe" => probe'.step = "reasoning",
         name = "repair_python_probe_code" => probe'.step = "repairing"
  PROVE  StageInv'
<1>1. RunShape' /\ RunPlace'
  BY DEF threadVars, StageInv, Shapes, RunShape, StagePlace, RunPlace
<1>2. name \in Tasks BY DEF Tasks
<1>3. task' = [name |-> name, round |-> "ask", repairs |-> repairs, result |-> Open]
  BY DEF StartTask
<1>4. Shapes' BY <1>1, <1>2, <1>3 DEF Shapes, TaskShape
<1>5. StagePlace' BY <1>1 DEF StagePlace
<1> QED BY <1>2, <1>4, <1>5, StartKeeps

LEMMA PythonKeeps == ASSUME StageInv, ExecutePython PROVE StageInv'
<1>1. stage = "execute" /\ outbox = <<>> /\ setup.host = "arm"
  BY DEF ExecutePython, At
<1> DEFINE stays == UNCHANGED <<threadVars, streamVars>>
<1>2. CASE BeginProbe /\ stays
  <2>1. probe' = [step |-> "planning", signal |-> "none"] /\ sandbox.phase = "idle"
    BY <1>2 DEF BeginProbe, NoProbe, StageInv, StagePlace, ProbePlace
  <2>2. ProbePlace'
    BY <1>1, <1>2, <2>1 DEF BeginProbe, sandboxVars, threadVars, streamVars, ProbePlace
  <2>3. StartTask("plan_python_probe", 1, TRUE) /\ UNCHANGED <<threadVars, outbox, sandbox>>
    BY <1>2 DEF BeginProbe, sandboxVars, streamVars
  <2>4. probe'.step = "planning" /\ probe'.signal = "none" BY <2>1
  <2> QED BY <1>1, <2>1, <2>2, <2>3, <2>4, ProbeAsks
<1>3. CASE UsePlan /\ stays
  <2>1. probe.step = "planning" /\ sandbox.phase = "idle"
    BY <1>3 DEF UsePlan, Done, StageInv, TaskPlace, StagePlace, ProbePlace
  <2>2. probe' \in [step: {"launching", "reasoning", "done"}, signal: {probe.signal, "failure"}]
    BY <1>3 DEF UsePlan, Signal, StageInv, Shapes
  <2>3. ProbePlace'
    BY <1>1, <1>3, <2>1, <2>2 DEF UsePlan, sandboxVars, threadVars, streamVars, ProbePlace
  <2>4. probe.signal \in {"none", "failure", "reasoning", "execution"}
    BY DEF StageInv, Shapes
  <2>5. \E t \in Tasks : Done(t) /\ EndTask BY <1>3 DEF UsePlan, Tasks
  <2> QED
    BY <1>1, <1>3, <2>2, <2>3, <2>4, <2>5, ProbeMoves DEF streamVars
<1>4. CASE AskReasoning /\ stays
  <2>1. ProbePlace'
    BY <1>1, <1>4 DEF AskReasoning, sandboxVars, threadVars, streamVars, StageInv,
       StagePlace, ProbePlace
  <2>2. probe' = probe /\ sandbox' = sandbox BY <1>4 DEF AskReasoning, sandboxVars
  <2> QED
    BY <1>1, <1>4, <2>1, <2>2, ProbeAsks DEF AskReasoning, streamVars, StageInv, Shapes
<1>5. CASE UseReasoning /\ stays
  <2>1. probe.step = "reasoning" /\ sandbox.phase = "idle"
    BY <1>5 DEF UseReasoning, StageInv, StagePlace, ProbePlace
  <2>2. probe' \in [step: {"done"}, signal: {"reasoning", "failure"}]
    BY <1>5 DEF UseReasoning, Signal
  <2>3. ProbePlace'
    BY <1>1, <1>5, <2>1, <2>2 DEF UseReasoning, sandboxVars, threadVars, streamVars,
       ProbePlace
  <2>4. \E t \in Tasks : Done(t) /\ EndTask BY <1>5 DEF UseReasoning, Tasks
  <2> QED BY <1>1, <1>5, <2>2, <2>3, <2>4, ProbeMoves DEF streamVars
<1>6. CASE Execute(attempt, run.cycle) /\ stays
  <2>1. sandbox'.phase = "wait" BY <1>6 DEF Execute, Launch, NoExecution
  <2>2. probe.step = "launching" /\ probe' = [probe EXCEPT !.step = "executing"]
    BY <1>6 DEF Execute
  <2>3. TaskIdle BY <2>2, TasksOfStage
  <2>4. ProbePlace'
    BY <1>1, <1>6, <2>1, <2>2 DEF threadVars, streamVars, ProbePlace, StageInv, Shapes
  <2> QED
    BY <1>1, <1>6, <2>2, <2>3, <2>4, ProbeMoves DEF Execute, taskVars, providerVars,
       streamVars, StageInv, Shapes
<1>7. CASE UseExecution /\ stays
  <2>1. probe.step = "executing" /\ sandbox.phase = "done" /\ sandbox' = sandbox
    BY <1>7 DEF UseExecution, sandboxVars
  <2>2. TaskIdle BY <2>1, TasksOfStage
  <2>3. CASE /\ probe' = [probe EXCEPT !.step = "repairing"]
             /\ StartTask("repair_python_probe_code", 0, TRUE)
    <3>1. ProbePlace'
      BY <1>1, <1>7, <2>1, <2>3 DEF threadVars, streamVars, ProbePlace, StageInv, Shapes
    <3> QED
      BY <1>1, <1>7, <2>1, <2>3, <3>1, ProbeAsks DEF streamVars, StageInv, Shapes
  <2>4. CASE (\E s \in {"execution", "failure"} : Signal(s)) /\ UNCHANGED taskVars
    <3>1. probe' \in [step: {"done"}, signal: {"execution", "failure"}]
      BY <2>4 DEF Signal
    <3>2. ProbePlace'
      BY <1>1, <1>7, <2>1, <3>1 DEF threadVars, streamVars, ProbePlace
    <3> QED
      BY <1>1, <1>7, <2>2, <2>4, <3>1, <3>2, ProbeMoves DEF taskVars, providerVars,
         streamVars
  <2> QED BY <1>7, <2>3, <2>4 DEF UseExecution
<1>8. CASE UseRepair /\ stays
  <2>1. probe.step = "repairing" /\ sandbox.phase \in {"idle", "done"}
    BY <1>8 DEF UseRepair, Done, StageInv, TaskPlace, StagePlace, ProbePlace
  <2>2. probe' \in [step: {"launching", "done"}, signal: {probe.signal, "failure"}]
    BY <1>8 DEF UseRepair, Signal, StageInv, Shapes
  <2>3. ProbePlace'
    BY <1>1, <1>8, <2>1, <2>2 DEF UseRepair, sandboxVars, threadVars, streamVars,
       ProbePlace
  <2>4. probe.signal \in {"none", "failure", "reasoning", "execution"}
    BY DEF StageInv, Shapes
  <2>5. \E t \in Tasks : Done(t) /\ EndTask BY <1>8 DEF UseRepair, Tasks
  <2> QED BY <1>1, <1>8, <2>2, <2>3, <2>4, <2>5, ProbeMoves DEF streamVars
<1>9. ASSUME probe.step \in {"launching", "done"}, probe' = NoProbe,
             sandbox' = NoExecution, UNCHANGED taskVars, RunShape', RunPlace'
      PROVE  StageInv'
  <2>1. TaskIdle BY <1>9, TasksOfStage
  <2>2. Shapes' BY <1>9 DEF Shapes, NoProbe, taskVars, StageInv, TaskShape
  <2>3. StagePlace' BY <1>9 DEF StagePlace, ProbePlace, NoProbe, NoExecution
  <2> QED BY <1>9, <2>1, <2>2, <2>3, MoveKeeps DEF taskVars, providerVars
<1>10. CASE EndProbe /\ Executed /\ UNCHANGED taskVars
  BY <1>1, <1>9, <1>10, ExecutedPlace DEF EndProbe
<1>11. CASE /\ probe.step = "launching" /\ Fails("sandbox", "provider_error", 0)
            /\ probe' = NoProbe /\ sandbox' = NoExecution /\ UNCHANGED taskVars
  BY <1>9, <1>11, FailsPlace
<1> QED
  BY <1>2, <1>3, <1>4, <1>5, <1>6, <1>7, <1>8, <1>10, <1>11
  DEF ExecutePython, ProbeStep

(* The sandbox, docker and the page.                                       *)

LEMMA SandboxMoves ==
  ASSUME StageInv, UNCHANGED <<threadVars, taskVars, probe, outbox>>,
         sandbox.phase = "idle" => sandbox'.phase = "idle",
         sandbox.phase # "idle" => sandbox'.phase # "idle",
         sandbox.phase = "done" => sandbox'.phase = "done"
  PROVE  StageInv'
<1>1. Shapes' BY DEF threadVars, taskVars, StageInv, Shapes, TaskShape, RunShape
<1>2. StagePlace'
  BY DEF threadVars, StageInv, StagePlace, RunPlace, ProbePlace, Shapes
<1>3. TaskPlace'
  BY DEF threadVars, taskVars, providerVars, StageInv, TaskPlace, TaskIdle, Explicit,
     ModelHost, Watched
<1> QED BY <1>1, <1>2, <1>3 DEF StageInv

LEMMA RunAgainKeeps == ASSUME StageInv, RunAgain PROVE StageInv'
<1>1. probe.step = "executing" /\ stage = "execute" /\ ~(fault.attempts > 0)
  BY DEF RunAgain, StageInv, Shapes, StagePlace, RunPlace, ProbePlace
<1>2. attempt + 1 \in 1 .. MaxAttempts
  BY SandboxAssumption DEF RunAgain, StageInv, Shapes, RunShape
<1>3. Shapes'
  BY <1>2, SandboxAssumption
  DEF RunAgain, NewRun, NoTask, NoProbe, StageInv, Shapes, TaskShape, RunShape
<1>4. StagePlace'
  BY <1>1 DEF RunAgain, NewRun, NoProbe, NoExecution, StagePlace, RunPlace, ProbePlace
<1> QED BY <1>3, <1>4, MoveKeeps DEF RunAgain, NoCall

LEMMA StageInit == ASSUME Init PROVE StageInv
<1>1. /\ setup \in Setups /\ attempt = 1 /\ run = NewRun /\ fault = NoFault
      /\ task = NoTask /\ call = NoCall /\ probe = NoProbe /\ sandbox = NoExecution
      /\ stage \in {"prepare", "admit", "direct"} /\ outbox = <<>>
  BY DEF Init, ProbeInit, TaskInit, ProviderInit, StreamInit, Watched
<1>2. Shapes
  BY <1>1, SandboxAssumption DEF Shapes, TaskShape, RunShape, NewRun, NoTask, NoProbe
<1>3. StagePlace
  BY <1>1 DEF StagePlace, RunPlace, ProbePlace, NewRun, NoFault, NoProbe, NoExecution
<1>4. TaskPlace BY <1>1 DEF TaskPlace, TaskIdle, NoTask, NoCall, Open
<1> QED BY <1>2, <1>3, <1>4 DEF StageInv

-----------------------------------------------------------------------------
(* Outside the probe gateway the execution in hand is left alone, and the  *)
(* cycle goes on only while there is none.                                 *)

CycleGoesOn ==
  /\ run'.cycle \in {run.cycle, run.cycle + 1}
  /\ stage' \in {"plan", "execute"} =>
       \/ run'.cycle = run.cycle /\ stage \in {"plan", "execute"}
       \/ run'.cycle = run.cycle + 1

BoxQuiet ==
  /\ UNCHANGED <<probe, sandbox, clients, containers, attempt>>
  /\ run'.cycle = run.cycle \/ sandbox.phase = "idle"
  /\ CycleGoesOn

LEMMA StartsQuiet ==
  ASSUME NEW name, NEW repairs, Starts(name, repairs) PROVE BoxQuiet
BY DEF Starts, threadVars, sandboxVars, BoxQuiet, CycleGoesOn

LEMMA StageQuiet ==
  ASSUME StageInv, stage # "execute" \/ setup.host # "arm", Moves,
         UNCHANGED attempt, CycleGoesOn
  PROVE  BoxQuiet
<1>1. sandbox.phase = "idle" BY DEF StageInv, StagePlace, ProbePlace, Shapes
<1> QED BY <1>1, Idle DEF BoxQuiet

LEMMA FailsQuiet ==
  ASSUME NEW by, NEW category, NEW attempts, Fails(by, category, attempts)
  PROVE  CycleGoesOn /\ UNCHANGED attempt
BY DEF Fails, Goes, CycleGoesOn

LEMMA ThreadQuiet == ASSUME StageInv, Thread, ~ExecutePython PROVE BoxQuiet
<1>1. CASE Prepare
  BY <1>1, StageQuiet, TasksOfStage DEF Prepare, At, Goes, Moves, CycleGoesOn
<1>2. CASE Admit
  <2>1. CASE ~Explicit /\ Starts("assess_task_admission", 1) BY <2>1, StartsQuiet
  <2>2. CASE ~(~Explicit /\ Starts("assess_task_admission", 1))
    <3>1. Moves /\ stage = "admit"
      BY <1>2, <2>2, TasksOfStage DEF Moves, Admit, At, Tasks, WrappingTasks
    <3>2. CycleGoesOn /\ UNCHANGED attempt
      BY <1>2, <2>2
      DEF Admit, Admitted, Refused, Goes, CycleGoesOn, StageInv, Shapes, RunShape
    <3> QED BY <3>1, <3>2, StageQuiet
  <2> QED BY <2>1, <2>2
<1>3. CASE FrameTask
  <2>1. CASE ~Explicit /\ Starts("frame_open_question", 1) BY <2>1, StartsQuiet
  <2>2. CASE ~(~Explicit /\ Starts("frame_open_question", 1))
    <3>1. Moves /\ stage = "frame"
      BY <1>3, <2>2, TasksOfStage DEF Moves, FrameTask, At, Tasks, WrappingTasks
    <3>2. CycleGoesOn /\ UNCHANGED attempt
      BY <1>3, <2>2
      DEF FrameTask, Framed, Goes, CycleGoesOn, StageInv, Shapes, RunShape
    <3> QED BY <3>1, <3>2, StageQuiet
  <2> QED BY <2>1, <2>2
<1>4. CASE DesignProbes
  <2>1. CASE ModelHost /\ Starts("design_probes", 1) BY <2>1, StartsQuiet
  <2>2. CASE ~(ModelHost /\ Starts("design_probes", 1))
    <3>1. Moves /\ stage = "design"
      BY <1>4, <2>2, TasksOfStage DEF Moves, DesignProbes, At, Tasks, WrappingTasks
    <3>2. CycleGoesOn /\ UNCHANGED attempt
      BY <1>4, <2>2
      DEF DesignProbes, Designed, Completes, Goes, CycleGoesOn, StageInv, Shapes,
          RunShape
    <3> QED BY <3>1, <3>2, StageQuiet
  <2> QED BY <2>1, <2>2
<1>5. CASE OpenCycle
  <2>1. CycleGoesOn /\ UNCHANGED attempt
    BY <1>5 DEF OpenCycle, Goes, CycleGoesOn, StageInv, Shapes, RunShape
  <2> QED BY <1>5, <2>1, StageQuiet, TasksOfStage DEF OpenCycle, At, Moves
<1>6. CASE PlanProbes
  <2>1. CycleGoesOn /\ UNCHANGED attempt
    BY <1>6
    DEF PlanProbes, At, Fails, Completes, Goes, CycleGoesOn, StageInv, Shapes, RunShape
  <2> QED BY <1>6, <2>1, StageQuiet, TasksOfStage DEF PlanProbes, At, Moves
<1>7. CASE ExecuteProbe
  <2>1. CASE run.asked /\ setup.model /\ Starts("execute_probe", 0)
    BY <2>1, StartsQuiet
  <2>2. CASE ~(run.asked /\ setup.model /\ Starts("execute_probe", 0))
    <3>1. Moves /\ Executed /\ stage = "execute" /\ setup.host # "arm"
      BY <1>7, <2>2, TasksOfStage DEF Moves, ExecuteProbe, At, Tasks, WrappingTasks
    <3>2. CycleGoesOn /\ UNCHANGED attempt
      BY <3>1 DEF Executed, Goes, CycleGoesOn, StageInv, Shapes, RunShape
    <3> QED BY <3>1, <3>2, StageQuiet
  <2> QED BY <2>1, <2>2
<1>8. CASE JudgeSignal
  <2>1. CASE setup.model /\ Starts("judge_evidence", JudgmentRepairs)
    BY <2>1, StartsQuiet
  <2>2. CASE ~(setup.model /\ Starts("judge_evidence", JudgmentRepairs))
    <3>1. Moves /\ stage = "judge"
      BY <1>8, <2>2, TasksOfStage DEF Moves, JudgeSignal, At, Tasks, WrappingTasks
    <3>2. PICK admitted, outside : Judged(admitted, outside)
      BY <1>8, <2>2 DEF JudgeSignal
    <3>3. CycleGoesOn /\ UNCHANGED attempt
      BY <3>2 DEF Judged, CycleGoesOn, StageInv, Shapes, RunShape
    <3> QED BY <3>1, <3>3, StageQuiet
  <2> QED BY <2>1, <2>2
<1>9. CASE Integrate
  <2>1. CASE ModelHost /\ run.condemned /\ Starts("expand_hypotheses", 1)
    BY <2>1, StartsQuiet
  <2>2. CASE ~(ModelHost /\ run.condemned /\ Starts("expand_hypotheses", 1))
    <3>1. Moves /\ stage = "judge"
      BY <1>9, <2>2, TasksOfStage DEF Moves, Integrate, At, Tasks, WrappingTasks
    <3>2. \/ \E spawned, expanded : Integrated(spawned, expanded)
          \/ \E by, category, attempts : Fails(by, category, attempts)
      BY <1>9, <2>2 DEF Integrate
    <3>3. ASSUME NEW spawned, NEW expanded, Integrated(spawned, expanded)
          PROVE  CycleGoesOn /\ UNCHANGED attempt
      BY <3>3 DEF Integrated, Goes, CycleGoesOn, StageInv, Shapes, RunShape
    <3>4. CycleGoesOn /\ UNCHANGED attempt BY <3>2, <3>3, FailsQuiet
    <3> QED BY <3>1, <3>4, StageQuiet
  <2> QED BY <2>1, <2>2
<1>10. CASE ProjectAnswer
  <2> DEFINE synthesis == ModelHost /\ run.framing.relationship = "synthesis"
  <2>1. CASE synthesis /\ Starts("project_answer", 1) BY <2>1, StartsQuiet
  <2>2. CASE ~(synthesis /\ Starts("project_answer", 1))
    <3>1. Moves /\ stage = "project" /\ Projected
      BY <1>10, <2>2, TasksOfStage DEF Moves, ProjectAnswer, At, Tasks, WrappingTasks
    <3>2. CycleGoesOn /\ UNCHANGED attempt BY <3>1 DEF Projected, Goes, CycleGoesOn
    <3> QED BY <3>1, <3>2, StageQuiet
  <2> QED BY <2>1, <2>2
<1>11. CASE Advance
  <2>1. CycleGoesOn /\ UNCHANGED attempt
    BY <1>11 DEF Advance, Completes, Goes, CycleGoesOn
  <2> QED BY <1>11, <2>1, StageQuiet, TasksOfStage DEF Advance, At, Moves
<1>12. CASE DirectAnswer
  <2>1. CASE Starts("answer_multiple_choice", 1) BY <2>1, StartsQuiet
  <2>2. CASE ~Starts("answer_multiple_choice", 1)
    <3>1. Moves /\ stage = "direct"
      BY <1>12, <2>2 DEF Moves, DirectAnswer, At, Tasks, WrappingTasks
    <3>2. CycleGoesOn /\ UNCHANGED attempt
      BY <1>12, <2>2 DEF DirectAnswer, Completes, Fails, Goes, CycleGoesOn
    <3> QED BY <3>1, <3>2, StageQuiet
  <2> QED BY <2>1, <2>2
<1>13. CASE ReturnCase
  BY <1>13, StageQuiet, TasksOfStage DEF ReturnCase, At, Moves, CycleGoesOn
<1>14. CASE TaskFails
  <2>1. sandbox.phase = "idle"
    BY <1>14 DEF TaskFails, Caught, StageInv, StagePlace, ProbePlace, Shapes
  <2>2. CycleGoesOn /\ UNCHANGED attempt BY <1>14, FailsQuiet DEF TaskFails
  <2> QED BY <1>14, <2>1, <2>2 DEF TaskFails, sandboxVars, BoxQuiet
<1>15. CASE ReadTask
  BY <1>15 DEF ReadTask, threadVars, sandboxVars, BoxQuiet, CycleGoesOn
<1>16. CASE SayNext
  BY <1>16 DEF SayNext, threadVars, probeVars, sandboxVars, BoxQuiet, CycleGoesOn
<1> QED
  BY <1>1, <1>2, <1>3, <1>4, <1>5, <1>6, <1>7, <1>8, <1>9, <1>10, <1>11, <1>12,
     <1>13, <1>14, <1>15, <1>16 DEF Thread

-----------------------------------------------------------------------------
(* The sandbox: steps that leave the execution in hand alone.              *)

LEMMA TripleTypes ==
  ASSUME NEW e \in Executions
  PROVE  /\ e[1] \in 1 .. MaxAttempts /\ e[2] \in 1 .. MaxCycles /\ e[3] \in 0 .. 1
         /\ ContainerName(e) \in Names /\ ContainerName(e) = <<e[2], e[3]>>
BY DEF Executions, ContainerName, Names

LEMMA QuietKeeps == ASSUME StageInv, BoxInv, BoxQuiet PROVE BoxInv'
<1>1. UNCHANGED <<probe, sandbox, clients, containers, attempt>> BY DEF BoxQuiet
<1>2. SandboxType' BY <1>1 DEF BoxInv, SandboxType, BoxQuiet
<1>3. CaptureInv' BY <1>1 DEF BoxInv, CaptureInv
<1>4. RemovalInv' BY <1>1 DEF BoxInv, RemovalInv, Mine
<1>5. FreshInv'
  <2> SUFFICES ASSUME NEW e \in Executions, Unlaunched(e)' PROVE Unlaunched(e)
    BY <1>1 DEF BoxInv, FreshInv, Mine
  <2>1. run.cycle \in Nat BY DEF StageInv, Shapes, RunShape
  <2>2. e[2] \in Nat BY TripleTypes, SandboxAssumption
  <2> QED BY <1>1, <2>1, <2>2 DEF Unlaunched, BoxQuiet, CycleGoesOn
<1> QED BY <1>2, <1>3, <1>4, <1>5 DEF BoxInv

(* The probe gateway goes on without the sandbox.                          *)
LEMMA GatewayKeeps ==
  ASSUME StageInv, BoxInv, UNCHANGED <<threadVars, sandboxVars>>,
         probe'.step \in {"launching", "repairing"} /\ sandbox.phase = "done" =>
           sandbox.who[3] = 0
  PROVE  BoxInv'
<1>1. UNCHANGED <<sandbox, clients, containers, attempt, run, stage>>
  BY DEF threadVars, sandboxVars
<1>2. SandboxType' BY <1>1 DEF BoxInv, SandboxType
<1>3. CaptureInv' BY <1>1 DEF BoxInv, CaptureInv
<1>4. RemovalInv' BY <1>1 DEF BoxInv, RemovalInv, Mine
<1>5. FreshInv' BY <1>1 DEF BoxInv, FreshInv, Unlaunched, Mine
<1> QED BY <1>2, <1>3, <1>4, <1>5 DEF BoxInv

(* There is no execution any more, and none can begin at this point.       *)
LEMMA ForgetKeeps ==
  ASSUME StageInv, BoxInv, sandbox' = NoExecution, UNCHANGED <<clients, containers>>,
         stage' \notin {"plan", "execute"},
         \/ attempt' = attempt /\ run'.cycle = run.cycle
         \/ attempt' = attempt + 1
  PROVE  BoxInv'
<1>1. NoOutput \in [Streams -> Nat] /\ NoOutput["stdout"] = 0 /\ NoOutput["stderr"] = 0
  BY DEF NoOutput, Streams
<1>2. SandboxType'
  BY <1>1 DEF BoxInv, SandboxType, Boxes, NoExecution
<1>3. CaptureInv'
  BY <1>1, SandboxAssumption DEF CaptureInv, NoExecution, Streams
<1>4. RemovalInv' BY DEF RemovalInv, NoExecution
<1>5. FreshInv'
  <2> SUFFICES ASSUME NEW e \in Executions, Unlaunched(e)' PROVE Unlaunched(e)
    BY DEF BoxInv, FreshInv, Mine
  <2>1. attempt \in Nat BY DEF StageInv, Shapes, RunShape
  <2>2. e[1] \in Nat BY TripleTypes, SandboxAssumption
  <2> QED BY <2>1, <2>2 DEF Unlaunched
<1> QED BY <1>2, <1>3, <1>4, <1>5 DEF BoxInv

(* DockerPythonSandbox.execute starts a client.                            *)
LEMMA LaunchKeeps ==
  ASSUME StageInv, BoxInv, Execute(attempt, run.cycle), UNCHANGED threadVars,
         stage = "execute"
  PROVE  BoxInv'
<1> DEFINE index == IF sandbox.phase = "idle" THEN 0 ELSE 1
<1>2. PICK e \in Executions : e = <<attempt, run.cycle, index>>
  <2>1. run.cycle \in 1 .. MaxCycles
    BY SandboxAssumption DEF StageInv, Shapes, RunShape, StagePlace, RunPlace
  <2>2. attempt \in 1 .. MaxAttempts BY DEF StageInv, Shapes, RunShape
  <2>3. index \in 0 .. 1 OBVIOUS
  <2> QED BY <2>1, <2>2, <2>3 DEF Executions
<1>1. /\ sandbox' = [NoExecution EXCEPT !.phase = "wait", !.who = e]
      /\ clients' = [clients EXCEPT ![e] = "asking"]
      /\ containers' = containers /\ probe' = [probe EXCEPT !.step = "executing"]
      /\ probe.step = "launching" /\ UNCHANGED <<attempt, run, stage>>
  BY <1>2 DEF Execute, Launch, threadVars
<1>3. Unlaunched(e)
  <2>1. sandbox.phase = "idle" \/ sandbox.who[3] = 0
    BY <1>1 DEF StageInv, StagePlace, ProbePlace, BoxInv, SandboxType
  <2> QED BY <1>2, <2>1 DEF Unlaunched
<1>4. clients[e] = "none" /\ ~Mine(e) BY <1>2, <1>3 DEF BoxInv, FreshInv
<1>5. /\ sandbox'.phase = "wait" /\ sandbox'.who = e /\ sandbox'.timedOut = FALSE
      /\ sandbox'.truncated = FALSE /\ sandbox'.produced = NoOutput
      /\ sandbox'.pipe = NoOutput /\ sandbox'.captured = NoOutput
      /\ sandbox'.exit = "none" /\ sandbox'.removal = "none"
  BY <1>1 DEF NoExecution
<1>6. NoOutput \in [Streams -> Nat] /\ NoOutput["stdout"] = 0 /\ NoOutput["stderr"] = 0
  BY DEF NoOutput, Streams
<1>7. clients \in [Executions -> {"none", "asking", "starting", "attached"}]
  BY DEF BoxInv, SandboxType
<1>8. clients'[e] = "asking" /\ \A x \in Executions : x # e => clients'[x] = clients[x]
  BY <1>1, <1>2, <1>7
<1>9. SandboxType'
  <2>1. clients' \in [Executions -> {"none", "asking", "starting", "attached"}]
    BY <1>1, <1>2, <1>7
  <2>2. sandbox' \in Boxes
    BY <1>1, <1>2, <1>6 DEF NoExecution, Boxes
  <2>3. e[1] = attempt /\ e[2] = run.cycle BY <1>2
  <2> QED
    BY <1>1, <1>2, <1>5, <2>1, <2>2, <2>3 DEF BoxInv, SandboxType
<1>10. CaptureInv' BY <1>5, <1>6, SandboxAssumption DEF CaptureInv, Streams
<1>11. Mine(e)' = Mine(e) BY <1>1 DEF Mine
<1>12. RemovalInv' BY <1>4, <1>5, <1>11 DEF RemovalInv
<1>13. FreshInv'
  <2> SUFFICES ASSUME NEW x \in Executions, Unlaunched(x)'
               PROVE  clients'[x] = "none" /\ ~Mine(x)'
    BY DEF FreshInv
  <2>1. x # e
    <3>1. e[1] = attempt /\ e[2] = run.cycle BY <1>2
    <3>2. attempt \in Nat /\ run.cycle \in Nat BY DEF StageInv, Shapes, RunShape
    <3>3. e[3] \in Nat BY TripleTypes
    <3> QED BY <1>1, <1>5, <3>1, <3>2, <3>3 DEF Unlaunched
  <2>2. Unlaunched(x)
    <3>1. x[3] \in 0 .. 1 BY TripleTypes
    <3>2. sandbox'.who[3] = index BY <1>2, <1>5
    <3>3. sandbox.phase # "idle" => sandbox.who[3] = 0
      BY <1>1 DEF StageInv, StagePlace, ProbePlace, BoxInv, SandboxType
    <3>4. x[3] > index => sandbox.phase = "idle" \/ x[3] > sandbox.who[3]
      BY <3>1, <3>3
    <3> QED BY <1>1, <1>5, <3>2, <3>4 DEF Unlaunched
  <2>3. Mine(x)' = Mine(x) BY <1>1 DEF Mine
  <2> QED BY <1>8, <2>1, <2>2, <2>3 DEF BoxInv, FreshInv
<1> QED BY <1>9, <1>10, <1>12, <1>13 DEF BoxInv

LEMMA PythonBox == ASSUME StageInv, BoxInv, ExecutePython PROVE BoxInv'
<1>1. stage = "execute" /\ outbox = <<>> /\ setup.host = "arm"
  BY DEF ExecutePython, At
<1>2. CASE BeginProbe /\ UNCHANGED threadVars
  <2>1. probe'.step = "planning" BY <1>2 DEF BeginProbe, NoProbe
  <2> QED BY <1>2, <2>1, GatewayKeeps DEF BeginProbe
<1>3. CASE UsePlan /\ UNCHANGED threadVars
  <2>1. sandbox.phase = "idle"
    BY <1>3 DEF UsePlan, Done, StageInv, TaskPlace, StagePlace, ProbePlace
  <2> QED BY <1>3, <2>1, GatewayKeeps DEF UsePlan
<1>4. CASE AskReasoning /\ UNCHANGED threadVars
  BY <1>4, GatewayKeeps DEF AskReasoning
<1>5. CASE UseReasoning /\ UNCHANGED threadVars
  <2>1. sandbox.phase = "idle"
    BY <1>5 DEF UseReasoning, StageInv, StagePlace, ProbePlace
  <2> QED BY <1>5, <2>1, GatewayKeeps DEF UseReasoning
<1>6. CASE Execute(attempt, run.cycle) /\ UNCHANGED threadVars
  BY <1>1, <1>6, LaunchKeeps
<1>7. CASE UseExecution /\ UNCHANGED threadVars
  <2>1. PICK policy \in BOOLEAN :
          IF RequiresRepair(policy) /\ sandbox.who[3] = 0
          THEN probe' = [probe EXCEPT !.step = "repairing"]
          ELSE Signal(IF Usable(policy) THEN "execution" ELSE "failure")
    BY <1>7 DEF UseExecution
  <2>2. sandbox.who[3] = 0 \/ probe'.step = "done" BY <2>1 DEF Signal
  <2> QED BY <1>7, <2>2, GatewayKeeps DEF UseExecution
<1>8. CASE UseRepair /\ UNCHANGED threadVars
  <2>1. probe.step = "repairing" BY <1>8 DEF UseRepair, Done, StageInv, TaskPlace
  <2>2. sandbox.phase = "done" => sandbox.who[3] = 0
    BY <2>1 DEF BoxInv, SandboxType
  <2> QED BY <1>8, <2>2, GatewayKeeps DEF UseRepair
<1>9. CASE EndProbe /\ Executed
  <2>1. stage' = "judge" /\ attempt' = attempt /\ run'.cycle = run.cycle
    BY <1>9 DEF Executed, Goes, StageInv, Shapes, RunShape
  <2> QED BY <1>9, <2>1, ForgetKeeps DEF EndProbe
<1>10. CASE /\ Fails("sandbox", "provider_error", 0) /\ sandbox' = NoExecution
            /\ UNCHANGED <<clients, containers>>
  <2>1. stage' = "over" /\ attempt' = attempt /\ run'.cycle = run.cycle
    BY <1>10 DEF Fails, Goes
  <2> QED BY <1>10, <2>1, ForgetKeeps
<1> QED
  BY <1>2, <1>3, <1>4, <1>5, <1>6, <1>7, <1>8, <1>9, <1>10
  DEF ExecutePython, ProbeStep, taskVars

LEMMA AgainBox == ASSUME StageInv, BoxInv, RunAgain PROVE BoxInv'
BY ForgetKeeps DEF RunAgain

-----------------------------------------------------------------------------
(* Steps of the execution in hand.                                         *)

LEMMA SandboxShape ==
  ASSUME BoxInv
  PROVE  /\ sandbox \in Boxes
         /\ sandbox.produced \in [Streams -> Nat] /\ sandbox.pipe \in [Streams -> Nat]
         /\ sandbox.captured \in [Streams -> Nat]
         /\ clients \in [Executions -> {"none", "asking", "starting", "attached"}]
         /\ containers \in [Names -> [state: {"absent", "created", "running"},
                                      by: Executions \cup {Nobody}]]
         /\ sandbox.phase # "idle" =>
              sandbox.who \in Executions /\ ContainerName(sandbox.who) \in Names
BY TripleTypes DEF BoxInv, SandboxType, Boxes

(* The drain threads read a chunk.                                         *)
LEMMA DrainKeeps ==
  ASSUME StageInv, BoxInv, NEW s \in Streams, Drain(s),
         UNCHANGED <<probe, attempt, run, stage>>
  PROVE  BoxInv' /\ sandbox'.phase = sandbox.phase
<1>1. sandbox.pipe[s] > 0 /\ UNCHANGED <<clients, containers>> BY DEF Drain
<1> DEFINE fits == sandbox.captured["stdout"] + sandbox.captured["stderr"] < OutputLimit
           more == IF fits THEN 1 ELSE 0
<1> DEFINE pipes == [sandbox.pipe EXCEPT ![s] = sandbox.pipe[s] - 1]
           kept == [sandbox.captured EXCEPT ![s] = sandbox.captured[s] + 1]
<1>2. /\ fits => sandbox' = [sandbox EXCEPT !.pipe = pipes, !.captured = kept]
      /\ ~fits => sandbox' = [sandbox EXCEPT !.pipe = pipes, !.truncated = TRUE]
  BY DEF Drain, Capture
<1>3. pipes \in [Streams -> Nat] /\ kept \in [Streams -> Nat] BY <1>1, SandboxShape
<1>4. /\ pipes[s] = sandbox.pipe[s] - 1 /\ kept[s] = sandbox.captured[s] + 1
      /\ \A t \in Streams \ {s} : /\ pipes[t] = sandbox.pipe[t]
                                  /\ kept[t] = sandbox.captured[t]
  BY SandboxShape
<1> HIDE DEF pipes, kept
<1>5. /\ sandbox' \in Boxes /\ sandbox'.pipe = pipes
      /\ UNCHANGED <<sandbox.phase, sandbox.who, sandbox.timedOut, sandbox.produced,
                     sandbox.removal>>
      /\ sandbox'.captured = IF fits THEN kept ELSE sandbox.captured
      /\ sandbox'.truncated = IF fits THEN sandbox.truncated ELSE TRUE
  <2>1. CASE fits BY <1>2, <1>3, <2>1, SandboxShape DEF Boxes
  <2>2. CASE ~fits BY <1>2, <1>3, <2>2, SandboxShape DEF Boxes
  <2> QED BY <2>1, <2>2
<1>6. CaptureInv'
  <2>1. sandbox.phase # "done"
    BY <1>1 DEF BoxInv, CaptureInv, NoOutput, Streams
  <2>2. CASE s = "stdout"
    BY <1>1, <1>4, <1>5, <2>1, <2>2, SandboxShape, SandboxAssumption
    DEF BoxInv, CaptureInv, Streams
  <2>3. CASE s = "stderr"
    BY <1>1, <1>4, <1>5, <2>1, <2>3, SandboxShape, SandboxAssumption
    DEF BoxInv, CaptureInv, Streams
  <2> QED BY <2>2, <2>3 DEF Streams
<1>7. SandboxType' BY <1>1, <1>5 DEF BoxInv, SandboxType
<1>8. FreshInv' BY <1>1, <1>5 DEF BoxInv, FreshInv, Unlaunched, Mine
<1>9. RemovalInv' BY <1>1, <1>5 DEF BoxInv, RemovalInv, Mine
<1> QED BY <1>5, <1>6, <1>7, <1>8, <1>9 DEF BoxInv

LEMMA TimeoutKeeps ==
  ASSUME StageInv, BoxInv, Timeout, UNCHANGED <<probe, attempt, run, stage>>
  PROVE  BoxInv' /\ sandbox.phase = "wait" /\ sandbox'.phase = "remove"
<1>1. sandbox.phase = "wait" /\ UNCHANGED <<clients, containers>> BY DEF Timeout
<1>2. /\ sandbox' \in Boxes /\ sandbox'.phase = "remove" /\ sandbox'.timedOut
      /\ UNCHANGED <<sandbox.who, sandbox.produced, sandbox.pipe, sandbox.captured,
                     sandbox.truncated, sandbox.removal>>
  BY SandboxShape DEF Timeout, Boxes
<1>3. SandboxType' BY <1>1, <1>2 DEF BoxInv, SandboxType
<1>4. CaptureInv' BY <1>1, <1>2 DEF BoxInv, CaptureInv
<1>5. FreshInv' BY <1>1, <1>2 DEF BoxInv, FreshInv, Unlaunched, Mine
<1>6. RemovalInv' BY <1>1, <1>2 DEF BoxInv, RemovalInv, Mine
<1> QED BY <1>1, <1>2, <1>3, <1>4, <1>5, <1>6 DEF BoxInv

LEMMA JoinKeeps ==
  ASSUME StageInv, BoxInv, Join, UNCHANGED <<probe, attempt, run, stage>>
  PROVE  /\ ~(probe.step \in {"launching", "repairing"}) => BoxInv'
         /\ sandbox.phase = "join" /\ sandbox'.phase = "done"
<1>1. /\ sandbox.phase = "join" /\ sandbox.pipe = NoOutput
      /\ UNCHANGED <<clients, containers>>
  BY DEF Join
<1>2. /\ sandbox' \in Boxes /\ sandbox'.phase = "done"
      /\ UNCHANGED <<sandbox.who, sandbox.timedOut, sandbox.produced, sandbox.pipe,
                     sandbox.captured, sandbox.truncated, sandbox.removal>>
  BY SandboxShape DEF Join, Boxes
<1>3. ~(probe.step \in {"launching", "repairing"}) => SandboxType'
  BY <1>1, <1>2 DEF BoxInv, SandboxType
<1>4. CaptureInv' BY <1>1, <1>2 DEF BoxInv, CaptureInv
<1>5. FreshInv' BY <1>1, <1>2 DEF BoxInv, FreshInv, Unlaunched, Mine
<1>6. RemovalInv' BY <1>1, <1>2 DEF BoxInv, RemovalInv, Mine
<1> QED BY <1>1, <1>2, <1>3, <1>4, <1>5, <1>6 DEF BoxInv

LEMMA KillKeeps ==
  ASSUME StageInv, BoxInv, Kill, UNCHANGED <<probe, attempt, run, stage>>
  PROVE  BoxInv' /\ sandbox.phase = "kill" /\ sandbox'.phase = "join"
<1>1. /\ sandbox.phase = "kill" /\ containers' = containers
      /\ clients' = [clients EXCEPT ![sandbox.who] = "none"]
  BY DEF Kill
<1>2. /\ sandbox' \in Boxes /\ sandbox'.phase = "join"
      /\ UNCHANGED <<sandbox.who, sandbox.timedOut, sandbox.produced, sandbox.pipe,
                     sandbox.captured, sandbox.truncated, sandbox.removal>>
  BY SandboxShape DEF Kill, Boxes
<1>3. /\ clients' \in [Executions -> {"none", "asking", "starting", "attached"}]
      /\ clients'[sandbox.who] = "none"
      /\ \A e \in Executions : clients'[e] \in {clients[e], "none"}
  BY <1>1, SandboxShape
<1>4. SandboxType' BY <1>1, <1>2, <1>3 DEF BoxInv, SandboxType
<1>5. CaptureInv' BY <1>1, <1>2, <1>3 DEF BoxInv, CaptureInv
<1>6. FreshInv' BY <1>1, <1>2, <1>3 DEF BoxInv, FreshInv, Unlaunched, Mine
<1>7. RemovalInv' BY <1>1, <1>2, <1>3 DEF BoxInv, RemovalInv, Mine
<1> QED BY <1>1, <1>2, <1>4, <1>5, <1>6, <1>7 DEF BoxInv

(* The container is removed by its name, whosever it is.                   *)
LEMMA RemoveKeeps ==
  ASSUME StageInv, BoxInv, RemoveContainer, UNCHANGED <<probe, attempt, run, stage>>
  PROVE  BoxInv' /\ sandbox.phase = "remove" /\ sandbox'.phase = "kill"
<1> DEFINE who == sandbox.who
           n == ContainerName(who)
<1>1. sandbox.phase = "remove" /\ clients' = clients BY DEF RemoveContainer
<1>2. who \in Executions /\ n \in Names BY <1>1, SandboxShape
<1>3. \/ /\ containers' = [containers EXCEPT ![n] = Absent]
         /\ sandbox' = [sandbox EXCEPT !.phase = "kill", !.removal =
                          IF Mine(who) THEN "removed" ELSE "missed"]
      \/ /\ containers' = containers
         /\ sandbox' = [sandbox EXCEPT !.phase = "kill", !.removal =
                          IF Mine(who) THEN "failed" ELSE "missed"]
  BY DEF RemoveContainer
<1>4. /\ sandbox' \in Boxes /\ sandbox'.phase = "kill"
      /\ UNCHANGED <<sandbox.who, sandbox.timedOut, sandbox.produced, sandbox.pipe,
                     sandbox.captured, sandbox.truncated>>
      /\ \/ sandbox'.removal \in {"missed", "failed"}
         \/ Mine(who) /\ containers' = [containers EXCEPT ![n] = Absent]
  BY <1>3, SandboxShape DEF Boxes
<1>5. /\ containers' \in [Names -> [state: {"absent", "created", "running"},
                                    by: Executions \cup {Nobody}]]
      /\ \A x \in Names : containers'[x] \in {containers[x], Absent}
      /\ containers' = [containers EXCEPT ![n] = Absent] => containers'[n] = Absent
  <2>1. Absent \in [state: {"absent", "created", "running"},
                    by: Executions \cup {Nobody}]
    BY DEF Absent
  <2> QED BY <1>2, <1>3, <2>1, SandboxShape
<1>6. \A e \in Executions : Mine(e)' => Mine(e)
  <2> SUFFICES ASSUME NEW e \in Executions, Mine(e)' PROVE Mine(e) OBVIOUS
  <2>1. ContainerName(e) \in Names BY TripleTypes
  <2>2. containers'[ContainerName(e)].state # "absent" BY DEF Mine
  <2>3. containers'[ContainerName(e)] = containers[ContainerName(e)]
    BY <1>5, <2>1, <2>2 DEF Absent
  <2> QED BY <2>3 DEF Mine
<1>7. SandboxType'
  <2>1. \A x \in Names : containers'[x].state # "absent" =>
          containers'[x].by \in Executions /\ ContainerName(containers'[x].by) = x
    BY <1>5 DEF Absent, BoxInv, SandboxType
  <2> QED BY <1>1, <1>4, <1>5, <2>1 DEF BoxInv, SandboxType
<1>8. CaptureInv' BY <1>1, <1>4 DEF BoxInv, CaptureInv
<1>9. FreshInv' BY <1>1, <1>4, <1>6 DEF BoxInv, FreshInv, Unlaunched
<1>10. RemovalInv'
  <2>1. Mine(sandbox.who)' => Mine(who) BY <1>2, <1>4, <1>6
  <2>2. CASE sandbox'.removal \in {"missed", "failed"}
    BY <1>1, <1>4, <2>1, <2>2 DEF BoxInv, RemovalInv
  <2>3. CASE Mine(who) /\ containers' = [containers EXCEPT ![n] = Absent]
    <3>1. ~Mine(sandbox.who)' BY <1>4, <1>5, <2>3 DEF Mine, Absent
    <3>2. clients[who] # "asking" BY <1>1, <2>3 DEF BoxInv, RemovalInv
    <3> QED BY <1>1, <1>4, <3>1, <3>2 DEF BoxInv, RemovalInv
  <2> QED BY <1>4, <2>2, <2>3
<1> QED BY <1>1, <1>4, <1>7, <1>8, <1>9, <1>10 DEF BoxInv

LEMMA SandboxKeeps == ASSUME StageInv, BoxInv, Sandbox PROVE StageInv' /\ BoxInv'
<1>1. UNCHANGED <<threadVars, taskVars, probe, outbox>>
  BY DEF Sandbox, SandboxStep, streamVars
<1>2. UNCHANGED <<probe, attempt, run, stage>> BY <1>1 DEF threadVars
<1>3. sandbox.phase = "join" => ~(probe.step \in {"launching", "repairing"})
  BY DEF StageInv, StagePlace, ProbePlace
<1>4. CASE \E s \in Streams : Drain(s)
  <2>1. BoxInv' /\ sandbox'.phase = sandbox.phase BY <1>2, <1>4, DrainKeeps
  <2> QED BY <1>1, <2>1, SandboxMoves
<1>5. CASE Timeout BY <1>1, <1>2, <1>5, TimeoutKeeps, SandboxMoves
<1>6. CASE RemoveContainer BY <1>1, <1>2, <1>6, RemoveKeeps, SandboxMoves
<1>7. CASE Kill BY <1>1, <1>2, <1>7, KillKeeps, SandboxMoves
<1>8. CASE Join BY <1>1, <1>2, <1>3, <1>8, JoinKeeps, SandboxMoves
<1> QED BY <1>4, <1>5, <1>6, <1>7, <1>8 DEF Sandbox, SandboxStep

-----------------------------------------------------------------------------
(* Steps of docker.                                                        *)

Kept == [Names -> [state: {"absent", "created", "running"},
                   by: Executions \cup {Nobody}]]

(* Each container has the name of its execution.                           *)
Named(kept) ==
  \A x \in Names : kept[x].state # "absent" =>
    kept[x].by \in Executions /\ ContainerName(kept[x].by) = x

(* What a client that ends does to the execution in hand.                  *)
LEMMA ClientEndsKeeps ==
  ASSUME StageInv, BoxInv, NEW e \in Executions, NEW exit \in {"zero", "error"},
         clients[e] # "none", ClientEnds(e, exit),
         UNCHANGED <<threadVars, taskVars, probe, outbox>>,
         containers' \in Kept, Named(containers)',
         \A x \in Executions : Mine(x)' => Mine(x),
         sandbox.phase = "wait" /\ e = sandbox.who => ~Mine(e)'
  PROVE  StageInv' /\ BoxInv'
<1>1. UNCHANGED <<attempt, run, stage, probe>> BY DEF threadVars
<1>2. /\ clients' \in [Executions -> {"none", "asking", "starting", "attached"}]
      /\ clients'[e] = "none"
      /\ \A x \in Executions : clients'[x] \in {clients[x], "none"}
  BY SandboxShape DEF ClientEnds
<1>3. /\ sandbox' \in Boxes
      /\ UNCHANGED <<sandbox.who, sandbox.timedOut, sandbox.produced, sandbox.pipe,
                     sandbox.captured, sandbox.truncated, sandbox.removal>>
      /\ \/ sandbox'.phase = sandbox.phase
         \/ sandbox.who = e /\ sandbox.phase = "wait" /\ sandbox'.phase = "join"
      /\ sandbox.who = e => sandbox'.phase # "wait"
  <2>1. CASE sandbox.who # e \/ sandbox.phase \notin {"wait", "remove", "kill"}
    BY <2>1, SandboxShape DEF ClientEnds
  <2>2. CASE sandbox.who = e /\ sandbox.phase \in {"wait", "remove", "kill"}
    <3>1. sandbox' = [sandbox EXCEPT !.exit = exit,
                        !.phase = IF sandbox.phase = "wait" THEN "join"
                                  ELSE sandbox.phase]
      BY <2>2 DEF ClientEnds
    <3> QED BY <2>2, <3>1, SandboxShape DEF Boxes
  <2> QED BY <2>1, <2>2
<1>4. SandboxType'
  BY <1>1, <1>2, <1>3 DEF BoxInv, SandboxType, Kept, Named
<1>5. CaptureInv'
  <2>1. sandbox'.phase \in {"join", "done"} => clients'[sandbox.who] = "none"
    BY <1>2, <1>3, SandboxShape DEF BoxInv, CaptureInv
  <2> QED BY <1>3, <2>1 DEF BoxInv, CaptureInv
<1>6. FreshInv' BY <1>1, <1>2, <1>3 DEF BoxInv, FreshInv, Unlaunched
<1>7. RemovalInv'
  <2>1. sandbox.phase # "idle" =>
          /\ sandbox.who \in Executions /\ (Mine(sandbox.who)' => Mine(sandbox.who))
          /\ clients'[sandbox.who] \in {clients[sandbox.who], "none"}
    BY <1>2, <1>3, SandboxShape
  <2>2. CASE sandbox'.phase = sandbox.phase
    BY <1>3, <2>1, <2>2 DEF BoxInv, RemovalInv
  <2>3. CASE sandbox.who = e /\ sandbox.phase = "wait" /\ sandbox'.phase = "join"
    <3>1. ~Mine(sandbox.who)' BY <1>3, <2>3
    <3> QED BY <1>3, <2>1, <2>3, <3>1 DEF BoxInv, RemovalInv
  <2> QED BY <1>3, <2>2, <2>3
<1>8. StageInv' BY <1>3, SandboxMoves
<1> QED BY <1>4, <1>5, <1>6, <1>7, <1>8 DEF BoxInv

(* A client of a launched execution goes on; it is not the one that was    *)
(* waited for in vain and is gone.                                         *)
LEMMA ClientGoesOn ==
  ASSUME StageInv, BoxInv, NEW e \in Executions, clients[e] \in {"asking", "starting"},
         NEW next \in {"starting", "attached"}, clients' = [clients EXCEPT ![e] = next],
         UNCHANGED <<threadVars, taskVars, probe, outbox, sandbox>>,
         containers' \in Kept, Named(containers)',
         \A x \in Executions : x # e /\ Mine(x)' => Mine(x),
         clients[e] = "asking" \/ (Mine(e)' => Mine(e))
  PROVE  StageInv' /\ BoxInv'
<1>1. UNCHANGED <<attempt, run, stage, probe, sandbox>> BY DEF threadVars
<1>2. /\ clients' \in [Executions -> {"none", "asking", "starting", "attached"}]
      /\ clients'[e] = next
      /\ \A x \in Executions : x # e => clients'[x] = clients[x]
  BY SandboxShape
<1>3. ~Unlaunched(e) BY DEF BoxInv, FreshInv
<1>4. sandbox.who = e => sandbox.phase \notin {"join", "done"}
  BY DEF BoxInv, CaptureInv
<1>5. SandboxType' BY <1>1, <1>2 DEF BoxInv, SandboxType, Kept, Named
<1>6. CaptureInv'
  <2>1. sandbox.phase \in {"join", "done"} => clients'[sandbox.who] = "none"
    BY <1>2, <1>4, SandboxShape DEF BoxInv, CaptureInv
  <2> QED BY <1>1, <2>1 DEF BoxInv, CaptureInv
<1>7. FreshInv'
  <2> SUFFICES ASSUME NEW x \in Executions, Unlaunched(x)'
               PROVE  clients'[x] = "none" /\ ~Mine(x)'
    BY DEF FreshInv
  <2>1. Unlaunched(x) BY <1>1 DEF Unlaunched
  <2>2. x # e BY <1>3, <2>1
  <2> QED BY <1>2, <2>1, <2>2 DEF BoxInv, FreshInv
<1>8. RemovalInv'
  <2> SUFFICES ASSUME sandbox.phase # "idle" PROVE RemovalInv'
    BY <1>1 DEF RemovalInv
  <2>1. sandbox.who \in Executions BY SandboxShape
  <2>2. CASE sandbox.who # e
    <3>1. /\ clients'[sandbox.who] = clients[sandbox.who]
          /\ Mine(sandbox.who)' => Mine(sandbox.who)
      BY <1>1, <1>2, <2>1, <2>2
    <3> QED BY <1>1, <3>1 DEF BoxInv, RemovalInv
  <2>3. CASE sandbox.who = e
    <3>1. clients'[sandbox.who] # "asking" BY <1>2, <2>3
    <3>2. clients[e] # "asking" => (Mine(sandbox.who)' => Mine(sandbox.who))
      BY <1>1, <2>3
    <3>3. sandbox.phase = "kill" /\ clients[e] = "asking" =>
            sandbox.removal \in {"missed", "failed"}
      BY <2>3 DEF BoxInv, RemovalInv
    <3> QED BY <1>1, <1>4, <2>3, <3>1, <3>2, <3>3 DEF BoxInv, RemovalInv
  <2> QED BY <2>2, <2>3
<1>9. StageInv' BY <1>1, SandboxMoves
<1> QED BY <1>5, <1>6, <1>7, <1>8, <1>9 DEF BoxInv

LEMMA KeptNow == ASSUME BoxInv PROVE containers \in Kept /\ Named(containers)
BY DEF BoxInv, SandboxType, Kept, Named

LEMMA CreateKeeps ==
  ASSUME StageInv, BoxInv, NEW e \in Executions, ClientCreates(e),
         UNCHANGED <<threadVars, taskVars, probe, outbox>>
  PROVE  StageInv' /\ BoxInv'
<1> DEFINE n == ContainerName(e)
<1>1. clients[e] = "asking" /\ n \in Names BY TripleTypes DEF ClientCreates
<1>2. CASE /\ containers[n] = Absent
           /\ containers' = [containers EXCEPT ![n] = [state |-> "created", by |-> e]]
           /\ clients' = [clients EXCEPT ![e] = "starting"]
           /\ UNCHANGED sandbox
  <2>1. /\ containers' \in Kept /\ containers'[n] = [state |-> "created", by |-> e]
        /\ \A x \in Names : x # n => containers'[x] = containers[x]
    BY <1>1, <1>2, KeptNow DEF Kept
  <2>2. Named(containers)' BY <2>1, KeptNow DEF Named
  <2>3. ASSUME NEW x \in Executions, x # e, Mine(x)' PROVE Mine(x)
    <3>1. ContainerName(x) \in Names BY TripleTypes
    <3>2. ContainerName(x) # n BY <2>1, <2>3 DEF Mine
    <3> QED BY <2>1, <2>3, <3>1, <3>2 DEF Mine
  <2> QED BY <1>1, <1>2, <2>1, <2>2, <2>3, ClientGoesOn
<1>3. CASE ClientEnds(e, "error") /\ UNCHANGED containers
  <2>1. \A x \in Executions : Mine(x)' => Mine(x) BY <1>3 DEF Mine
  <2>2. sandbox.phase = "wait" /\ e = sandbox.who => ~Mine(e)
    BY <1>1 DEF BoxInv, RemovalInv
  <2> QED BY <1>1, <1>3, <2>1, <2>2, KeptNow, ClientEndsKeeps DEF Named
<1> QED BY <1>2, <1>3 DEF ClientCreates

LEMMA StartedKeeps ==
  ASSUME StageInv, BoxInv, NEW e \in Executions, ClientStarts(e),
         UNCHANGED <<threadVars, taskVars, probe, outbox>>
  PROVE  StageInv' /\ BoxInv'
<1> DEFINE n == ContainerName(e)
<1>1. clients[e] = "starting" /\ n \in Names BY TripleTypes DEF ClientStarts
<1>2. CASE Mine(e)
  <2>1. /\ containers' = [containers EXCEPT ![n].state = "running"]
        /\ clients' = [clients EXCEPT ![e] = "attached"] /\ UNCHANGED sandbox
    BY <1>2 DEF ClientStarts
  <2>2. /\ containers' \in Kept /\ containers'[n].by = e
        /\ containers'[n].state = "running"
        /\ \A x \in Names : x # n => containers'[x] = containers[x]
    BY <1>1, <1>2, <2>1, KeptNow DEF Kept, Mine
  <2>3. Named(containers)' BY <2>2, KeptNow DEF Named
  <2>4. ASSUME NEW x \in Executions, Mine(x)' PROVE Mine(x)
    <3>1. ContainerName(x) \in Names BY TripleTypes
    <3>2. CASE ContainerName(x) = n
      <4>1. x = e BY <2>2, <2>4, <3>2 DEF Mine
      <4> QED BY <1>2, <4>1
    <3>3. CASE ContainerName(x) # n BY <2>2, <2>4, <3>1, <3>3 DEF Mine
    <3> QED BY <3>2, <3>3
  <2> QED BY <1>1, <2>1, <2>2, <2>3, <2>4, ClientGoesOn
<1>3. CASE ~Mine(e)
  <2>1. ClientEnds(e, "error") /\ UNCHANGED containers BY <1>3 DEF ClientStarts
  <2>2. \A x \in Executions : Mine(x)' => Mine(x) BY <2>1 DEF Mine
  <2>3. Named(containers)' /\ containers' \in Kept BY <2>1, KeptNow DEF Named
  <2> QED BY <1>1, <1>3, <2>1, <2>2, <2>3, ClientEndsKeeps
<1> QED BY <1>2, <1>3

LEMMA DetachKeeps ==
  ASSUME StageInv, BoxInv, NEW e \in Executions, ClientDetaches(e),
         UNCHANGED <<threadVars, taskVars, probe, outbox>>
  PROVE  StageInv' /\ BoxInv'
<1>1. /\ clients[e] = "attached" /\ ~Mine(e) /\ ClientEnds(e, "error")
      /\ containers' = containers
  BY DEF ClientDetaches
<1>2. \A x \in Executions : Mine(x)' => Mine(x) BY <1>1 DEF Mine
<1>3. Named(containers)' /\ containers' \in Kept BY <1>1, KeptNow DEF Named
<1> QED BY <1>1, <1>2, <1>3, ClientEndsKeeps

LEMMA WriteKeeps ==
  ASSUME StageInv, BoxInv, NEW e \in Executions, NEW s \in Streams,
         ProgramWrites(e, s), UNCHANGED <<threadVars, taskVars, probe, outbox>>
  PROVE  StageInv' /\ BoxInv'
<1> DEFINE pipes == [sandbox.pipe EXCEPT ![s] = sandbox.pipe[s] + 1]
           wrote == [sandbox.produced EXCEPT ![s] = sandbox.produced[s] + 1]
<1>1. /\ clients[e] = "attached" /\ sandbox.who = e
      /\ sandbox' = [sandbox EXCEPT !.pipe = pipes, !.produced = wrote]
      /\ UNCHANGED <<clients, containers, probe, attempt, run, stage>>
  BY DEF ProgramWrites, threadVars
<1>2. pipes \in [Streams -> Nat] /\ wrote \in [Streams -> Nat] BY SandboxShape
<1>3. /\ pipes[s] = sandbox.pipe[s] + 1 /\ wrote[s] = sandbox.produced[s] + 1
      /\ \A t \in Streams \ {s} : /\ pipes[t] = sandbox.pipe[t]
                                  /\ wrote[t] = sandbox.produced[t]
  BY SandboxShape
<1> HIDE DEF pipes, wrote
<1>4. /\ sandbox' \in Boxes /\ sandbox'.pipe = pipes /\ sandbox'.produced = wrote
      /\ UNCHANGED <<sandbox.phase, sandbox.who, sandbox.timedOut, sandbox.captured,
                     sandbox.truncated, sandbox.removal>>
  BY <1>1, <1>2, SandboxShape DEF Boxes
<1>5. SandboxType' BY <1>1, <1>4 DEF BoxInv, SandboxType
<1>6. CaptureInv'
  <2>1. sandbox.phase \notin {"join", "done"} BY <1>1 DEF BoxInv, CaptureInv
  <2>2. /\ \A t \in Streams : /\ sandbox.captured[t] \in Nat /\ sandbox.pipe[t] \in Nat
                             /\ sandbox.produced[t] \in Nat
        /\ "stdout" \in Streams /\ "stderr" \in Streams /\ OutputLimit \in Nat
    BY SandboxShape, SandboxAssumption DEF Streams
  <2>3. /\ \A t \in Streams :
             sandbox'.captured[t] + sandbox'.pipe[t] <= sandbox'.produced[t]
        /\ sandbox'.captured = sandbox.captured
        /\ sandbox'.truncated = sandbox.truncated
    BY <1>3, <1>4, <2>2 DEF BoxInv, CaptureInv
  <2>4. /\ sandbox'.pipe["stdout"] + sandbox'.pipe["stderr"]
             = sandbox.pipe["stdout"] + sandbox.pipe["stderr"] + 1
        /\ sandbox'.produced["stdout"] + sandbox'.produced["stderr"]
             = sandbox.produced["stdout"] + sandbox.produced["stderr"] + 1
    BY <1>3, <1>4, <2>2 DEF Streams
  <2>5. sandbox'.phase = sandbox.phase BY <1>4
  <2> QED BY <2>1, <2>2, <2>3, <2>4, <2>5 DEF BoxInv, CaptureInv
<1>7. FreshInv' BY <1>1, <1>4 DEF BoxInv, FreshInv, Unlaunched, Mine
<1>8. RemovalInv' BY <1>1, <1>4 DEF BoxInv, RemovalInv, Mine
<1>9. StageInv' BY <1>4, SandboxMoves
<1> QED BY <1>5, <1>6, <1>7, <1>8, <1>9 DEF BoxInv

LEMMA ProgramEndKeeps ==
  ASSUME StageInv, BoxInv, NEW n \in Names, ProgramEnds(n),
         UNCHANGED <<threadVars, taskVars, probe, outbox>>
  PROVE  StageInv' /\ BoxInv'
<1>1. PICK x : x = containers[n].by OBVIOUS
<1>2. containers[n].state = "running" /\ containers' = [containers EXCEPT ![n] = Absent]
  BY DEF ProgramEnds
<1>3. x \in Executions /\ ContainerName(x) = n BY <1>1, <1>2, KeptNow DEF Named
<1>4. /\ containers' \in Kept /\ containers'[n] = Absent
      /\ \A y \in Names : containers'[y] \in {containers[y], Absent}
  <2>1. Absent \in [state: {"absent", "created", "running"},
                    by: Executions \cup {Nobody}]
    BY DEF Absent
  <2> QED BY <1>2, <2>1, KeptNow DEF Kept
<1>5. Named(containers)' BY <1>4, KeptNow DEF Named, Absent
<1>6. ASSUME NEW y \in Executions, Mine(y)' PROVE Mine(y)
  <2>1. ContainerName(y) \in Names BY TripleTypes
  <2>2. containers'[ContainerName(y)] = containers[ContainerName(y)]
    BY <1>4, <1>6, <2>1 DEF Mine, Absent
  <2> QED BY <1>6, <2>2 DEF Mine
<1>7. ~Mine(x)' BY <1>3, <1>4 DEF Mine, Absent
<1>8. CASE clients[x] = "attached"
  <2>1. PICK exit \in {"zero", "error"} : ClientEnds(x, exit)
    BY <1>1, <1>8 DEF ProgramEnds
  <2> QED BY <1>3, <1>4, <1>5, <1>6, <1>7, <1>8, <2>1, ClientEndsKeeps
<1>9. CASE clients[x] # "attached"
  <2>1. UNCHANGED <<sandbox, clients>> BY <1>1, <1>9 DEF ProgramEnds
  <2>2. UNCHANGED <<attempt, run, stage, probe>> BY DEF threadVars
  <2>3. SandboxType'
    BY <1>4, <1>5, <2>1, <2>2 DEF BoxInv, SandboxType, Kept, Named
  <2>4. CaptureInv' BY <2>1 DEF BoxInv, CaptureInv
  <2>5. FreshInv' BY <1>6, <2>1, <2>2 DEF BoxInv, FreshInv, Unlaunched
  <2>6. RemovalInv'
    <3>1. sandbox.phase # "idle" => (Mine(sandbox.who)' => Mine(sandbox.who))
      BY <1>6, <2>1, SandboxShape
    <3> QED BY <2>1, <3>1 DEF BoxInv, RemovalInv
  <2>7. StageInv' BY <2>1, SandboxMoves
  <2> QED BY <2>3, <2>4, <2>5, <2>6, <2>7 DEF BoxInv
<1> QED BY <1>8, <1>9

LEMMA DockerKeeps == ASSUME StageInv, BoxInv, Docker PROVE StageInv' /\ BoxInv'
<1>1. UNCHANGED <<threadVars, taskVars, probe, outbox>>
  BY DEF Docker, DockerStep, streamVars
<1> QED
  BY <1>1, CreateKeeps, StartedKeeps, DetachKeeps, WriteKeeps, ProgramEndKeeps
  DEF Docker, DockerStep

-----------------------------------------------------------------------------
(* Stages and executions together.                                         *)

LEMMA ThreadKeeps == ASSUME StageInv, Thread PROVE StageInv'
<1>1. CASE ReadTask
  BY <1>1, TaskStepKeeps DEF ReadTask, sandboxVars, streamVars
<1> QED
  BY <1>1, PrepareKeeps, AdmitKeeps, FrameKeeps, DesignKeeps, OpenKeeps, PlanKeeps,
     ExecuteKeeps, PythonKeeps, JudgeKeeps, IntegrateKeeps, ProjectKeeps,
     AdvanceKeeps, DirectKeeps, ReturnKeeps, TaskFailsKeeps, SayKeeps
  DEF Thread

(* The page reads, the connection breaks, or nothing happens.              *)
LEMMA ElsewhereKeeps ==
  ASSUME StageInv, BoxInv, UNCHANGED <<threadVars, probeVars, outbox>>
  PROVE  StageInv' /\ BoxInv'
<1>1. BoxQuiet
  BY DEF threadVars, probeVars, sandboxVars, BoxQuiet, CycleGoesOn
<1>2. StageInv' BY SandboxMoves DEF probeVars, sandboxVars
<1> QED BY <1>1, <1>2, QuietKeeps

LEMMA PlaceKeeps ==
  ASSUME StageInv, BoxInv, [Next]_vars PROVE StageInv' /\ BoxInv'
<1>1. CASE Thread
  <2>1. BoxInv' BY <1>1, ThreadQuiet, QuietKeeps, PythonBox
  <2> QED BY <1>1, <2>1, ThreadKeeps
<1>2. CASE Sandbox BY <1>2, SandboxKeeps
<1>3. CASE Docker BY <1>3, DockerKeeps
<1>4. CASE Page \/ Breaks
  <2>1. UNCHANGED outbox
    BY <1>4 DEF Page, Breaks, PageStep, ReadLine, ReadEnd, ReadFails, LinkBreaks
  <2> QED BY <1>4, <2>1, ElsewhereKeeps DEF Page, Breaks
<1>5. CASE RunAgain BY <1>5, RunAgainKeeps, AgainBox
<1>6. CASE UNCHANGED vars BY <1>6, ElsewhereKeeps DEF vars, streamVars
<1> QED BY <1>1, <1>2, <1>3, <1>4, <1>5, <1>6 DEF Next, Finished

LEMMA BoxInit == ASSUME Init PROVE BoxInv
<1>1. /\ sandbox = NoExecution /\ clients = [e \in Executions |-> "none"]
      /\ containers = [n \in Names |-> Absent] /\ probe = NoProbe
  BY DEF Init, ProbeInit
<1>2. NoOutput \in [Streams -> Nat] /\ NoOutput["stdout"] = 0 /\ NoOutput["stderr"] = 0
  BY DEF NoOutput, Streams
<1>3. SandboxType
  BY <1>1, <1>2 DEF SandboxType, Boxes, NoExecution, Absent, NoProbe
<1>4. CaptureInv BY <1>1, <1>2, SandboxAssumption DEF CaptureInv, NoExecution, Streams
<1>5. FreshInv BY <1>1, TripleTypes DEF FreshInv, Mine, Absent
<1>6. RemovalInv BY <1>1 DEF RemovalInv, NoExecution
<1> QED BY <1>3, <1>4, <1>5, <1>6 DEF BoxInv

LEMMA PlaceInvariance == Spec => [](StageInv /\ BoxInv)
<1>1. Init => StageInv /\ BoxInv BY StageInit, BoxInit
<1>2. (StageInv /\ BoxInv) /\ [Next]_vars => (StageInv /\ BoxInv)' BY PlaceKeeps
<1> QED BY <1>1, <1>2, PTL DEF Spec

(* What is captured of an execution is what its program wrote, up to the   *)
(* limit that both streams share, and the record says when that is less -  *)
(* however the threads, the program and the timeout interleave.            *)
THEOREM CapturesAreHonest == Spec => []CaptureHonest
<1>1. StageInv /\ BoxInv => CaptureHonest
  <2> SUFFICES ASSUME StageInv, BoxInv, sandbox.phase = "done" PROVE CaptureHonest
    BY DEF CaptureHonest
  <2>1. /\ \A t \in Streams : /\ sandbox.captured[t] \in Nat
                              /\ sandbox.produced[t] \in Nat /\ sandbox.pipe[t] = 0
        /\ "stdout" \in Streams /\ "stderr" \in Streams /\ OutputLimit \in Nat
        /\ sandbox.truncated \in BOOLEAN
    BY SandboxShape, SandboxAssumption DEF BoxInv, CaptureInv, NoOutput, Streams, Boxes
  <2> QED BY <2>1 DEF BoxInv, CaptureInv, CaptureHonest
<1> QED BY PlaceInvariance, <1>1, PTL

(* An execution leaves its container behind only when its removal failed   *)
(* or came before docker had created it.                                   *)
THEOREM StrayContainers == Spec => []StrayOnlyIfMissed
<1>1. StageInv /\ BoxInv => StrayOnlyIfMissed
  BY DEF BoxInv, RemovalInv, StrayOnlyIfMissed
<1> QED BY PlaceInvariance, <1>1, PTL

-----------------------------------------------------------------------------
(* What the result of a case says of its error.                            *)

LEMMA RaisedKeeps ==
  ASSUME CallInv, StageInv, NEW readings, TaskStep(readings),
         task.result.status = "raised" /\ task.result.attempts > 0
           /\ Len(telemetry) = task.result.attempts =>
             telemetry[task.result.attempts].outcome = task.result.fault
  PROVE  task'.result.status = "raised" /\ task'.result.attempts > 0
           /\ Len(telemetry') = task'.result.attempts =>
             telemetry'[task'.result.attempts].outcome = task'.result.fault
<1>0. task = [task EXCEPT !.name = task.name]
        /\ DOMAIN task = {"name", "round", "repairs", "result"}
  BY DEF StageInv, Shapes, TaskShape
<1>1. CASE ProviderStep /\ UNCHANGED task
  <2>1. call.phase # "idle" BY <1>1 DEF ProviderStep, Invoke, Observe, Retry
  <2>2. task'.result = Open BY <1>1, <2>1 DEF StageInv, TaskPlace
  <2> QED BY <2>2 DEF Open
<1>2. CASE call.phase \in {"answered", "raised"} /\ AskRepair
  <2>1. task'.result = Open BY <1>0, <1>2 DEF AskRepair, StageInv, TaskPlace
  <2> QED BY <2>1 DEF Open
<1>3. CASE call.phase = "answered" /\ \E result : Settle(result)
  <2>1. telemetry' = <<>> BY <1>3 DEF Settle, EndCall
  <2> QED BY <2>1
<1>4. CASE \E result : call.phase = "raised" /\ Settle(result) /\ result.status # "raised"
  <2>1. task'.result.status # "raised" BY <1>0, <1>4 DEF Settle
  <2> QED BY <2>1
<1>5. CASE call.phase = "raised" /\ Settle(Raised(call.outcome, call.attempt))
  <2>1. /\ task'.result.attempts = call.attempt /\ task'.result.fault = call.outcome
        /\ telemetry' = telemetry
    BY <1>0, <1>5 DEF Settle, EndCall, Raised
  <2> SUFFICES ASSUME Len(telemetry) = call.attempt
               PROVE  telemetry[call.attempt].outcome = call.outcome
    BY <2>1
  <2>2. call.attempt \in DOMAIN telemetry /\ call.attempt \in Nat
    BY <1>5, LenProperties DEF CallInv, CallType, Attempts
  <2>3. /\ telemetry[call.attempt].attempt >= call.attempt
        /\ telemetry[call.attempt].attempt <= call.attempt
        /\ telemetry[call.attempt].attempt \in Nat
    BY <1>5, <2>2, RecordTypes DEF CallInv, RecordsRise, RecordsOfCall
  <2>4. telemetry[call.attempt].attempt = call.attempt BY <2>2, <2>3
  <2> QED BY <1>5, <2>2, <2>4 DEF CallInv, RecordsOfCall
<1>6. CASE ReadAnswer(readings)
  BY <1>2, <1>3, <1>6 DEF ReadAnswer
<1>7. CASE GatewayRaises
  <2>1. ReadsAsInvalid(call.outcome) => Unrepaired(task.name).status # "raised"
    BY DEF ReadsAsInvalid, Unrepaired, Result
  <2>2. Result("failed").status # "raised" BY DEF Result
  <2> QED BY <1>2, <1>4, <1>5, <1>7, <2>1, <2>2 DEF GatewayRaises
<1> QED BY <1>1, <1>6, <1>7 DEF TaskStep

(* Any other step forgets the result of the task or leaves it, and once an *)
(* error has ended the case nothing of it changes.                         *)
ErrorQuiet ==
  /\ UNCHANGED <<task, telemetry>> \/ task'.result = Open
  /\ fault'.attempts > 0 => UNCHANGED <<fault, telemetry>>

LEMMA TaskQuiet ==
  ASSUME \/ Local \/ UNCHANGED taskVars
         \/ \E name, repairs : Starts(name, repairs)
         \/ \E name, repairs : StartTask(name, repairs, TRUE)
         \/ \E t : Takes(t)
         \/ EndTask
  PROVE  UNCHANGED <<task, telemetry>> \/ task'.result = Open
<1>1. CASE Local \/ UNCHANGED taskVars
  BY <1>1 DEF Local, probeVars, taskVars, providerVars
<1>2. CASE \E name, repairs : Starts(name, repairs)
  BY <1>2 DEF Starts, StartTask
<1>3. CASE \E name, repairs : StartTask(name, repairs, TRUE) BY <1>3 DEF StartTask
<1>4. CASE EndTask BY <1>4 DEF EndTask, NoTask
<1>5. CASE \E t : Takes(t) BY <1>4, <1>5 DEF Takes
<1> QED BY <1>1, <1>2, <1>3, <1>4, <1>5

LEMMA LiveQuiet ==
  ASSUME StageInv, stage \notin {"over", "told"},
         fault' = fault \/ fault'.attempts = 0,
         UNCHANGED <<task, telemetry>> \/ task'.result = Open
  PROVE  ErrorQuiet
<1>1. ~(fault.attempts > 0) BY DEF StageInv, StagePlace, RunPlace
<1>2. ~(fault'.attempts > 0) BY <1>1
<1> QED BY <1>2 DEF ErrorQuiet

LEMMA FaultSaid ==
  ASSUME NEW said,
         Completes(said) \/ \E by, category : Fails(by, category, 0)
  PROVE  fault' = fault \/ fault'.attempts = 0
<1>1. CASE Completes(said) BY <1>1 DEF Completes, NoFault
<1>2. CASE \E by, category : Fails(by, category, 0) BY <1>2 DEF Fails
<1> QED BY <1>1, <1>2

LEMMA ThreadError ==
  ASSUME StageInv, Thread, ~ReadTask, ~TaskFails PROVE ErrorQuiet
<1>1. CASE Prepare BY <1>1, TaskQuiet, LiveQuiet DEF Prepare, At
<1>2. CASE Admit
  BY <1>2, TaskQuiet, LiveQuiet DEF Admit, At, Admitted, Refused, Starts, threadVars
<1>3. CASE FrameTask
  BY <1>3, TaskQuiet, LiveQuiet DEF FrameTask, At, Framed, Starts, threadVars
<1>4. CASE DesignProbes
  BY <1>4, TaskQuiet, LiveQuiet, FaultSaid
  DEF DesignProbes, Designed, At, Starts, threadVars
<1>5. CASE OpenCycle BY <1>5, TaskQuiet, LiveQuiet DEF OpenCycle, At
<1>6. CASE PlanProbes BY <1>6, TaskQuiet, LiveQuiet, FaultSaid DEF PlanProbes, At
<1>7. CASE ExecuteProbe
  BY <1>7, TaskQuiet, LiveQuiet DEF ExecuteProbe, At, Executed, Starts, threadVars
<1>8. CASE ExecutePython
  <2>1. stage = "execute" BY <1>8 DEF ExecutePython, At
  <2>2. fault' = fault \/ fault'.attempts = 0
    BY <1>8, FaultSaid DEF ExecutePython, Executed, threadVars
  <2>3. UNCHANGED <<task, telemetry>> \/ task'.result = Open
    BY <1>8, TaskQuiet
    DEF ExecutePython, BeginProbe, ProbeStep, UsePlan, AskReasoning, UseReasoning,
        Execute, UseExecution, UseRepair
  <2> QED BY <2>1, <2>2, <2>3, LiveQuiet
<1>9. CASE JudgeSignal
  BY <1>9, TaskQuiet, LiveQuiet DEF JudgeSignal, At, Judged, Starts, threadVars
<1>10. CASE Integrate
  BY <1>10, TaskQuiet, LiveQuiet, FaultSaid
  DEF Integrate, At, Integrated, Starts, threadVars
<1>11. CASE ProjectAnswer
  BY <1>11, TaskQuiet, LiveQuiet DEF ProjectAnswer, At, Projected, Starts, threadVars
<1>12. CASE Advance BY <1>12, TaskQuiet, LiveQuiet, FaultSaid DEF Advance, At
<1>13. CASE DirectAnswer
  BY <1>13, TaskQuiet, LiveQuiet, FaultSaid DEF DirectAnswer, At, Starts, threadVars
<1>14. CASE ReturnCase
  BY <1>14 DEF ReturnCase, Local, probeVars, taskVars, providerVars, ErrorQuiet
<1>15. CASE SayNext
  BY <1>15 DEF SayNext, threadVars, probeVars, taskVars, providerVars, ErrorQuiet
<1> QED
  BY <1>1, <1>2, <1>3, <1>4, <1>5, <1>6, <1>7, <1>8, <1>9, <1>10, <1>11, <1>12,
     <1>13, <1>14, <1>15 DEF Thread

LEMMA ErrorKeeps ==
  ASSUME CallInv, StageInv, ErrorInv, [Next]_vars PROVE ErrorInv'
<1>1. setup' = setup
  BY DEF Next, Thread, Prepare, Admit, Admitted, Refused, FrameTask, Framed,
     DesignProbes, Designed, OpenCycle, PlanProbes, ExecuteProbe, Executed,
     ExecutePython, JudgeSignal, Judged, Integrate, Integrated, ProjectAnswer,
     Projected, Advance, DirectAnswer, ReturnCase, TaskFails, ReadTask, SayNext,
     Sandbox, Docker, Page, Breaks, RunAgain, Finished, Goes, Fails, Completes, Starts,
     threadVars, vars
<1>2. ASSUME ErrorQuiet PROVE ErrorInv'
  <2>1. CASE UNCHANGED <<task, telemetry>>
    BY <1>1, <1>2, <2>1 DEF ErrorQuiet, ErrorInv, CaseNamesItsError, Watched
  <2>2. CASE task'.result = Open
    <3>1. task'.result.status # "raised" BY <2>2 DEF Open
    <3> QED
      BY <1>1, <1>2, <3>1 DEF ErrorQuiet, ErrorInv, CaseNamesItsError, Watched
  <2> QED BY <1>2, <2>1, <2>2 DEF ErrorQuiet
<1>3. CASE ReadTask
  <2>1. TaskStep(Readings) /\ UNCHANGED <<fault, stage>>
    BY <1>3 DEF ReadTask, threadVars
  <2>2. ~(fault.attempts > 0)
    <3>1. call.phase # "idle"
      BY <2>1 DEF TaskStep, ProviderStep, Invoke, Observe, Retry, ReadAnswer, GatewayRaises
    <3>2. ~TaskIdle BY <3>1 DEF StageInv, TaskPlace
    <3> QED BY <3>2, TasksOfStage DEF StageInv, StagePlace, RunPlace
  <2> QED
    BY <2>1, <2>2, RaisedKeeps DEF ErrorInv, CaseNamesItsError
<1>4. CASE TaskFails
  <2>1. task'.result = Open /\ telemetry' = telemetry
    BY <1>4 DEF TaskFails, EndTaskFailed, NoTask, providerVars
  <2>2. \/ fault'.attempts = 0
        \/ /\ task.result.status = "raised" /\ fault'.attempts = task.result.attempts
           /\ fault'.category = Category(task.result.fault)
    BY <1>4 DEF TaskFails, Fails
  <2> QED BY <1>1, <2>1, <2>2 DEF ErrorInv, CaseNamesItsError, Open
<1>5. CASE Thread /\ ~ReadTask /\ ~TaskFails BY <1>2, <1>5, ThreadError
<1>6. CASE Sandbox \/ Docker
  BY <1>2, <1>6 DEF Sandbox, SandboxStep, Docker, DockerStep, threadVars, taskVars,
     providerVars, ErrorQuiet
<1>7. CASE Page \/ Breaks \/ UNCHANGED vars
  BY <1>2, <1>7 DEF Page, Breaks, vars, threadVars, probeVars, taskVars, providerVars,
     ErrorQuiet
<1>8. CASE RunAgain
  <2>1. stage = "execute"
    BY <1>8 DEF RunAgain, StageInv, Shapes, StagePlace, ProbePlace
  <2> QED BY <1>2, <1>8, <2>1, LiveQuiet DEF RunAgain, NoTask
<1> QED BY <1>3, <1>4, <1>5, <1>6, <1>7, <1>8 DEF Next, Finished

(* The record of the provider call that ended a case has the category that *)
(* the result of the case names.                                           *)
THEOREM CaseErrorIsNamed == Spec => []CaseNamesItsError
<1>1. Init => ErrorInv
  <2>1. Init => task = NoTask /\ fault = NoFault
    BY DEF Init, ProbeInit, TaskInit
  <2> QED BY <2>1 DEF ErrorInv, CaseNamesItsError, NoTask, NoFault, Open
<1>2. CallInv /\ (StageInv /\ BoxInv) /\ ErrorInv /\ [Next]_vars => ErrorInv'
  BY ErrorKeeps
<1>3. ErrorInv => CaseNamesItsError BY DEF ErrorInv
<1> QED BY CallInvariance, PlaceInvariance, <1>1, <1>2, <1>3, PTL DEF Spec

-----------------------------------------------------------------------------
(* What the thread of the run says.                                        *)

(* Nothing of it ends the run; only its last can.                          *)
Quiet(said) ==
  said \in Seq(Said) /\ \A i \in DOMAIN said : ~EndsRun(said[i])
Closing(said) ==
  said \in Seq(Said) /\ \A i \in DOMAIN said : EndsRun(said[i]) => i = Len(said)

LEMMA ProgressIsSaid ==
  ASSUME NEW event \in Events, NEW cycle \in Nat
  PROVE  Progress(event, cycle) \in Said /\ ~EndsRun(Progress(event, cycle))
BY DEF Progress, Said, Events, FailureStages, EndsRun

LEMMA QuietOnes ==
  /\ Quiet(<<>>)
  /\ \A x \in Said : ~EndsRun(x) => Quiet(<<x>>)
  /\ \A x, y \in Said : ~EndsRun(x) /\ ~EndsRun(y) => Quiet(<<x, y>>)
  /\ \A x \in Said : Closing(<<x>>)
BY DEF Quiet, Closing

LEMMA QuietConcat ==
  ASSUME NEW s, NEW t, Quiet(s)
  PROVE  /\ Quiet(t) => Quiet(s \o t)
         /\ Closing(t) => Closing(s \o t)
<1>1. s \in Seq(Said) BY DEF Quiet
<1>2. ASSUME t \in Seq(Said)
      PROVE  /\ s \o t \in Seq(Said) /\ Len(s \o t) = Len(s) + Len(t)
             /\ DOMAIN (s \o t) = 1 .. (Len(s) + Len(t))
             /\ \A i \in 1 .. Len(s) : i \in DOMAIN s /\ (s \o t)[i] = s[i]
             /\ \A i \in 1 .. (Len(s) + Len(t)) : i > Len(s) =>
                  i - Len(s) \in DOMAIN t /\ (s \o t)[i] = t[i - Len(s)]
             /\ Len(s) \in Nat /\ Len(t) \in Nat
  <2>1. /\ Len(s) \in Nat /\ DOMAIN s = 1 .. Len(s)
        /\ Len(t) \in Nat /\ DOMAIN t = 1 .. Len(t)
    BY <1>1, <1>2, LenProperties
  <2>2. /\ s \o t \in Seq(Said) /\ Len(s \o t) = Len(s) + Len(t)
        /\ \A i \in 1 .. Len(s) + Len(t) : (s \o t)[i] =
             IF i <= Len(s) THEN s[i] ELSE t[i - Len(s)]
    BY <1>1, <1>2, ConcatProperties
  <2>3. DOMAIN (s \o t) = 1 .. (Len(s) + Len(t)) BY <2>2, LenProperties
  <2> QED BY <2>1, <2>2, <2>3
<1>3. Quiet(t) => Quiet(s \o t)
  <2> SUFFICES ASSUME Quiet(t) PROVE Quiet(s \o t) OBVIOUS
  <2>1. t \in Seq(Said) BY DEF Quiet
  <2>2. \A i \in DOMAIN (s \o t) : i \in 1 .. Len(s) \/ i > Len(s) BY <1>2, <2>1
  <2> QED BY <1>2, <2>1, <2>2 DEF Quiet
<1>4. Closing(t) => Closing(s \o t)
  <2> SUFFICES ASSUME Closing(t) PROVE Closing(s \o t) OBVIOUS
  <2>1. t \in Seq(Said) BY DEF Closing
  <2>2. ASSUME NEW i \in DOMAIN (s \o t), EndsRun((s \o t)[i]) PROVE i = Len(s \o t)
    <3>1. i \in 1 .. (Len(s) + Len(t)) BY <1>2, <2>1
    <3>2. i > Len(s) BY <1>2, <2>1, <2>2, <3>1 DEF Quiet
    <3>3. i - Len(s) \in DOMAIN t /\ EndsRun(t[i - Len(s)])
      BY <1>2, <2>1, <2>2, <3>1, <3>2
    <3>4. i - Len(s) = Len(t) BY <3>3 DEF Closing
    <3> QED BY <1>2, <2>1, <3>1, <3>4
  <2> QED BY <1>2, <2>1, <2>2 DEF Closing
<1> QED BY <1>3, <1>4

LEMMA EndIsSaid ==
  ASSUME SaidInv, StageInv, NEW o \in Terminal, NEW s \in FailureStages,
         NEW event \in Said
  PROVE  Closing(EndSaid(o, event, s))
<1>1. Response(o, s) \in Said BY DEF Response, Said
<1>2. EndSaid(o, event, s) \in {<<Response(o, s)>>, <<event>>} BY DEF EndSaid
<1> QED BY <1>1, <1>2, QuietOnes

LEMMA EndEvents ==
  ASSUME SaidInv, StageInv
  PROVE  /\ \A by : FailureStage(by) \in FailureStages
         /\ \A s \in FailureStages : Failure(s) \in Said
         /\ Says("run_completed") \in Said
         /\ Progress("task_admission_completed", 0) \in Said
         /\ "none" \in FailureStages
         /\ \A event \in Events : Says(event) \in Said /\ ~EndsRun(Says(event))
<1>1. emitter.stage \in FailureStages /\ emitter.cycle \in Nat
  BY DEF SaidInv, StreamType, FailureStages
<1>2. run.cycle \in Nat BY DEF StageInv, Shapes, RunShape
<1>3. \A by : FailureStage(by) \in FailureStages
  BY <1>1 DEF FailureStage, FailureStages
<1>4. \A s \in FailureStages : Failure(s) \in Said BY <1>1 DEF Failure, Said
<1>5. Says("run_completed") \in Said BY <1>2 DEF Says, Progress, Said, FailureStages
<1>6. Progress("task_admission_completed", 0) \in Said
  BY DEF Progress, Said, FailureStages
<1>7. \A event \in Events : Says(event) \in Said /\ ~EndsRun(Says(event))
  BY <1>2, ProgressIsSaid DEF Says
<1> QED BY <1>3, <1>4, <1>5, <1>6, <1>7 DEF FailureStages

(* A step of the thread says nothing, or goes on and says what comes next. *)
Stands == UNCHANGED <<setup, stage, outcome, streamVars>>

Speaks ==
  /\ UNCHANGED <<setup, sayRest>>
  /\ outbox = <<>> /\ stage \notin {"over", "told"}
  /\ Quiet(outbox') \/ (Closing(outbox') /\ stage' = "over")
  /\ outcome' \in {"running"} \cup Terminal

LEMMA GoesSpeaks ==
  ASSUME SaidInv, StageInv, outbox = <<>>, stage \notin {"over", "told"},
         NEW s, NEW said, Goes(s, said),
         Quiet(said) \/ (Closing(said) /\ s = "over"),
         outcome' = outcome \/ outcome' \in Terminal
  PROVE  Speaks
<1>1. outbox' \in {said, <<>>} /\ stage' = s BY DEF Goes
<1>2. outcome' \in {"running"} \cup Terminal BY DEF SaidInv, StreamType
<1> QED BY <1>1, <1>2, QuietOnes DEF Goes, Speaks

LEMMA StartsStands ==
  ASSUME NEW name, NEW repairs, Starts(name, repairs) PROVE Stands
BY DEF Starts, Stands, threadVars

LEMMA FailsSpeaks ==
  ASSUME SaidInv, StageInv, outbox = <<>>, stage \notin {"over", "told"},
         NEW by, NEW category, NEW attempts, Fails(by, category, attempts)
  PROVE  Speaks
<1> DEFINE s == FailureStage(by)
           said == EndSaid("failed", Failure(s), s)
<1>1. Goes("over", said) /\ outcome' = "failed" BY DEF Fails
<1>2. Closing(said) BY EndIsSaid, EndEvents DEF Terminal
<1> HIDE DEF said
<1> QED BY <1>1, <1>2, GoesSpeaks DEF Terminal

LEMMA CompletesSpeaks ==
  ASSUME SaidInv, StageInv, outbox = <<>>, stage \notin {"over", "told"},
         NEW said, Quiet(said), Completes(said)
  PROVE  Speaks
<1> DEFINE all == said \o EndSaid("completed", Says("run_completed"), "none")
<1>1. Goes("over", all) /\ outcome' \in {"failed", "completed"} BY DEF Completes
<1>2. Closing(EndSaid("completed", Says("run_completed"), "none"))
  BY EndIsSaid, EndEvents DEF Terminal
<1>3. Closing(all) BY <1>2, QuietConcat
<1> HIDE DEF all
<1> QED BY <1>1, <1>3, GoesSpeaks DEF Terminal

LEMMA PrepareSpeaks == ASSUME SaidInv, StageInv, Prepare PROVE Speaks
<1>1. outbox = <<>> /\ stage = "prepare" BY DEF Prepare, At
<1>2. CASE outcome' = "rejected" /\ Goes("over", <<Response("rejected", "none")>>)
  <2>1. Closing(<<Response("rejected", "none")>>)
    BY QuietOnes DEF Response, Said, FailureStages, Terminal
  <2> QED BY <1>1, <1>2, <2>1, GoesSpeaks DEF Terminal
<1>3. CASE Goes("admit", <<>>) /\ UNCHANGED outcome
  BY <1>1, <1>3, QuietOnes, GoesSpeaks
<1> QED BY <1>2, <1>3 DEF Prepare

LEMMA AdmitSpeaks == ASSUME SaidInv, StageInv, Admit PROVE Speaks \/ Stands
<1>1. outbox = <<>> /\ stage = "admit" BY DEF Admit, At
<1>2. ASSUME NEW decision, Admitted(decision) PROVE Speaks
  <2> DEFINE said == <<Progress("run_started", 0), Progress("task_framing_started", 0)>>
  <2>1. Quiet(said)
    <3>1. "run_started" \in Events /\ "task_framing_started" \in Events BY DEF Events
    <3> QED BY <3>1, ProgressIsSaid, QuietOnes
  <2>2. Goes("frame", said) /\ outcome' = outcome BY <1>2 DEF Admitted
  <2> HIDE DEF said
  <2> QED BY <1>1, <2>1, <2>2, GoesSpeaks
<1>3. ASSUME Refused PROVE Speaks
  <2> DEFINE said == EndSaid("refused", Progress("task_admission_completed", 0), "none")
  <2>1. Closing(said) BY EndIsSaid, EndEvents DEF Terminal
  <2>2. Goes("over", said) /\ outcome' = "refused" BY <1>3 DEF Refused
  <2> HIDE DEF said
  <2> QED BY <1>1, <2>1, <2>2, GoesSpeaks DEF Terminal
<1> QED BY <1>2, <1>3, StartsStands DEF Admit

LEMMA FrameSpeaks == ASSUME SaidInv, StageInv, FrameTask PROVE Speaks \/ Stands
<1>1. outbox = <<>> /\ stage = "frame" BY DEF FrameTask, At
<1>2. ASSUME NEW frame, Framed(frame) PROVE Speaks
  <2> DEFINE said == <<Says("task_framing_completed"), Says("initialization_completed")>>
             more == Append(said, Says("probe_design_started"))
  <2>1. /\ Says("task_framing_completed") \in Said
        /\ Says("initialization_completed") \in Said
        /\ Says("probe_design_started") \in Said
        /\ ~EndsRun(Says("task_framing_completed"))
        /\ ~EndsRun(Says("initialization_completed"))
        /\ ~EndsRun(Says("probe_design_started"))
    BY EndEvents DEF Events
  <2>2. Quiet(said) BY <2>1, QuietOnes
  <2>3. Quiet(more)
    <3>1. said \in Seq(Said) BY <2>2 DEF Quiet
    <3>2. /\ more \in Seq(Said) /\ Len(more) = Len(said) + 1
          /\ \A i \in 1 .. Len(said) : more[i] = said[i]
          /\ more[Len(said) + 1] = Says("probe_design_started")
      BY <2>1, <3>1, AppendProperties
    <3>3. Len(said) \in Nat /\ DOMAIN said = 1 .. Len(said) BY <3>1, LenProperties
    <3>4. DOMAIN more = 1 .. (Len(said) + 1) BY <3>2, LenProperties
    <3> HIDE DEF said, more
    <3>5. \A i \in DOMAIN more : i \in DOMAIN said \/ i = Len(said) + 1
      BY <3>3, <3>4
    <3> QED BY <2>1, <2>2, <3>2, <3>3, <3>5 DEF Quiet
  <2>4. \/ Goes("open", said) \/ Goes("design", more) BY <1>2 DEF Framed
  <2>5. outcome' = outcome BY <1>2 DEF Framed
  <2> HIDE DEF said, more
  <2> QED BY <1>1, <2>2, <2>3, <2>4, <2>5, GoesSpeaks
<1> QED BY <1>2, StartsStands DEF FrameTask

LEMMA DesignSpeaks == ASSUME SaidInv, StageInv, DesignProbes PROVE Speaks \/ Stands
<1>1. outbox = <<>> /\ stage = "design" BY DEF DesignProbes, At
<1> DEFINE said == <<Says("probe_design_completed")>>
<1>2. Quiet(said) BY EndEvents, QuietOnes DEF Events
<1>3. ASSUME NEW candidates, Designed(candidates, said) PROVE Speaks
  <2>1. Completes(said) \/ (Goes("open", said) /\ outcome' = outcome)
    BY <1>3 DEF Designed
  <2> HIDE DEF said
  <2> QED BY <1>1, <1>2, <2>1, GoesSpeaks, CompletesSpeaks
<1> QED BY <1>3, StartsStands DEF DesignProbes

LEMMA OpenSpeaks == ASSUME SaidInv, StageInv, OpenCycle PROVE Speaks
<1> DEFINE said == <<Progress("cycle_started", run.cycle + 1)>>
<1>1. outbox = <<>> /\ stage = "open" BY DEF OpenCycle, At
<1>2. Quiet(said)
  <2>1. run.cycle + 1 \in Nat /\ "cycle_started" \in Events
    BY DEF StageInv, Shapes, RunShape, Events
  <2> QED BY <2>1, ProgressIsSaid, QuietOnes
<1>3. Goes("plan", said) /\ outcome' = outcome BY DEF OpenCycle
<1> HIDE DEF said
<1> QED BY <1>1, <1>2, <1>3, GoesSpeaks

LEMMA PlanSpeaks == ASSUME SaidInv, StageInv, PlanProbes PROVE Speaks
<1>1. outbox = <<>> /\ stage = "plan" BY DEF PlanProbes, At
<1> DEFINE planned == <<Says("probe_set_planned"), Says("probe_execution_started")>>
           said == <<Says("probe_set_planned")>>
<1>2. Quiet(planned) /\ Quiet(said) BY EndEvents, QuietOnes DEF Events
<1>3. \/ Goes("execute", planned) /\ outcome' = outcome
      \/ Fails("plan", "none", 0)
      \/ Completes(said)
  BY DEF PlanProbes
<1> HIDE DEF planned, said
<1> QED BY <1>1, <1>2, <1>3, GoesSpeaks, FailsSpeaks, CompletesSpeaks

LEMMA ExecutedSpeaks ==
  ASSUME SaidInv, StageInv, outbox = <<>>, stage = "execute", Executed PROVE Speaks
<1> DEFINE said == <<Says("signals_collected"), Says("evidence_integration_started")>>
<1>1. Quiet(said) BY EndEvents, QuietOnes DEF Events
<1>2. Goes("judge", said) /\ outcome' = outcome BY DEF Executed
<1> HIDE DEF said
<1> QED BY <1>1, <1>2, GoesSpeaks

LEMMA IntegrateSpeaks == ASSUME SaidInv, StageInv, Integrate PROVE Speaks \/ Stands
<1>1. outbox = <<>> /\ stage = "judge" BY DEF Integrate, At
<1>2. ASSUME NEW spawned, NEW expanded, Integrated(spawned, expanded) PROVE Speaks
  <2> DEFINE first == <<Says("frame_adequacy_assessed")>>
             new == IF spawned THEN <<Says("hypothesis_expansion_completed")>> ELSE <<>>
             last == <<Says("answer_projection_started")>>
             said == first \o new \o last
  <2>1. Quiet(first) /\ Quiet(last) BY EndEvents, QuietOnes DEF Events
  <2>2. Quiet(new) BY EndEvents, QuietOnes DEF Events
  <2>3. Goes("project", said) /\ outcome' = outcome BY <1>2 DEF Integrated
  <2> HIDE DEF first, new, last
  <2>4. Quiet(said) BY <2>1, <2>2, QuietConcat
  <2> HIDE DEF said
  <2> QED BY <1>1, <2>3, <2>4, GoesSpeaks
<1> QED BY <1>1, <1>2, StartsStands, FailsSpeaks DEF Integrate

LEMMA ProjectSpeaks == ASSUME SaidInv, StageInv, ProjectAnswer PROVE Speaks \/ Stands
<1>1. outbox = <<>> /\ stage = "project" BY DEF ProjectAnswer, At
<1>2. ASSUME Projected PROVE Speaks
  <2> DEFINE said == <<Says("answer_projection_completed"), Says("cycle_integrated")>>
  <2>1. Quiet(said) BY EndEvents, QuietOnes DEF Events
  <2>2. Goes("advance", said) /\ outcome' = outcome BY <1>2 DEF Projected
  <2> HIDE DEF said
  <2> QED BY <1>1, <2>1, <2>2, GoesSpeaks
<1> QED BY <1>2, StartsStands DEF ProjectAnswer

LEMMA AdvanceSpeaks == ASSUME SaidInv, StageInv, Advance PROVE Speaks
<1>1. outbox = <<>> /\ stage = "advance" BY DEF Advance, At
<1> DEFINE said == <<Says("probe_design_started")>>
<1>2. Quiet(said) /\ Quiet(<<>>) BY EndEvents, QuietOnes DEF Events
<1>3. Completes(<<>>) \/ (Goes("design", said) /\ outcome' = outcome) BY DEF Advance
<1> HIDE DEF said
<1> QED BY <1>1, <1>2, <1>3, GoesSpeaks, CompletesSpeaks

LEMMA DirectSpeaks == ASSUME SaidInv, StageInv, DirectAnswer PROVE Speaks \/ Stands
<1>1. outbox = <<>> /\ stage = "direct" BY DEF DirectAnswer, At
<1>2. Quiet(<<>>) BY QuietOnes
<1> QED BY <1>1, <1>2, StartsStands, FailsSpeaks, CompletesSpeaks DEF DirectAnswer

LEMMA PythonSpeaks == ASSUME SaidInv, StageInv, ExecutePython PROVE Speaks \/ Stands
<1>1. outbox = <<>> /\ stage = "execute" BY DEF ExecutePython, At
<1> QED BY <1>1, ExecutedSpeaks, FailsSpeaks DEF ExecutePython, Stands, threadVars

LEMMA ThreadSpeaks ==
  ASSUME SaidInv, StageInv, Thread, ~SayNext, ~ReturnCase PROVE Speaks \/ Stands
<1>1. CASE ExecuteProbe
  <2>1. outbox = <<>> /\ stage = "execute" BY <1>1 DEF ExecuteProbe, At
  <2> QED BY <1>1, <2>1, StartsStands, ExecutedSpeaks DEF ExecuteProbe
<1>2. CASE JudgeSignal BY <1>2, StartsStands DEF JudgeSignal, Judged, Stands
<1>3. CASE TaskFails
  <2>1. outbox = <<>> /\ ~TaskIdle BY <1>3 DEF TaskFails
  <2>2. stage \notin {"over", "told"} BY <2>1, TasksOfStage
  <2> QED BY <1>3, <2>1, <2>2, FailsSpeaks DEF TaskFails
<1>4. CASE ReadTask BY <1>4 DEF ReadTask, Stands, threadVars
<1> QED
  BY <1>1, <1>2, <1>3, <1>4, PrepareSpeaks, AdmitSpeaks, FrameSpeaks, DesignSpeaks,
     OpenSpeaks, PlanSpeaks, PythonSpeaks, IntegrateSpeaks, ProjectSpeaks,
     AdvanceSpeaks, DirectSpeaks DEF Thread

-----------------------------------------------------------------------------
(* What is said reaches the page in its order, and nothing follows the end. *)

(* The thread says something, or its case is returned, or the run begins   *)
(* again before its end.                                                   *)
LEMMA SpeaksKeeps == ASSUME SaidInv, Speaks PROVE SaidInv'
<1>1. UNCHANGED <<setup, emitter, writer, wire, link, page>> BY DEF Speaks, sayRest
<1>2. outbox' \in Seq(Said) BY DEF Speaks, Quiet, Closing
<1>3. StreamType' BY <1>1, <1>2 DEF Speaks, SaidInv, StreamType
<1>4. \A i \in DOMAIN outbox' : EndsRun(outbox'[i]) =>
        i = Len(outbox') /\ stage' \in {"over", "told"}
  BY DEF Speaks, Quiet, Closing
<1>5. ~EndSeen BY DEF Speaks, SaidInv, StreamInv
<1>6. ~EndSeen' BY <1>1, <1>5 DEF EndSeen
<1>7. StreamInv' BY <1>1, <1>4, <1>6 DEF SaidInv, StreamInv
<1> QED BY <1>3, <1>7 DEF SaidInv

LEMMA StandsKeeps ==
  ASSUME SaidInv, UNCHANGED <<setup, outcome, streamVars>>,
         \/ stage' = stage
         \/ stage' = "told"
         \/ stage \notin {"over", "told"} /\ outbox = <<>>
  PROVE  SaidInv'
<1>1. UNCHANGED <<outbox, emitter, writer, wire, link, page>> BY DEF streamVars
<1>2. StreamType' BY <1>1 DEF SaidInv, StreamType
<1>3. EndSeen' = EndSeen BY <1>1 DEF EndSeen
<1>4. EndSeen => stage \in {"over", "told"} BY DEF SaidInv, StreamInv
<1>5. \A i \in DOMAIN outbox : EndsRun(outbox[i]) =>
        i = Len(outbox) /\ stage' \in {"over", "told"}
  BY DEF SaidInv, StreamInv
<1>6. EndSeen => outbox = <<>> /\ stage' \in {"over", "told"}
  BY <1>4 DEF SaidInv, StreamInv
<1>7. StreamInv' BY <1>1, <1>3, <1>5, <1>6 DEF SaidInv, StreamInv
<1> QED BY <1>2, <1>7 DEF SaidInv

(* The facts of sequences that the lines on the wire need.                 *)
LEMMA Lines ==
  ASSUME NEW S, NEW s \in Seq(S), s # <<>>
  PROVE  /\ Len(s) \in Nat \ {0} /\ DOMAIN s = 1 .. Len(s) /\ Head(s) = s[1]
         /\ s[1] \in S
         /\ Tail(s) \in Seq(S) /\ Len(Tail(s)) = Len(s) - 1
         /\ DOMAIN Tail(s) = 1 .. (Len(s) - 1)
         /\ \A i \in 1 .. (Len(s) - 1) : Tail(s)[i] = s[i + 1] /\ i + 1 \in DOMAIN s
         /\ Len(s) = 1 => Tail(s) = <<>>
<1>1. Len(s) \in Nat \ {0} /\ DOMAIN s = 1 .. Len(s)
  BY EmptySeq, LenProperties
<1>2. Tail(s) \in Seq(S) /\ Len(Tail(s)) = Len(s) - 1
        /\ \A i \in 1 .. Len(Tail(s)) : Tail(s)[i] = s[i + 1]
  BY HeadTailProperties
<1>3. DOMAIN Tail(s) = 1 .. (Len(s) - 1) BY <1>2, LenProperties
<1>4. s[1] \in S
  <2>1. 1 \in 1 .. Len(s) BY <1>1
  <2> QED BY <2>1, ElementOfSeq
<1>6. Head(s) = s[1] OBVIOUS
<1>5. ASSUME Len(s) = 1 PROVE Tail(s) = <<>>
  <2>1. Len(Tail(s)) = 0 BY <1>1, <1>2, <1>5
  <2>2. ~(Len(Tail(s)) \in Nat \ {0}) BY <2>1
  <2> QED BY <1>2, <2>2, EmptySeq
<1> QED BY <1>1, <1>2, <1>3, <1>4, <1>5, <1>6

(* The next event leaves the outbox: it may be sent or lost.               *)
LEMMA OutboxNext ==
  ASSUME SaidInv, outbox # <<>>
  PROVE  /\ Head(outbox) \in Said /\ Tail(outbox) \in Seq(Said)
         /\ ~EndSeen
         /\ EndsRun(Head(outbox)) =>
              Tail(outbox) = <<>> /\ stage \in {"over", "told"}
         /\ \A i \in DOMAIN Tail(outbox) : EndsRun(Tail(outbox)[i]) =>
              i = Len(Tail(outbox)) /\ stage \in {"over", "told"}
<1>1. outbox \in Seq(Said) BY DEF SaidInv, StreamType
<1>2. /\ Len(outbox) \in Nat \ {0} /\ DOMAIN outbox = 1 .. Len(outbox)
      /\ Head(outbox) = outbox[1] /\ outbox[1] \in Said
      /\ Tail(outbox) \in Seq(Said) /\ Len(Tail(outbox)) = Len(outbox) - 1
      /\ DOMAIN Tail(outbox) = 1 .. (Len(outbox) - 1)
      /\ \A i \in 1 .. (Len(outbox) - 1) :
           Tail(outbox)[i] = outbox[i + 1] /\ i + 1 \in DOMAIN outbox
      /\ Len(outbox) = 1 => Tail(outbox) = <<>>
  BY <1>1, Lines
<1>3. ~EndSeen BY DEF SaidInv, StreamInv
<1>4. EndsRun(Head(outbox)) => Tail(outbox) = <<>> /\ stage \in {"over", "told"}
  <2>1. 1 \in DOMAIN outbox BY <1>2
  <2> QED BY <1>2, <2>1 DEF SaidInv, StreamInv
<1>5. ASSUME NEW i \in DOMAIN Tail(outbox), EndsRun(Tail(outbox)[i])
      PROVE  i = Len(Tail(outbox)) /\ stage \in {"over", "told"}
  <2>1. i + 1 \in DOMAIN outbox /\ EndsRun(outbox[i + 1]) BY <1>2, <1>5
  <2>2. i + 1 = Len(outbox) /\ stage \in {"over", "told"}
    BY <2>1 DEF SaidInv, StreamInv
  <2>3. i \in 1 .. (Len(outbox) - 1) /\ Len(Tail(outbox)) = Len(outbox) - 1
    BY <1>2, <1>5
  <2> QED BY <1>2, <2>2, <2>3
<1> QED BY <1>2, <1>3, <1>4, <1>5

(* A line is written, with sequence n, while the thread waits.             *)
Lined(n) ==
  /\ outbox # <<>> /\ outbox' = Tail(outbox)
  /\ UNCHANGED <<setup, stage, outcome, link, page>>
  /\ Write([said |-> Head(outbox), sequence |-> n])
  /\ emitter' \in [sequence: Nat, cycle: Nat,
                  stage: {"task framing", "probe execution", "evidence judgment"}]
  /\ link = "up" => n = page.read + Len(wire) + 1
  /\ setup.host # "json" => emitter'.sequence = n
  /\ setup.host = "json" => EndsRun(Head(outbox))

(* A line goes on the wire, where its sequence is the next, or is lost.    *)
LEMMA LineKeepsEnd == ASSUME SaidInv, NEW n \in Nat, Lined(n) PROVE SaidInv'
<1> DEFINE S == [said: Said, sequence: Nat]
           line == [said |-> Head(outbox), sequence |-> n]
<1>1. /\ Head(outbox) \in Said /\ Tail(outbox) \in Seq(Said)
      /\ ~EndSeen
      /\ EndsRun(Head(outbox)) =>
           Tail(outbox) = <<>> /\ stage \in {"over", "told"}
      /\ \A i \in DOMAIN Tail(outbox) : EndsRun(Tail(outbox)[i]) =>
           i = Len(Tail(outbox)) /\ stage \in {"over", "told"}
  BY OutboxNext DEF Lined
<1>2. wire \in Seq(S) /\ Len(wire) <= MaxInFlight /\ link \in {"up", "gone"}
  BY DEF SaidInv, StreamType
<1>3. line \in S BY <1>1
<1>4. line.said = Head(outbox) /\ line.sequence = n OBVIOUS
<1>5. page.terminal = "none" /\ \A i \in DOMAIN wire : ~EndsRun(wire[i].said)
  BY <1>1 DEF EndSeen
<1>6. /\ link = "gone" => wire = <<>>
      /\ link = "up" => writer = "open"
      /\ \A i \in DOMAIN wire : wire[i].sequence = page.read + i
      /\ setup.host = "json" =>
           /\ page.terminal = "none" => page.read = 0
           /\ \A i \in DOMAIN wire : EndsRun(wire[i].said)
  BY DEF SaidInv, StreamInv
<1>7. /\ Write(line)
      /\ setup.host # "json" => emitter'.sequence = n
      /\ setup.host = "json" => EndsRun(Head(outbox))
  BY DEF Lined
<1>8. page.read \in Nat /\ Len(wire) \in Nat /\ DOMAIN wire = 1 .. Len(wire)
  BY <1>2, LenProperties DEF SaidInv, StreamType
<1>9. \A i \in DOMAIN outbox' : EndsRun(outbox'[i]) =>
        i = Len(outbox') /\ stage' \in {"over", "told"}
  BY <1>1 DEF Lined
<1>10. /\ page' = page /\ link' = link /\ stage' = stage /\ setup' = setup
       /\ outcome' = outcome /\ outbox' = Tail(outbox)
  BY DEF Lined
<1> HIDE DEF line, S
<1>11. CASE /\ writer = "open" /\ link = "up" /\ Len(wire) < MaxInFlight
            /\ wire' = Append(wire, line) /\ writer' = writer
  <2>1. /\ wire' \in Seq(S) /\ Len(wire') = Len(wire) + 1
        /\ \A i \in 1 .. Len(wire) : wire'[i] = wire[i]
        /\ wire'[Len(wire) + 1] = line
    BY <1>2, <1>3, <1>11, AppendProperties
  <2>2. DOMAIN wire' = 1 .. (Len(wire) + 1) BY <2>1, LenProperties
  <2>3. \A i \in DOMAIN wire' : i \in DOMAIN wire \/ i = Len(wire) + 1
    BY <1>8, <2>2
  <2>4. \A i \in DOMAIN wire : wire'[i] = wire[i] BY <1>8, <2>1
  <2>5. \A i \in DOMAIN wire' : wire'[i].sequence = page.read + i
    <3>1. n = page.read + Len(wire) + 1 BY <1>11 DEF Lined
    <3>2. n = page.read + (Len(wire) + 1) BY <1>8, <3>1
    <3> QED BY <1>4, <1>6, <2>1, <2>3, <2>4, <3>2
  <2>6. \A i \in DOMAIN wire' : EndsRun(wire'[i].said) =>
          i = Len(wire) + 1 /\ EndsRun(Head(outbox))
    BY <1>4, <1>5, <2>1, <2>3, <2>4
  <2>7. Len(wire') <= MaxInFlight
    <3>1. Len(wire) < MaxInFlight /\ Len(wire') = Len(wire) + 1 BY <1>11, <2>1
    <3> QED BY <1>8, <3>1, StreamAssumption
  <2>8. StreamType'
    BY <1>1, <1>10, <1>11, <2>1, <2>7 DEF SaidInv, StreamType, S, Lined
  <2>9. EndSeen' => outbox' = <<>> /\ stage' \in {"over", "told"}
    BY <1>1, <1>5, <1>10, <2>6 DEF EndSeen
  <2>10. link' = "up" /\ setup'.host # "json" =>
           emitter'.sequence = page'.read + Len(wire')
    <3>1. n = page.read + Len(wire) + 1 BY <1>11 DEF Lined
    <3>2. n = page.read + (Len(wire) + 1) BY <1>8, <3>1
    <3> QED BY <1>7, <1>10, <2>1, <3>2
  <2>11. setup'.host = "json" =>
           /\ page'.terminal = "none" => page'.read = 0
           /\ \A i \in DOMAIN wire' : EndsRun(wire'[i].said)
    BY <1>4, <1>6, <1>7, <1>10, <2>1, <2>3, <2>4
  <2>12. StreamInv'
    BY <1>5, <1>6, <1>9, <1>10, <1>11, <2>1, <2>5, <2>6, <2>9, <2>10, <2>11
    DEF StreamInv
  <2> QED BY <2>8, <2>12 DEF SaidInv
<1>12. CASE wire' = wire /\ link = "gone" /\ writer' \in {"open", "disconnected"}
  <2>1. StreamType' BY <1>1, <1>10, <1>12 DEF SaidInv, StreamType, Lined
  <2>2. EndSeen' = EndSeen BY <1>10, <1>12 DEF EndSeen
  <2>3. StreamInv'
    BY <1>1, <1>5, <1>6, <1>9, <1>10, <1>12, <2>2 DEF StreamInv
  <2> QED BY <2>1, <2>3 DEF SaidInv
<1> QED
  <2>1. writer \in {"open", "disconnected"} BY DEF SaidInv, StreamType
  <2> QED BY <1>2, <1>6, <1>7, <1>11, <1>12, <2>1 DEF Write

(* What is next in the outbox is sent as a line with the next sequence.    *)
LEMMA EmitKeepsEnd ==
  ASSUME SaidInv, setup.host # "json", Emit, UNCHANGED <<setup, stage, outcome>>
  PROVE  SaidInv'
<1> DEFINE said == Head(outbox)
           n == emitter.sequence + 1
<1>1. outbox # <<>> /\ outbox' = Tail(outbox) /\ UNCHANGED <<link, page>> BY DEF Emit
<1>2. said \in Said BY <1>1, OutboxNext
<1>3. /\ emitter.sequence \in Nat
      /\ emitter.stage \in {"task framing", "probe execution", "evidence judgment"}
  BY DEF SaidInv, StreamType
<1>4. said.cycle \in Nat BY <1>2 DEF Said
<1>5. emitter' = [sequence |-> n, stage |-> FailureStageAfter(said.event),
                  cycle |-> said.cycle]
  BY DEF Emit, NextSequence
<1>6. FailureStageAfter(said.event) \in
        {"task framing", "probe execution", "evidence judgment"}
  BY <1>3 DEF FailureStageAfter
<1>7. emitter' \in [sequence: Nat, cycle: Nat,
                    stage: {"task framing", "probe execution", "evidence judgment"}]
  <2> DEFINE s == FailureStageAfter(said.event)
             c == said.cycle
  <2>5. emitter.sequence \in Nat BY <1>3
  <2>1. n \in Nat BY <2>5
  <2>2. emitter' = [sequence |-> n, stage |-> s, cycle |-> c] BY <1>5
  <2>3. s \in {"task framing", "probe execution", "evidence judgment"} BY <1>6
  <2>4. c \in Nat BY <1>4
  <2> HIDE DEF n, s, c
  <2> QED BY <2>1, <2>2, <2>3, <2>4
<1>8. Write([said |-> Head(outbox), sequence |-> n]) BY DEF Emit, NextSequence
<1>9. link = "up" => n = page.read + Len(wire) + 1
  <2>1. link = "up" => emitter.sequence = page.read + Len(wire)
    BY DEF SaidInv, StreamInv
  <2>2. page.read \in Nat /\ Len(wire) \in Nat
    BY LenProperties DEF SaidInv, StreamType
  <2> QED BY <2>1, <2>2
<1>10. emitter'.sequence = n BY <1>5
<1>11. PICK k \in Nat : k = n
  <2>1. emitter.sequence \in Nat BY <1>3
  <2>2. n \in Nat BY <2>1
  <2> HIDE DEF n
  <2> QED BY <2>2
<1>12. Write([said |-> Head(outbox), sequence |-> k]) BY <1>8, <1>11
<1>13. link = "up" => k = page.read + Len(wire) + 1 BY <1>9, <1>11
<1>14. emitter'.sequence = k BY <1>10, <1>11
<1>15. Lined(k) BY <1>1, <1>7, <1>12, <1>13, <1>14 DEF Lined
<1> QED BY <1>15, LineKeepsEnd

(* The other endpoint sends nothing but its response.                      *)
LEMMA TrackKeepsEnd ==
  ASSUME SaidInv, setup.host = "json", Track, UNCHANGED <<setup, stage, outcome>>
  PROVE  SaidInv'
<1> DEFINE said == Head(outbox)
<1>1. outbox # <<>> /\ outbox' = Tail(outbox) /\ UNCHANGED <<link, page>> BY DEF Track
<1>2. /\ said \in Said /\ Tail(outbox) \in Seq(Said)
      /\ ~EndSeen
      /\ \A i \in DOMAIN Tail(outbox) : EndsRun(Tail(outbox)[i]) =>
           i = Len(Tail(outbox)) /\ stage \in {"over", "told"}
  BY <1>1, OutboxNext
<1>3. emitter \in [sequence: Nat, cycle: Nat,
                   stage: {"task framing", "probe execution", "evidence judgment"}]
  BY DEF SaidInv, StreamType
<1>4. CASE said.event = "response"
  <2>1. Write([said |-> Head(outbox), sequence |-> 1]) /\ emitter' = emitter
    BY <1>4 DEF Track
  <2>2. EndsRun(Head(outbox)) BY <1>4 DEF EndsRun
  <2>3. page.read = 0 BY <1>2 DEF EndSeen, SaidInv, StreamInv
  <2>4. Len(wire) = 0
    <3>1. wire \in Seq([said: Said, sequence: Nat]) BY DEF SaidInv, StreamType
    <3>2. Len(wire) \in Nat /\ DOMAIN wire = 1 .. Len(wire) BY <3>1, LenProperties
    <3>3. DOMAIN wire = {} BY <1>2 DEF EndSeen, SaidInv, StreamInv
    <3>4. ASSUME Len(wire) # 0 PROVE FALSE
      <4>1. 1 \in DOMAIN wire BY <3>2, <3>4
      <4> QED BY <3>3, <4>1
    <3> QED BY <3>4
  <2>5. link = "up" => 1 = page.read + Len(wire) + 1 BY <2>3, <2>4
  <2>6. emitter' \in [sequence: Nat, cycle: Nat,
                      stage: {"task framing", "probe execution", "evidence judgment"}]
    BY <1>3, <2>1
  <2>7. PICK k \in Nat : k = 1 OBVIOUS
  <2>8. Write([said |-> Head(outbox), sequence |-> k]) BY <2>1, <2>7
  <2>9. Lined(k) BY <1>1, <2>2, <2>5, <2>6, <2>7, <2>8 DEF Lined
  <2> QED BY <2>9, LineKeepsEnd
<1>5. CASE said.event # "response"
  <2>1. /\ emitter' = [emitter EXCEPT !.stage = FailureStageAfter(said.event)]
        /\ UNCHANGED <<writer, wire>>
    BY <1>5 DEF Track
  <2>2. FailureStageAfter(said.event) \in
          {"task framing", "probe execution", "evidence judgment"}
    BY <1>3 DEF FailureStageAfter
  <2>3. emitter' \in [sequence: Nat, cycle: Nat,
                      stage: {"task framing", "probe execution", "evidence judgment"}]
    BY <1>3, <2>1, <2>2
  <2>4. StreamType' BY <1>1, <1>2, <2>1, <2>3 DEF SaidInv, StreamType
  <2>5. ~EndSeen' BY <1>1, <1>2, <2>1 DEF EndSeen
  <2>6. StreamInv' BY <1>1, <1>2, <2>1, <2>5 DEF SaidInv, StreamInv
  <2> QED BY <2>4, <2>6 DEF SaidInv
<1> QED BY <1>4, <1>5

LEMMA SayKeepsEnd == ASSUME SaidInv, SayNext PROVE SaidInv'
<1>1. UNCHANGED <<setup, stage, outcome>> BY DEF SayNext, threadVars
<1> QED BY <1>1, EmitKeepsEnd, TrackKeepsEnd DEF SayNext

(* What a line makes of the page is the end of the run, or no end.         *)
LEMMA ReadsEnd ==
  ASSUME NEW said \in Said, page.terminal = "none"
  PROVE  /\ TerminalOf(said) \in {"none"} \cup Terminal
         /\ TerminalOf(said) # "none" <=> EndsRun(said)
<1>1. CASE said.event = "response"
  <2>1. said.outcome \in Terminal BY <1>1 DEF Said, Events
  <2>2. TerminalOf(said) = said.outcome BY <1>1 DEF TerminalOf
  <2> QED BY <1>1, <2>1, <2>2 DEF EndsRun, Terminal
<1>2. CASE said.event # "response"
  BY <1>2 DEF TerminalOf, EndsRun, Terminal
<1> QED BY <1>1, <1>2

(* A line is read: it was the next, and if it ends the run it was the last *)
(* one.                                                                    *)
LEMMA ReadKeeps ==
  ASSUME SaidInv, UNCHANGED <<setup, stage, outcome>>, ReadLine
  PROVE  SaidInv'
<1> DEFINE S == [said: Said, sequence: Nat]
<1>1. /\ page.verdict = "none" /\ link = "up" /\ wire # <<>>
      /\ UNCHANGED <<outbox, emitter, writer>>
  BY DEF ReadLine
<1>2. wire \in Seq(S) /\ Len(wire) <= MaxInFlight BY DEF SaidInv, StreamType
<1>3. /\ Len(wire) \in Nat \ {0} /\ DOMAIN wire = 1 .. Len(wire)
      /\ Head(wire) = wire[1] /\ wire[1] \in S
      /\ Tail(wire) \in Seq(S) /\ Len(Tail(wire)) = Len(wire) - 1
      /\ DOMAIN Tail(wire) = 1 .. (Len(wire) - 1)
      /\ \A i \in 1 .. (Len(wire) - 1) :
           Tail(wire)[i] = wire[i + 1] /\ i + 1 \in DOMAIN wire
      /\ Len(wire) = 1 => Tail(wire) = <<>>
  <2> HIDE DEF S
  <2> QED BY <1>1, <1>2, Lines
<1>4. PICK said \in Said : said = wire[1].said BY <1>3
<1>5. page.terminal = "none" BY <1>1 DEF SaidInv, StreamInv
<1>6. page.read \in Nat BY DEF SaidInv, StreamType
<1>7. wire[1].sequence = page.read + 1
  <2>1. 1 \in DOMAIN wire BY <1>3
  <2> QED BY <2>1 DEF SaidInv, StreamInv
<1>8. EndsRun(said) => /\ Len(wire) = 1 /\ outbox = <<>>
                       /\ stage \in {"over", "told"}
  <2>1. 1 \in DOMAIN wire BY <1>3
  <2>2. EndsRun(said) => EndSeen BY <1>4, <2>1 DEF EndSeen
  <2> QED BY <1>4, <2>1, <2>2 DEF SaidInv, StreamInv
<1>9. /\ TerminalOf(said) \in {"none"} \cup Terminal
      /\ TerminalOf(said) # "none" <=> EndsRun(said)
  BY <1>5, ReadsEnd
<1>10. /\ \A i \in DOMAIN outbox : EndsRun(outbox[i]) =>
            i = Len(outbox) /\ stage \in {"over", "told"}
       /\ writer = "open"
       /\ \A i \in DOMAIN wire : wire[i].sequence = page.read + i
       /\ \A i \in DOMAIN wire : EndsRun(wire[i].said) => i = Len(wire)
       /\ setup.host # "json" => emitter.sequence = page.read + Len(wire)
       /\ setup.host = "json" =>
            page.read = 0 /\ \A i \in DOMAIN wire : EndsRun(wire[i].said)
  BY <1>1, <1>5 DEF SaidInv, StreamInv
<1>11. CASE /\ page' = [page EXCEPT !.verdict = "error"]
            /\ link' = "gone" /\ wire' = <<>>
  <2>1. StreamType'
    <3>1. wire' \in Seq(S) /\ Len(wire') = 0 BY <1>11
    <3>2. Len(wire') <= MaxInFlight BY <3>1, StreamAssumption
    <3> QED BY <1>1, <1>11, <3>1, <3>2 DEF SaidInv, StreamType
  <2>2. page'.terminal = "none" /\ page'.read = page.read
    BY <1>5, <1>11 DEF SaidInv, StreamType
  <2>3. ~EndSeen' BY <1>11, <2>2 DEF EndSeen
  <2>4. StreamInv' BY <1>1, <1>10, <1>11, <2>2, <2>3 DEF StreamInv
  <2> QED BY <2>1, <2>4 DEF SaidInv
<1>12. ASSUME NEW framed,
              page' = [page EXCEPT !.read = Head(wire).sequence, !.framed = framed,
                                   !.terminal = TerminalOf(said)],
              wire' = Tail(wire), link' = link
       PROVE  SaidInv'
  <2>1. page'.read = page.read + 1 /\ page'.terminal = TerminalOf(said)
    BY <1>3, <1>7, <1>12 DEF SaidInv, StreamType
  <2>2. StreamType'
    <3>1. page.read + 1 \in Nat BY <1>6
    <3>2. page' \in [read: Nat, framed: {page'.framed},
                     terminal: {"none"} \cup Terminal,
                     verdict: {"none", "error"} \cup Terminal]
      BY <1>3, <1>7, <1>9, <1>12, <3>1 DEF SaidInv, StreamType
    <3>3. Len(wire') <= MaxInFlight
      BY <1>2, <1>3, <1>12, StreamAssumption
    <3> QED BY <1>1, <1>3, <1>12, <3>2, <3>3 DEF SaidInv, StreamType
  <2>3. \A i \in DOMAIN wire' : /\ i \in 1 .. (Len(wire) - 1)
                                /\ wire'[i] = wire[i + 1] /\ i + 1 \in DOMAIN wire
    BY <1>3, <1>12
  <2>4. \A i \in DOMAIN wire' : wire'[i].sequence = page'.read + i
    <3>1. \A i \in DOMAIN wire' : wire'[i].sequence = page.read + (i + 1)
      BY <1>10, <2>3
    <3>2. \A i \in Nat, r \in Nat : r + (i + 1) = r + 1 + i OBVIOUS
    <3>3. \A i \in DOMAIN wire' : i \in Nat BY <2>3
    <3> QED BY <1>6, <2>1, <3>1, <3>2, <3>3
  <2>5. \A i \in DOMAIN wire' : EndsRun(wire'[i].said) => i = Len(wire')
    <3>1. \A i \in DOMAIN wire' : EndsRun(wire'[i].said) => i + 1 = Len(wire)
      BY <1>10, <2>3
    <3>2. \A i \in Nat, n \in Nat : i + 1 = n => i = n - 1 OBVIOUS
    <3>3. \A i \in DOMAIN wire' : i \in Nat BY <2>3
    <3> QED BY <1>3, <1>12, <3>1, <3>2, <3>3
  <2>6. link' = "up" /\ setup'.host # "json" =>
          emitter'.sequence = page'.read + Len(wire')
    <3>1. page.read + Len(wire) = page.read + 1 + (Len(wire) - 1) BY <1>3, <1>6
    <3> QED BY <1>1, <1>3, <1>10, <1>12, <2>1, <3>1
  <2>7. page'.terminal # "none" => /\ wire' = <<>> /\ outbox' = <<>>
                                   /\ stage' \in {"over", "told"}
    BY <1>1, <1>3, <1>8, <1>9, <1>12, <2>1
  <2>8. \A i \in DOMAIN wire' : EndsRun(wire'[i].said) =>
          outbox' = <<>> /\ stage' \in {"over", "told"}
    <3>1. \A i \in DOMAIN wire' : EndsRun(wire'[i].said) => EndSeen
      BY <2>3 DEF EndSeen
    <3> QED BY <1>1, <3>1 DEF SaidInv, StreamInv
  <2>9. EndSeen' => outbox' = <<>> /\ stage' \in {"over", "told"}
    BY <2>7, <2>8 DEF EndSeen
  <2>10. setup'.host = "json" =>
           /\ page'.terminal = "none" => page'.read = 0
           /\ \A i \in DOMAIN wire' : EndsRun(wire'[i].said)
    <3>1. setup.host = "json" => EndsRun(said)
      <4>1. 1 \in DOMAIN wire BY <1>3
      <4> QED BY <1>4, <1>10, <4>1
    <3>2. setup.host = "json" => page'.terminal # "none" BY <1>9, <2>1, <3>1
    <3> QED BY <1>10, <2>3, <3>2
  <2>11. StreamInv'
    BY <1>1, <1>10, <1>12, <2>4, <2>5, <2>6, <2>7, <2>9, <2>10 DEF StreamInv
  <2> QED BY <2>2, <2>11 DEF SaidInv
<1>13. \/ /\ page' = [page EXCEPT !.verdict = "error"]
          /\ link' = "gone" /\ wire' = <<>>
       \/ \E framed : /\ page' = [page EXCEPT !.read = Head(wire).sequence,
                                              !.framed = framed,
                                              !.terminal = TerminalOf(said)]
                      /\ wire' = Tail(wire) /\ link' = link
  <2>1. said = Head(wire).said BY <1>3, <1>4
  <2> DEFINE f == said.event # "run_started"
                    /\ (page.framed \/ said.event = "task_framing_completed")
  <2>2. \/ /\ page' = [page EXCEPT !.verdict = "error"]
           /\ link' = "gone" /\ wire' = <<>>
        \/ /\ page' = [page EXCEPT !.read = Head(wire).sequence, !.framed = f,
                                   !.terminal = TerminalOf(said)]
           /\ wire' = Tail(wire) /\ link' = link
    BY <2>1 DEF ReadLine
  <2> HIDE DEF f
  <2> QED BY <2>2
<1> QED BY <1>11, <1>12, <1>13

(* The page ends, or the connection breaks.                                *)
LEMMA PageEnds ==
  ASSUME SaidInv, UNCHANGED <<setup, stage, outcome>>,
         (\E closed \in BOOLEAN : ReadEnd(closed)) \/ ReadFails \/ LinkBreaks
  PROVE  SaidInv'
<1>1. UNCHANGED <<outbox, emitter, writer>> BY DEF ReadEnd, ReadFails, LinkBreaks
<1>2. /\ page' \in [read: Nat, framed: {page'.framed}, terminal: {"none"} \cup Terminal,
                    verdict: {"none", "error"} \cup Terminal]
      /\ page'.read = page.read /\ page'.terminal = page.terminal
  BY DEF SaidInv, StreamType, ReadEnd, ReadFails, LinkBreaks
<1>3. \/ wire' = wire /\ link' = link
      \/ wire' = <<>> /\ link' = "gone"
  BY DEF ReadEnd, ReadFails, LinkBreaks
<1>4. StreamType'
  <2>1. wire' \in Seq([said: Said, sequence: Nat]) /\ Len(wire') <= MaxInFlight
    <3>1. CASE wire' = wire BY <3>1 DEF SaidInv, StreamType
    <3>2. CASE wire' = <<>>
      <4>1. Len(wire') = 0 BY <3>2
      <4> QED BY <3>2, <4>1, StreamAssumption
    <3> QED BY <1>3, <3>1, <3>2
  <2>2. link' \in {"up", "gone"} BY <1>3 DEF SaidInv, StreamType
  <2> QED BY <1>1, <1>2, <2>1, <2>2 DEF SaidInv, StreamType
<1>5. EndSeen' => EndSeen BY <1>2, <1>3 DEF EndSeen
<1>6. StreamInv' BY <1>1, <1>2, <1>3, <1>5 DEF SaidInv, StreamInv
<1> QED BY <1>4, <1>6 DEF SaidInv

LEMMA SaidInvInit == Init => SaidInv
<1> SUFFICES ASSUME Init PROVE SaidInv OBVIOUS
<1>1. outbox = <<>> /\ wire = <<>> /\ writer = "open" /\ link = "up"
  BY DEF Init, StreamInit
<1>2. emitter = [sequence |-> 0, stage |-> "task framing", cycle |-> 0]
  BY DEF Init, StreamInit
<1>3. page = [read |-> 0, framed |-> FALSE, terminal |-> "none", verdict |-> "none"]
  BY DEF Init, StreamInit
<1>4. outcome = "running" BY DEF Init
<1>5. Len(wire) = 0 BY <1>1
<1>6. StreamType
  <2>1. outbox \in Seq(Said) /\ wire \in Seq([said: Said, sequence: Nat])
    BY <1>1, EmptySeq
  <2>2. emitter \in [sequence: Nat, cycle: Nat,
                     stage: {"task framing", "probe execution", "evidence judgment"}]
    BY <1>2
  <2>3. page \in [read: Nat, framed: {page.framed}, terminal: {"none"} \cup Terminal,
                  verdict: {"none", "error"} \cup Terminal]
    BY <1>3
  <2>4. Len(wire) <= MaxInFlight BY <1>5, StreamAssumption
  <2> QED BY <1>1, <1>4, <2>1, <2>2, <2>3, <2>4 DEF StreamType
<1>7. DOMAIN wire = {} /\ DOMAIN outbox = {} BY <1>1
<1>8. ~EndSeen BY <1>3, <1>7 DEF EndSeen
<1>9. emitter.sequence = page.read + Len(wire)
  <2>1. emitter.sequence = 0 /\ page.read = 0 BY <1>2, <1>3
  <2> QED BY <1>5, <2>1
<1>10. page.terminal = "none" /\ page.read = 0 BY <1>3
<1>11. StreamInv BY <1>1, <1>7, <1>8, <1>9, <1>10 DEF StreamInv
<1> QED BY <1>6, <1>11 DEF SaidInv

LEMMA SaidInvNext == ASSUME SaidInv, StageInv, [Next]_vars PROVE SaidInv'
<1>1. CASE Thread
  <2>1. CASE SayNext BY <2>1, SayKeepsEnd
  <2>2. CASE ReturnCase
    <3>1. UNCHANGED <<setup, outcome, streamVars>> /\ stage' = "told"
      BY <2>2 DEF ReturnCase
    <3> QED BY <3>1, StandsKeeps
  <2>3. CASE ~SayNext /\ ~ReturnCase
    <3>1. CASE Speaks BY <3>1, SpeaksKeeps
    <3>2. CASE Stands
      <4>1. UNCHANGED <<setup, outcome, streamVars>> /\ stage' = stage
        BY <3>2 DEF Stands
      <4> QED BY <4>1, StandsKeeps
    <3> QED BY <1>1, <2>3, <3>1, <3>2, ThreadSpeaks
  <2> QED BY <2>1, <2>2, <2>3
<1>2. CASE Sandbox \/ Docker \/ UNCHANGED vars
  <2>1. UNCHANGED <<setup, outcome, streamVars>> /\ stage' = stage
    BY <1>2 DEF Sandbox, Docker, vars, threadVars
  <2> QED BY <2>1, StandsKeeps
<1>3. CASE Page
  <2>1. UNCHANGED <<setup, stage, outcome>> BY <1>3 DEF Page, threadVars
  <2>2. PageStep(At("over")) BY <1>3 DEF Page
  <2>3. CASE ReadLine BY <2>1, <2>3, ReadKeeps
  <2>4. CASE ReadEnd(At("over")) \/ ReadFails
    <3>1. ReadEnd(At("over")) => \E closed \in BOOLEAN : ReadEnd(closed)
      BY DEF ReadEnd
    <3> QED BY <2>1, <2>4, <3>1, PageEnds
  <2> QED BY <2>2, <2>3, <2>4 DEF PageStep
<1>4. CASE Breaks
  <2>1. UNCHANGED <<setup, stage, outcome>> /\ LinkBreaks
    BY <1>4 DEF Breaks, threadVars
  <2> QED BY <2>1, PageEnds
<1>5. CASE RunAgain
  <2>1. UNCHANGED <<setup, outcome, streamVars>> BY <1>5 DEF RunAgain
  <2>2. probe.step # "idle" => stage = "execute" /\ outbox = <<>>
    BY DEF StageInv, StagePlace, ProbePlace
  <2>3. sandbox.phase \in {"wait", "remove", "kill"} BY <1>5 DEF RunAgain
  <2>4. probe.step # "idle" BY <2>3 DEF StageInv, StagePlace, ProbePlace
  <2> QED BY <2>1, <2>2, <2>4, StandsKeeps
<1>6. CASE Finished
  <2>1. UNCHANGED vars BY <1>6 DEF Finished
  <2> QED BY <1>2, <2>1
<1> QED BY <1>1, <1>2, <1>3, <1>4, <1>5, <1>6 DEF Next

LEMMA SaidInvariance == Spec => []SaidInv
<1>1. StageInv /\ SaidInv /\ [Next]_vars => SaidInv' BY SaidInvNext
<1> QED BY <1>1, SaidInvInit, PlaceInvariance, PTL DEF Spec

(* The page reads an unbroken sequence of lines, and nothing is sent or    *)
(* said after the event that ends the run.                                 *)
THEOREM EndComesLast == Spec => []OneEndAndLast
<1>1. SaidInv => OneEndAndLast
  <2> SUFFICES ASSUME SaidInv PROVE OneEndAndLast OBVIOUS
  <2>1. \A i \in DOMAIN wire :
          /\ wire[i].sequence = page.read + i
          /\ EndsRun(wire[i].said) => i = Len(wire)
    BY DEF SaidInv, StreamInv
  <2>2. EndSeen => outbox = <<>> BY DEF SaidInv, StreamInv
  <2>3. page.terminal # "none" => wire = <<>> BY DEF SaidInv, StreamInv
  <2> QED BY <2>1, <2>2, <2>3 DEF OneEndAndLast, EndSeen
<1> QED BY <1>1, SaidInvariance, PTL

-----------------------------------------------------------------------------
(* Every variable has its type.                                            *)
THEOREM TypeCorrect == Spec => []TypeOK
<1>1. CallInv /\ StageInv /\ BoxInv /\ SaidInv => TypeOK
  <2> SUFFICES ASSUME CallInv, StageInv, BoxInv, SaidInv PROVE TypeOK OBVIOUS
  <2>1. ProviderTypeOK
    BY DEF ProviderTypeOK, CallInv, CallType, Records, Attempts
  <2>2. TaskTypeOK
    BY <2>1 DEF TaskTypeOK, StageInv, Shapes, TaskShape, TaskPlace
  <2>3. /\ sandbox.phase \in {"idle", "wait", "remove", "kill", "join", "done"}
        /\ \A e \in Executions :
             clients[e] \in {"none", "asking", "starting", "attached"}
    BY DEF BoxInv, SandboxType, Boxes
  <2>4. \A n \in Names :
          /\ containers[n].state \in {"absent", "created", "running"}
          /\ containers[n].state # "absent" => ContainerName(containers[n].by) = n
    BY DEF BoxInv, SandboxType
  <2>5. ProbeTypeOK BY <2>2, <2>3, <2>4 DEF ProbeTypeOK, StageInv, Shapes
  <2>6. StreamTypeOK
    <3>1. /\ emitter.sequence \in Nat /\ emitter.cycle \in Nat
          /\ emitter.stage \in {"task framing", "probe execution", "evidence judgment"}
      BY DEF SaidInv, StreamType
    <3>2. /\ page.terminal \in {"none"} \cup Terminal
          /\ page.verdict \in {"none", "error"} \cup Terminal
      BY DEF SaidInv, StreamType
    <3> QED BY <3>1, <3>2 DEF StreamTypeOK, SaidInv, StreamType
  <2>7. run.cycle \in 0 .. MaxCycles /\ run.signals \in 0 .. 2
    BY DEF StageInv, Shapes, RunShape
  <2> QED BY <2>5, <2>6, <2>7
      DEF TypeOK, StageInv, Shapes, RunShape, StagePlace, RunPlace, SaidInv, StreamType
<1> QED BY <1>1, CallInvariance, PlaceInvariance, SaidInvariance, PTL

-----------------------------------------------------------------------------
(* The troubles of an arm.                                                 *)

(* An arm asks no direct question, and its planner always has a probe: the *)
(* initializer gave it one and its designer does not fail.                 *)
TroubleInv ==
  setup.host = "arm" =>
    /\ stage # "direct"
    /\ stage \in {"open", "plan"} => run.pool
    /\ TroubleIsASignal

(* What can still end the case of an arm.                                  *)
Ends == {"judge_evidence", "sandbox", "integrate", "hypotheses"}

(* The setups of an arm.                                                   *)
LEMMA ArmSetup ==
  ASSUME StageInv, setup.host = "arm"
  PROVE  Explicit /\ setup.model /\ ~Watched /\ ~ModelHost
<1>1. setup \in Setups BY DEF StageInv, Shapes, RunShape
<1>2. setup.model /\ setup.input = "choices" BY <1>1, HostAssumption
<1> QED BY <1>2 DEF Explicit, Watched, ModelHost

LEMMA TroubleKept ==
  ASSUME TroubleInv, UNCHANGED <<setup, outcome, fault>>,
         stage' # "direct" \/ stage' = stage,
         stage' \in {"open", "plan"} => run'.pool
  PROVE  TroubleInv'
BY DEF TroubleInv, TroubleIsASignal

LEMMA TroubleFails ==
  ASSUME NEW by \in Ends, NEW category, NEW attempts, Fails(by, category, attempts)
  PROVE  TroubleInv'
<1>1. fault'.by = by /\ stage' = "over" BY DEF Fails, Goes
<1> QED BY <1>1 DEF TroubleInv, TroubleIsASignal, Ends

LEMMA TroubleCompletes ==
  ASSUME TroubleInv, NEW said, Completes(said) PROVE TroubleInv'
<1>1. stage' = "over" /\ setup' = setup BY DEF Completes, Goes
<1>2. setup.host = "arm" =>
        outcome' = "completed" \/ fault'.by = "hypotheses"
  BY DEF Completes, NoFault
<1> QED BY <1>1, <1>2 DEF TroubleInv, TroubleIsASignal

(* In an arm only a judgment can fail the run from within a task.          *)
LEMMA TroubleOfTask ==
  ASSUME TroubleInv, StageInv, setup.host = "arm", TaskFails PROVE TroubleInv'
<1>1. outbox = <<>> /\ ~TaskIdle /\ ~Caught BY DEF TaskFails
<1>2. probe.step = "idle" BY <1>1 DEF Caught
<1>3. task.name \in Tasks
  BY <1>1 DEF StageInv, Shapes, TaskShape, TaskIdle
<1>4. task.name = "judge_evidence"
  BY <1>2, <1>3, ArmSetup DEF StageInv, TaskPlace, Tasks, WrappingTasks, TroubleInv
<1>5. \E category, attempts : Fails(task.name, category, attempts)
  BY DEF TaskFails
<1> QED BY <1>4, <1>5, TroubleFails DEF Ends

LEMMA TroubleStarts ==
  ASSUME TroubleInv, NEW name, NEW repairs, Starts(name, repairs) PROVE TroubleInv'
BY TroubleKept DEF Starts, threadVars, TroubleInv

LEMMA ThreadTrouble ==
  ASSUME TroubleInv, StageInv, setup.host = "arm", Thread PROVE TroubleInv'
<1>1. CASE Prepare
  BY <1>1, TroubleKept DEF Prepare, Goes, At, TroubleInv, TroubleIsASignal
<1>2. CASE Admit
  BY <1>2, TroubleKept, TroubleStarts DEF Admit, Admitted, Refused, Goes, TroubleInv,
     TroubleIsASignal
<1>3. CASE FrameTask
  <2>1. ASSUME NEW frame, Framed(frame) PROVE TroubleInv'
    <3>1. run' = [run EXCEPT !.framing = frame, !.pool = Explicit] /\ stage' \in {"open", "design"}
      BY <2>1 DEF Framed, Goes
    <3>2. run'.pool BY <3>1, ArmSetup DEF StageInv, Shapes, RunShape
    <3>3. UNCHANGED <<setup, outcome, fault>> BY <2>1 DEF Framed, Goes
    <3> QED BY <3>1, <3>2, <3>3, TroubleKept
  <2> QED BY <1>3, <2>1, TroubleStarts DEF FrameTask
<1>4. CASE DesignProbes
  <2>1. Designed(TRUE, <<Says("probe_design_completed")>>)
    BY <1>4, ArmSetup DEF DesignProbes, Takes, Done, StageInv, TaskPlace
  <2>2. CASE run.cycle > 0 /\ ~run.asked
    BY <2>1, <2>2, TroubleCompletes DEF Designed
  <2>3. CASE ~(run.cycle > 0 /\ ~run.asked)
    <3>1. run' = [run EXCEPT !.pool = TRUE \/ run.cycle > 0,
                             !.asked = FALSE, !.judged = FALSE]
      BY <2>1, <2>3 DEF Designed
    <3>2. run'.pool BY <3>1 DEF StageInv, Shapes, RunShape
    <3>3. UNCHANGED <<setup, outcome, fault>> /\ stage' = "open"
      BY <2>1, <2>3 DEF Designed, Goes
    <3> QED BY <3>2, <3>3, TroubleKept
  <2> QED BY <2>2, <2>3
<1>5. CASE OpenCycle
  <2>1. run.pool BY <1>5 DEF OpenCycle, At, TroubleInv
  <2>2. run' = [run EXCEPT !.cycle = @ + 1] BY <1>5 DEF OpenCycle
  <2>3. run'.pool BY <2>1, <2>2 DEF StageInv, Shapes, RunShape
  <2> QED BY <1>5, <2>3, TroubleKept DEF OpenCycle, Goes
<1>6. CASE PlanProbes
  <2>1. run.pool BY <1>6 DEF PlanProbes, At, TroubleInv
  <2>2. stage' = "execute" /\ UNCHANGED <<setup, outcome, fault>>
    BY <1>6, <2>1 DEF PlanProbes, Goes
  <2> QED BY <2>2, TroubleKept
<1>7. ASSUME Executed PROVE TroubleInv'
  <2>1. stage' = "judge" /\ UNCHANGED <<setup, outcome, fault>>
    BY <1>7 DEF Executed, Goes
  <2> QED BY <2>1, TroubleKept
<1>8. CASE ExecuteProbe BY <1>8 DEF ExecuteProbe
<1>9. CASE ExecutePython
  BY <1>7, <1>9, TroubleKept, TroubleFails DEF ExecutePython, threadVars, TroubleInv, Ends
<1>10. CASE JudgeSignal
  <2>1. ASSUME NEW admitted, NEW outside, Judged(admitted, outside) PROVE TroubleInv'
    <3>1. UNCHANGED <<setup, stage, outcome, fault>> BY <2>1 DEF Judged
    <3>2. stage = "judge" BY <1>10 DEF JudgeSignal, At
    <3> QED BY <3>1, <3>2, TroubleKept
  <2> QED BY <1>10, <2>1, TroubleStarts DEF JudgeSignal
<1>11. CASE Integrate
  <2>1. ASSUME NEW spawned, NEW expanded, Integrated(spawned, expanded) PROVE TroubleInv'
    <3>1. stage' = "project" /\ UNCHANGED <<setup, outcome, fault>>
      BY <2>1 DEF Integrated, Goes
    <3> QED BY <3>1, TroubleKept
  <2>2. ~Takes("expand_hypotheses")
    BY ArmSetup DEF Takes, Done, StageInv, TaskPlace
  <2> QED BY <1>11, <2>1, <2>2, TroubleStarts, TroubleFails DEF Integrate, Ends
<1>12. CASE ProjectAnswer
  BY <1>12, TroubleKept, TroubleStarts DEF ProjectAnswer, Projected, Goes
<1>13. CASE Advance
  BY <1>13, TroubleKept, TroubleCompletes DEF Advance, Goes
<1>14. CASE DirectAnswer BY <1>14 DEF DirectAnswer, At, TroubleInv
<1>15. CASE ReturnCase BY <1>15, TroubleKept DEF ReturnCase
<1>16. CASE TaskFails BY <1>16, TroubleOfTask
<1>17. CASE ReadTask BY <1>17, TroubleKept DEF ReadTask, threadVars, TroubleInv
<1>18. CASE SayNext BY <1>18, TroubleKept DEF SayNext, threadVars, TroubleInv
<1> QED
  BY <1>1, <1>2, <1>3, <1>4, <1>5, <1>6, <1>8, <1>9, <1>10, <1>11, <1>12, <1>13, <1>14,
     <1>15, <1>16, <1>17, <1>18 DEF Thread

LEMMA SetupStays == [Next]_vars => setup' = setup
BY DEF Next, Thread, Prepare, Admit, Starts, Admitted, Refused, FrameTask, Framed,
   DesignProbes, Designed, Completes, OpenCycle, PlanProbes, Fails, ExecuteProbe,
   Executed, ExecutePython, JudgeSignal, Judged, Integrate, Integrated, ProjectAnswer,
   Projected, Advance, DirectAnswer, ReturnCase, TaskFails, ReadTask, SayNext, Goes,
   Sandbox, Docker, Page, Breaks, RunAgain, Finished, vars, threadVars

LEMMA TroubleNext == ASSUME TroubleInv, StageInv, [Next]_vars PROVE TroubleInv'
<1>1. CASE setup.host # "arm" BY <1>1, SetupStays DEF TroubleInv
<1>2. CASE setup.host = "arm"
  <2>1. CASE Sandbox \/ Docker \/ Page \/ Breaks \/ Finished \/ UNCHANGED vars
    <3>1. UNCHANGED threadVars
      BY <2>1 DEF Sandbox, Docker, Page, Breaks, Finished, vars
    <3> QED BY <3>1, TroubleKept DEF threadVars, TroubleInv
  <2>2. CASE RunAgain BY <2>2, TroubleKept DEF RunAgain
  <2> QED BY <1>2, <2>1, <2>2, ThreadTrouble DEF Next
<1> QED BY <1>1, <1>2

(* What ends the case of an arm is a judgment, a sandbox that does not     *)
(* start, a refused revalidation or a hypothesis that is no choice; every  *)
(* other trouble of a python probe becomes a signal.                       *)
THEOREM TroublesAreSignals == Spec => []TroubleIsASignal
<1>1. Init => TroubleInv
  BY DEF Init, Watched, TroubleInv, TroubleIsASignal
<1>2. TroubleInv /\ StageInv /\ [Next]_vars => TroubleInv' BY TroubleNext
<1>3. StageInv /\ TroubleInv => TroubleIsASignal
  BY DEF TroubleInv, TroubleIsASignal
<1> QED BY <1>1, <1>2, <1>3, PlaceInvariance, PTL DEF Spec

-----------------------------------------------------------------------------
(* Frames, from the reading of an answer to the design of their probes.    *)

(* What framing can accept.                                                *)
FrameRecords ==
  [status: {"framed"}, kind: Kinds, relationship: Relationships,
   competition: {"exclusive", "independent"}, coverage: {"open", "exhaustive"},
   named: 1 .. 6, valued: BOOLEAN, prior: Nat, reserve: Nat]

Frames == {f \in FrameRecords : f.named \in NamedLimit(f.kind)}

(* The stages of a run that has its frame.                                 *)
FramedStages == {"design", "open", "plan", "execute", "judge", "project", "advance"}

(* What the tasks of admission and framing return is what the validators   *)
(* accepted, and a run has a decision before it has a frame.               *)
TaskFramed ==
  /\ task.name = "assess_task_admission" /\ task.result.status = "admitted" =>
       task.result \in AdmittedDecisions
  /\ task.name = "frame_open_question" /\ task.result.status = "framed" =>
       task.result \in Frames

RunFramed ==
  /\ stage = "frame" => run.framing \in AdmittedDecisions
  /\ stage \in FramedStages => run.framing \in Frames

FramingInv == TaskFramed /\ RunFramed

(* An accepted admission names its task and the relationship it permits.   *)
LEMMA AdmissionNames ==
  ASSUME NEW reading \in AdmissionReadings, reading.status = "admitted"
  PROVE  reading \in AdmittedDecisions
<1>1. PICK p \in AdmissionPayloads : reading = AdmissionReading(p)
  BY DEF AdmissionReadings
<1>2. reading = Decision(p) /\ StatusContract(p)
  BY <1>1 DEF AdmissionReading, Rejected
<1>3. p.status = "admitted" BY <1>2 DEF Decision
<1>4. p.kind \in Kinds /\ p.outline \in Relationships
  BY <1>2, <1>3 DEF StatusContract, AdmissionPayloads
<1> QED BY <1>2, <1>3, <1>4 DEF Decision, AdmittedDecisions

(* An accepted frame has as many hypotheses as its kind asks for.          *)
LEMMA FrameNames ==
  ASSUME NEW d \in AdmittedDecisions, NEW reading \in FrameReadings[d],
         reading.status = "framed"
  PROVE  reading \in Frames
<1>1. FrameReadings[d] = {FrameReading(p, d) : p \in FramePayloads}
  BY DEF FrameReadings
<1>2. PICK p \in FramePayloads : reading = FrameReading(p, d)
  BY <1>1
<1> DEFINE f == Frame(p, NativePrior(p), NativeReserve(p))
<1>3. reading = f /\ FrameAccepted(f)
  BY <1>2 DEF FrameReading, Rejected
<1>4. f.named \in NamedLimit(f.kind) BY <1>3 DEF FrameAccepted
<1>5. f.named = p.named /\ f.kind = p.kind BY DEF Frame
<1>6. p.named \in 1 .. 6 BY <1>4, <1>5 DEF NamedLimit
<1>7. NativePrior(p) \in Nat /\ NativeReserve(p) \in Nat
  BY <1>6 DEF NativePrior, NativeReserve
<1>8. f \in FrameRecords
  BY <1>6, <1>7 DEF Frame, FrameRecords, FramePayloads
<1> QED BY <1>3, <1>4, <1>8 DEF Frames

(* So has the frame of listed choices.                                     *)
LEMMA ChoicesFrame == ChoiceFrame(2) \in Frames
<1>1. ChoiceFrame(2) \in FrameRecords
  BY DEF ChoiceFrame, Frame, FrameRecords, Kinds, Relationships
<1>2. ChoiceFrame(2).named = 2 /\ ChoiceFrame(2).kind = "multiple_choice"
  BY DEF ChoiceFrame, Frame
<1> QED BY <1>1, <1>2 DEF Frames, NamedLimit

(* A model's answer becomes a result only through the validator.           *)
LEMMA ReadFramed == ASSUME FramingInv, StageInv, ReadTask PROVE TaskFramed'
<1>1. TaskStep(Readings) BY DEF ReadTask
<1>2. task \in [name: Tasks \cup {"none"}, round: {"ask", "repair"},
                repairs: {0, 1}, result: {task.result}]
  BY DEF StageInv, Shapes, TaskShape
<1>3. CASE task' = task BY <1>3 DEF FramingInv, TaskFramed
<1>4. CASE AskRepair
  <2>1. task'.name = task.name /\ task'.result = task.result
    BY <1>2, <1>4 DEF AskRepair
  <2> QED BY <2>1 DEF FramingInv, TaskFramed
<1>5. ASSUME NEW result, Settle(result), result.status \notin {"admitted", "framed"}
      PROVE  TaskFramed'
  <2>1. task'.result = result BY <1>2, <1>5 DEF Settle
  <2> QED BY <1>5, <2>1 DEF TaskFramed
<1>6. Unrepaired(task.name).status \notin {"admitted", "framed"}
  BY DEF Unrepaired, Result, Raised
<1>7. ASSUME NEW reading \in Readings, Settle(reading) PROVE TaskFramed'
  <2>1. task'.result = reading /\ task'.name = task.name BY <1>2, <1>7 DEF Settle
  <2>2. CASE task.name = "assess_task_admission"
    <3>1. reading \in AdmissionReadings BY <1>7, <2>2 DEF Readings
    <3> QED BY <2>1, <2>2, <3>1, AdmissionNames DEF TaskFramed
  <2>3. CASE task.name = "frame_open_question"
    <3>1. reading \in FrameReadings[run.framing] BY <1>7, <2>3 DEF Readings
    <3>2. stage = "frame" BY <2>3 DEF StageInv, TaskPlace
    <3>3. run.framing \in AdmittedDecisions BY <3>2 DEF FramingInv, RunFramed
    <3> QED BY <2>1, <2>3, <3>1, <3>3, FrameNames DEF TaskFramed
  <2>4. CASE task.name \notin {"assess_task_admission", "frame_open_question"}
    BY <2>1, <2>4 DEF TaskFramed
  <2> QED BY <2>2, <2>3, <2>4
<1>8. CASE ReadAnswer(Readings)
  BY <1>4, <1>5, <1>6, <1>7, <1>8 DEF ReadAnswer
<1>9. CASE GatewayRaises
  BY <1>4, <1>5, <1>6, <1>9 DEF GatewayRaises, Result, Raised
<1> QED BY <1>1, <1>3, <1>8, <1>9 DEF TaskStep

LEMMA TaskStaysFramed ==
  ASSUME FramingInv, StageInv, [Next]_vars PROVE TaskFramed'
<1>1. CASE UNCHANGED task BY <1>1 DEF FramingInv, TaskFramed
<1>2. CASE task'.result = Open BY <1>2 DEF TaskFramed, Open
<1>3. CASE ReadTask BY <1>3, ReadFramed
<1>4. CASE TaskFails \/ RunAgain
  BY <1>2, <1>4 DEF TaskFails, EndTaskFailed, RunAgain, NoTask
<1>5. CASE Thread /\ ~ReadTask /\ ~TaskFails
  BY <1>1, <1>2, <1>5, ThreadError DEF ErrorQuiet
<1>6. CASE Sandbox \/ Docker
  BY <1>1, <1>6 DEF Sandbox, SandboxStep, Docker, DockerStep, taskVars
<1>7. CASE Page \/ Breaks \/ UNCHANGED vars
  BY <1>1, <1>7 DEF Page, Breaks, vars, probeVars, taskVars
<1> QED BY <1>3, <1>4, <1>5, <1>6, <1>7 DEF Next, Finished

(* Stages follow each other, and only three kinds of step touch the frame. *)
LEMMA FrameKept ==
  ASSUME RunFramed, run'.framing = run.framing,
         stage' = "frame" => stage = "frame",
         stage' \in FramedStages => stage \in FramedStages
  PROVE  RunFramed'
BY DEF RunFramed

LEMMA FrameOver == ASSUME stage' \in {"over", "told", "admit"} PROVE RunFramed'
BY DEF RunFramed, FramedStages

LEMMA StartsFramed ==
  ASSUME RunFramed, NEW name, NEW repairs, Starts(name, repairs) PROVE RunFramed'
BY FrameKept DEF Starts, threadVars

LEMMA FailsFramed ==
  ASSUME NEW by, NEW category, NEW attempts, Fails(by, category, attempts)
  PROVE  RunFramed'
BY FrameOver DEF Fails, Goes

LEMMA CompletesFramed == ASSUME NEW said, Completes(said) PROVE RunFramed'
BY FrameOver DEF Completes, Goes

LEMMA ThreadFramed ==
  ASSUME FramingInv, StageInv, Thread PROVE RunFramed'
<1>0. RunFramed /\ run \in [cycle: 0 .. MaxCycles, framing: {run.framing},
                            pool: {run.pool}, asked: {run.asked}, signals: 0 .. 2,
                            judged: {run.judged}, condemned: {run.condemned},
                            spawned: {run.spawned}]
  BY DEF FramingInv, StageInv, Shapes, RunShape
<1>1. CASE Prepare BY <1>1, FrameOver DEF Prepare, Goes
<1>2. CASE Admit
  <2>1. ASSUME NEW decision \in AdmittedDecisions, Admitted(decision) PROVE RunFramed'
    <3>1. run'.framing = decision /\ stage' = "frame"
      BY <1>0, <2>1 DEF Admitted, Goes
    <3> QED BY <3>1 DEF RunFramed, FramedStages
  <2>2. ExplicitDecision("multiple_choice") \in AdmittedDecisions
    BY DEF ExplicitDecision, AdmittedDecisions, Kinds, Relationships
  <2>3. Takes("assess_task_admission") /\ task.result.status = "admitted" =>
          task.result \in AdmittedDecisions
    BY DEF Takes, Done, FramingInv, TaskFramed
  <2> QED
    BY <1>0, <1>2, <2>1, <2>2, <2>3, StartsFramed, FrameOver DEF Admit, Refused, Goes
<1>3. CASE FrameTask
  <2>1. ASSUME NEW frame \in Frames, Framed(frame) PROVE RunFramed'
    <3>1. run'.framing = frame /\ stage' \in {"open", "design"}
      BY <1>0, <2>1 DEF Framed, Goes
    <3> QED BY <3>1 DEF RunFramed
  <2>2. Takes("frame_open_question") /\ task.result.status = "framed" =>
          task.result \in Frames
    BY DEF Takes, Done, FramingInv, TaskFramed
  <2> QED BY <1>0, <1>3, <2>1, <2>2, ChoicesFrame, StartsFramed DEF FrameTask
<1>4. CASE DesignProbes
  <2>1. stage = "design" BY <1>4 DEF DesignProbes, At
  <2>2. ASSUME NEW candidates, NEW said, Designed(candidates, said) PROVE RunFramed'
    <3>1. CASE Completes(said) BY <3>1, CompletesFramed
    <3>2. CASE ~Completes(said)
      <4>1. run'.framing = run.framing /\ stage' = "open"
        BY <1>0, <2>2, <3>2 DEF Designed, Goes
      <4> QED BY <1>0, <2>1, <4>1, FrameKept DEF FramedStages
    <3> QED BY <3>1, <3>2
  <2> QED BY <1>0, <1>4, <2>2, StartsFramed DEF DesignProbes
<1>5. CASE OpenCycle
  <2>1. run'.framing = run.framing /\ stage = "open" /\ stage' = "plan"
    BY <1>0, <1>5 DEF OpenCycle, At, Goes
  <2> QED BY <1>0, <2>1, FrameKept DEF FramedStages
<1>6. CASE PlanProbes
  <2>1. \/ Fails("plan", "none", 0)
        \/ Completes(<<Says("probe_set_planned")>>)
        \/ run'.framing = run.framing /\ stage = "plan" /\ stage' = "execute"
    BY <1>0, <1>6 DEF PlanProbes, At, Goes
  <2> QED BY <1>0, <2>1, FrameKept, FailsFramed, CompletesFramed DEF FramedStages
<1>7. ASSUME Executed, stage = "execute" PROVE RunFramed'
  <2>1. run'.framing = run.framing /\ stage' = "judge"
    BY <1>0, <1>7 DEF Executed, Goes
  <2> QED BY <1>0, <1>7, <2>1, FrameKept DEF FramedStages
<1>8. CASE ExecuteProbe
  BY <1>0, <1>7, <1>8, StartsFramed DEF ExecuteProbe, At
<1>9. CASE ExecutePython
  <2>1. UNCHANGED threadVars => RunFramed' BY <1>0, FrameKept DEF threadVars
  <2> QED BY <1>7, <1>9, <2>1, FailsFramed DEF ExecutePython, At
<1>10. CASE JudgeSignal
  <2>1. ASSUME NEW admitted, NEW outside, Judged(admitted, outside) PROVE RunFramed'
    <3>1. run'.framing = run.framing /\ stage' = stage BY <1>0, <2>1 DEF Judged
    <3> QED BY <1>0, <3>1, FrameKept
  <2> QED BY <1>0, <1>10, <2>1, StartsFramed DEF JudgeSignal
<1>11. CASE Integrate
  <2>1. stage = "judge" BY <1>11 DEF Integrate, At
  <2>2. run.framing \in Frames BY <1>0, <2>1 DEF RunFramed, FramedStages
  <2>3. ASSUME NEW spawned, NEW expanded, Integrated(spawned, expanded) PROVE RunFramed'
    <3> DEFINE f == [run.framing EXCEPT !.named = IF expanded THEN 2 ELSE @]
    <3>1. run'.framing = f /\ stage' = "project"
      BY <1>0, <2>3 DEF Integrated, Goes
    <3>2. f \in FrameRecords BY <2>2 DEF Frames, FrameRecords
    <3>3. f.kind = run.framing.kind /\ f.named \in {2, run.framing.named}
      BY <2>2 DEF Frames, FrameRecords
    <3>4. f.named \in NamedLimit(f.kind) BY <2>2, <3>3 DEF Frames, NamedLimit
    <3>5. f \in Frames BY <3>2, <3>4 DEF Frames
    <3> HIDE DEF f
    <3> QED BY <3>1, <3>5 DEF RunFramed
  <2> QED BY <1>0, <1>11, <2>3, StartsFramed, FailsFramed DEF Integrate
<1>12. CASE ProjectAnswer
  <2>1. stage = "project" BY <1>12 DEF ProjectAnswer, At
  <2>2. Projected => RunFramed'
    BY <1>0, <2>1, FrameKept DEF Projected, Goes, FramedStages
  <2> QED BY <1>0, <1>12, <2>2, StartsFramed DEF ProjectAnswer
<1>13. CASE Advance
  <2>1. Completes(<<>>) \/ (stage = "advance" /\ stage' = "design" /\ run' = run)
    BY <1>13 DEF Advance, At, Goes
  <2> QED BY <1>0, <2>1, CompletesFramed, FrameKept DEF FramedStages
<1>14. CASE DirectAnswer
  BY <1>0, <1>14, StartsFramed, CompletesFramed, FailsFramed DEF DirectAnswer
<1>15. CASE ReturnCase BY <1>15, FrameOver DEF ReturnCase
<1>16. CASE TaskFails BY <1>16, FailsFramed DEF TaskFails
<1>17. CASE ReadTask \/ SayNext
  BY <1>0, <1>17, FrameKept DEF ReadTask, SayNext, threadVars
<1> QED
  BY <1>1, <1>2, <1>3, <1>4, <1>5, <1>6, <1>8, <1>9, <1>10, <1>11, <1>12, <1>13, <1>14,
     <1>15, <1>16, <1>17 DEF Thread

LEMMA FramingNext == ASSUME FramingInv, StageInv, [Next]_vars PROVE FramingInv'
<1>1. CASE Sandbox \/ Docker \/ Page \/ Breaks \/ Finished \/ UNCHANGED vars
  <2>1. UNCHANGED threadVars
    BY <1>1 DEF Sandbox, Docker, Page, Breaks, Finished, vars
  <2> QED BY <2>1, TaskStaysFramed, FrameKept DEF threadVars, FramingInv
<1>2. CASE RunAgain BY <1>2, TaskStaysFramed, FrameOver DEF RunAgain, FramingInv
<1>3. CASE Thread BY <1>3, TaskStaysFramed, ThreadFramed DEF FramingInv
<1> QED BY <1>1, <1>2, <1>3 DEF Next

LEMMA FramingInvariance == Spec => []FramingInv
<1>1. Init => FramingInv
  <2> SUFFICES ASSUME Init PROVE FramingInv OBVIOUS
  <2>1. task = NoTask BY DEF Init, ProbeInit, TaskInit
  <2>2. stage \in {"prepare", "admit", "direct"} BY DEF Init, Watched
  <2> QED BY <2>1, <2>2 DEF FramingInv, TaskFramed, RunFramed, FramedStages, NoTask
<1>2. FramingInv /\ StageInv /\ [Next]_vars => FramingInv' BY FramingNext
<1> QED BY <1>1, <1>2, PlaceInvariance, PTL DEF Spec

(* Two named hypotheses are enough for a first design that discriminates   *)
(* between two, which also serves every later one.                         *)
LEMMA DesignServes ==
  ASSUME NEW named \in 2 .. 6, NEW initialOpen \in BOOLEAN
  PROVE  \E reading \in DesignReadings[named][initialOpen] :
           reading # Rejected /\ reading.candidates
<1> DEFINE p == [purpose |-> "discriminate", known |-> 2, unknown |-> FALSE,
                 available |-> TRUE]
           reading == DesignReading({p}, named, initialOpen)
<1>1. p \in ProbeProposals BY DEF ProbeProposals, Purposes
<1>2. {p} \in DesignPayloads
  <2> DEFINE ones == {{x} : x \in ProbeProposals}
             twos == {{x, y} : x, y \in ProbeProposals}
             threes == {[purpose: Purposes, known: {1, 2}, unknown: {FALSE},
                         available: {TRUE}]}
  <2>1. DesignPayloads = {{}} \cup ones \cup twos \cup threes BY DEF DesignPayloads
  <2> HIDE DEF p, twos, threes
  <2>2. {p} \in ones BY <1>1
  <2> HIDE DEF ones
  <2> QED BY <2>1, <2>2
<1>3. Cardinality({p}) = 1 BY FS_Singleton
<1>4. Cardinality({p}) \in 1 .. MaxProposals BY <1>3 DEF MaxProposals
<1>5. KnownTargets(p, named) BY DEF KnownTargets
<1>6. InitialCoverage({p}, named) BY DEF InitialCoverage
<1>7. reading = [status |-> "designed", candidates |-> TRUE]
  BY <1>4, <1>5, <1>6 DEF DesignReading
<1>8. DesignReadings[named][initialOpen] =
        {DesignReading(ps, named, initialOpen) : ps \in DesignPayloads}
  BY DEF DesignReadings
<1>9. reading \in DesignReadings[named][initialOpen] BY <1>2, <1>8
<1>10. reading # Rejected /\ reading.candidates BY <1>7 DEF Rejected
<1> HIDE DEF reading
<1> QED BY <1>9, <1>10

(* A task that framing accepted can be probed, but for an exact answer     *)
(* with a single candidate.                                                *)
THEOREM FramedTasksAreProbed == Spec => []FramedCanBeProbed
<1>1. FramingInv => FramedCanBeProbed
  <2> SUFFICES ASSUME FramingInv, stage = "design",
                      ~(run.framing.kind = "exact_answer" /\ run.framing.named = 1)
               PROVE  \E reading \in DesignReadings[run.framing.named]
                               [run.cycle = 0 /\ run.framing.coverage = "open"] :
                        reading # Rejected /\ reading.candidates
    BY DEF FramedCanBeProbed
  <2>1. run.framing \in Frames BY DEF FramingInv, RunFramed, FramedStages
  <2>2. run.framing.named \in 2 .. 6 BY <2>1 DEF Frames, FrameRecords, NamedLimit
  <2>3. (run.cycle = 0 /\ run.framing.coverage = "open") \in BOOLEAN OBVIOUS
  <2> QED BY <2>2, <2>3, DesignServes
<1> QED BY <1>1, FramingInvariance, PTL

-----------------------------------------------------------------------------
(* The stage and the cycle that a failure names.                           *)

(* The events of one cycle.                                                *)
OfCycle(cycle) == {said \in Said : said.cycle = cycle}

(* The stage event is the last thing said before its stage.                *)
Announced(event, now) ==
  IF outbox = <<>> THEN emitter.stage = now ELSE outbox[Len(outbox)].event = event

StageAnnounced ==
  /\ stage \in {"prepare", "admit", "frame"} =>
       Announced("task_framing_started", "task framing")
  /\ stage = "execute" => Announced("probe_execution_started", "probe execution")
  /\ stage = "judge" => Announced("evidence_integration_started", "evidence judgment")

(* Everything said is of the cycle in hand, and once it is said the        *)
(* emitter knows the cycle, too.                                           *)
CycleAnnounced ==
  stage \notin {"over", "told"} =>
    /\ outbox \in Seq(OfCycle(run.cycle))
    /\ setup.host = "webui" /\ outbox = <<>> => emitter.cycle = run.cycle

(* What a watched run knows of the place of a failure while it has none.   *)
VoiceInv ==
  Watched =>
    /\ stage # "direct"
    /\ stage \notin {"over", "told"} => fault = NoFault
    /\ StageAnnounced /\ CycleAnnounced
    /\ FailureNamesTask

LEMMA LiveVoice ==
  ASSUME fault.by = "none" PROVE FailureNamesTask
BY DEF FailureNamesTask, Tasks, WrappingTasks

(* What the stages say as they begin.                                      *)
Announces(s, said) ==
  /\ s # "prepare"
  /\ s = "admit" => said = <<>> /\ stage = "prepare"
  /\ s = "frame" =>
       said # <<>> /\ said[Len(said)].event = "task_framing_started"
  /\ s = "execute" =>
       said # <<>> /\ said[Len(said)].event = "probe_execution_started"
  /\ s = "judge" =>
       said # <<>> /\ said[Len(said)].event = "evidence_integration_started"

LEMMA VoiceGoes ==
  ASSUME VoiceInv, Watched, outbox = <<>>, stage \notin {"over", "told"},
         NEW s, NEW said, Goes(s, said), fault' = fault, s # "direct",
         said \in Seq(OfCycle(run'.cycle)),
         said = <<>> => run'.cycle = run.cycle,
         Announces(s, said)
  PROVE  VoiceInv'
<1>1. outbox' = said /\ stage' = s /\ setup' = setup /\ emitter' = emitter
  BY DEF Goes, sayRest
<1>2. fault' = NoFault BY DEF VoiceInv
<1>3. FailureNamesTask' BY <1>2, LiveVoice DEF NoFault, FailureNamesTask, Tasks, WrappingTasks
<1>4. CycleAnnounced'
  BY <1>1 DEF VoiceInv, CycleAnnounced
<1>5. StageAnnounced'
  BY <1>1 DEF VoiceInv, StageAnnounced, Announced, Announces
<1> QED BY <1>1, <1>2, <1>3, <1>4, <1>5 DEF VoiceInv

(* The run is over, and no task is to blame.                               *)
LEMMA VoiceOver ==
  ASSUME VoiceInv, stage \notin {"over", "told"}, stage' = "over", fault' = fault,
         setup' = setup
  PROVE  VoiceInv'
<1>1. Watched => fault' = NoFault BY DEF VoiceInv
<1>2. Watched => FailureNamesTask'
  BY <1>1 DEF NoFault, FailureNamesTask, Tasks, WrappingTasks
<1>3. StageAnnounced' /\ CycleAnnounced' BY DEF StageAnnounced, CycleAnnounced
<1> QED BY <1>2, <1>3 DEF VoiceInv, Watched

LEMMA VoiceFails ==
  ASSUME VoiceInv, Watched, outbox = <<>>, stage \notin {"over", "told"},
         NEW by, NEW category, NEW attempts, Fails(by, category, attempts),
         ModelHost /\ by \in Tasks => FailureStage(by) = StageOf(by)
  PROVE  VoiceInv'
<1> DEFINE s == FailureStage(by)
<1>1. /\ fault'.by = by /\ fault'.stage = s /\ stage' = "over" /\ run' = run
      /\ setup' = setup
  BY DEF Fails, Goes
<1>2. outbox' = EndSaid("failed", Failure(s), s) BY DEF Fails, Goes
<1>3. ModelHost' = ModelHost BY <1>1 DEF ModelHost, Watched
<1>4. ASSUME NEW i \in DOMAIN outbox', outbox'[i].event = "run_failed"
      PROVE  outbox'[i].cycle = run.cycle
  <2>1. CASE setup.host = "json"
    <3>1. outbox' = <<Response("failed", s)>> BY <1>2, <2>1 DEF EndSaid
    <3> QED BY <1>4, <3>1 DEF Response
  <2>2. CASE setup.host = "webui"
    <3>1. outbox' = <<Failure(s)>> BY <1>2, <2>2 DEF EndSaid
    <3>2. Failure(s).cycle = emitter.cycle BY DEF Failure
    <3>3. emitter.cycle = run.cycle BY <2>2 DEF VoiceInv, CycleAnnounced
    <3> QED BY <1>4, <3>1, <3>2, <3>3
  <2> QED BY <2>1, <2>2 DEF Watched
<1>5. FailureNamesTask' BY <1>1, <1>3, <1>4 DEF FailureNamesTask
<1>6. StageAnnounced' /\ CycleAnnounced' BY <1>1 DEF StageAnnounced, CycleAnnounced
<1> QED BY <1>1, <1>5, <1>6 DEF VoiceInv, Watched

LEMMA VoiceCompletes ==
  ASSUME VoiceInv, Watched, stage \notin {"over", "told"}, NEW said, Completes(said)
  PROVE  VoiceInv'
BY VoiceOver DEF Completes, Goes, Watched

(* Nothing is said, and the stage and its cycle stay.                      *)
LEMMA VoiceStays ==
  ASSUME VoiceInv, UNCHANGED <<setup, stage, fault, outbox, emitter>>,
         run'.cycle = run.cycle
  PROVE  VoiceInv'
BY DEF VoiceInv, Watched, ModelHost, StageAnnounced, CycleAnnounced, Announced,
       FailureNamesTask

LEMMA VoiceStarts ==
  ASSUME VoiceInv, NEW name, NEW repairs, Starts(name, repairs) PROVE VoiceInv'
BY VoiceStays DEF Starts, threadVars, streamVars

(* Progress is of the cycle in hand.                                       *)
LEMMA SaysOfCycle ==
  ASSUME StageInv
  PROVE  /\ \A event \in Events, cycle \in Nat :
              Progress(event, cycle) \in OfCycle(cycle)
         /\ \A event \in Events : Says(event) \in OfCycle(run.cycle)
<1>1. run.cycle \in Nat BY DEF StageInv, Shapes, RunShape
<1> QED BY <1>1 DEF OfCycle, Says, Progress, Said, FailureStages

(* A model task that fails a watched run names its own stage, or that of   *)
(* the last progress.                                                      *)
LEMMA VoiceOfTask ==
  ASSUME VoiceInv, StageInv, Watched, TaskFails PROVE VoiceInv'
<1>1. outbox = <<>> /\ ~TaskIdle BY DEF TaskFails
<1>2. stage \notin {"over", "told"} BY <1>1, TasksOfStage
<1>3. task.name \in Tasks
  BY <1>1 DEF StageInv, Shapes, TaskShape, TaskIdle
<1>4. StageAnnounced /\ stage # "direct" BY DEF VoiceInv
<1>5. setup.host # "arm" /\ probe.step = "idle"
  BY DEF Watched, StageInv, StagePlace, ProbePlace
<1>6. /\ task.name \in {"assess_task_admission", "frame_open_question"} =>
           emitter.stage = "task framing"
      /\ task.name = "execute_probe" => emitter.stage = "probe execution"
      /\ task.name = "judge_evidence" => emitter.stage = "evidence judgment"
      /\ task.name \notin {"plan_python_probe", "repair_python_probe_code",
                           "answer_multiple_choice"}
  BY <1>1, <1>4, <1>5 DEF StageAnnounced, Announced, StageInv, TaskPlace
<1>7. ModelHost => FailureStage(task.name) = StageOf(task.name)
  BY <1>3, <1>6 DEF ModelHost, FailureStage, StageOf, Tasks, WrappingTasks
<1>8. \E category, attempts : Fails(task.name, category, attempts) BY DEF TaskFails
<1> QED BY <1>1, <1>2, <1>7, <1>8, VoiceFails

LEMMA AdmitVoice == ASSUME VoiceInv, StageInv, Watched, Admit PROVE VoiceInv'
<1>1. outbox = <<>> /\ stage = "admit" /\ run.cycle = 0
  BY DEF Admit, At, StageInv, StagePlace, RunPlace
<1>2. ASSUME NEW decision, Admitted(decision) PROVE VoiceInv'
  <2> DEFINE said == <<Progress("run_started", 0), Progress("task_framing_started", 0)>>
  <2>1. run'.cycle = 0 BY <1>1, <1>2 DEF Admitted, StageInv, Shapes, RunShape
  <2>2. said \in Seq(OfCycle(0))
    <3>1. "run_started" \in Events /\ "task_framing_started" \in Events BY DEF Events
    <3> QED BY <3>1, SaysOfCycle
  <2>3. said # <<>> /\ said[Len(said)].event = "task_framing_started" BY DEF Progress
  <2>4. Goes("frame", said) /\ fault' = fault BY <1>2 DEF Admitted
  <2> HIDE DEF said
  <2> QED BY <1>1, <2>1, <2>2, <2>3, <2>4, VoiceGoes DEF Announces
<1>3. CASE Refused BY <1>1, <1>3, VoiceOver DEF Refused, Goes
<1> QED BY <1>2, <1>3, VoiceStarts DEF Admit

LEMMA FrameVoice == ASSUME VoiceInv, StageInv, Watched, FrameTask PROVE VoiceInv'
<1>1. outbox = <<>> /\ stage = "frame" BY DEF FrameTask, At
<1>2. ASSUME NEW frame, Framed(frame) PROVE VoiceInv'
  <2> DEFINE said == <<Says("task_framing_completed"), Says("initialization_completed")>>
             more == Append(said, Says("probe_design_started"))
  <2>1. run'.cycle = run.cycle BY <1>2 DEF Framed, StageInv, Shapes, RunShape
  <2>2. /\ Says("task_framing_completed") \in OfCycle(run.cycle)
        /\ Says("initialization_completed") \in OfCycle(run.cycle)
        /\ Says("probe_design_started") \in OfCycle(run.cycle)
    BY SaysOfCycle DEF Events
  <2>3. said \in Seq(OfCycle(run.cycle)) BY <2>2
  <2>4. \/ Goes("open", said) \/ Goes("design", more) BY <1>2 DEF Framed
  <2>5. fault' = fault BY <1>2 DEF Framed
  <2> HIDE DEF said
  <2>6. more \in Seq(OfCycle(run.cycle)) BY <2>2, <2>3, AppendProperties
  <2> HIDE DEF more
  <2> QED BY <1>1, <2>1, <2>3, <2>4, <2>5, <2>6, VoiceGoes DEF Announces
<1> QED BY <1>2, VoiceStarts DEF FrameTask

LEMMA DesignVoice == ASSUME VoiceInv, StageInv, Watched, DesignProbes PROVE VoiceInv'
<1>1. outbox = <<>> /\ stage = "design" BY DEF DesignProbes, At
<1> DEFINE said == <<Says("probe_design_completed")>>
<1>2. said \in Seq(OfCycle(run.cycle)) BY SaysOfCycle DEF Events
<1>3. ASSUME NEW candidates, Designed(candidates, said) PROVE VoiceInv'
  <2>1. \/ Completes(said)
        \/ Goes("open", said) /\ fault' = fault /\ run'.cycle = run.cycle
    BY <1>3 DEF Designed, StageInv, Shapes, RunShape
  <2> HIDE DEF said
  <2> QED BY <1>1, <1>2, <2>1, VoiceGoes, VoiceCompletes DEF Announces
<1> QED BY <1>3, VoiceStarts DEF DesignProbes

LEMMA OpenVoice == ASSUME VoiceInv, StageInv, Watched, OpenCycle PROVE VoiceInv'
<1> DEFINE said == <<Progress("cycle_started", run.cycle + 1)>>
<1>1. outbox = <<>> /\ stage = "open" BY DEF OpenCycle, At
<1>2. run'.cycle = run.cycle + 1 /\ run.cycle + 1 \in Nat
  BY DEF OpenCycle, StageInv, Shapes, RunShape
<1>3. said \in Seq(OfCycle(run.cycle + 1)) /\ said # <<>>
  BY <1>2, SaysOfCycle DEF Events
<1>4. Goes("plan", said) /\ fault' = fault BY DEF OpenCycle
<1> HIDE DEF said
<1> QED BY <1>1, <1>2, <1>3, <1>4, VoiceGoes DEF Announces

LEMMA PlanVoice == ASSUME VoiceInv, StageInv, Watched, PlanProbes PROVE VoiceInv'
<1>1. outbox = <<>> /\ stage = "plan" BY DEF PlanProbes, At
<1> DEFINE planned == <<Says("probe_set_planned"), Says("probe_execution_started")>>
<1>2. planned \in Seq(OfCycle(run.cycle)) BY SaysOfCycle DEF Events
<1>3. planned # <<>> /\ planned[Len(planned)].event = "probe_execution_started"
  BY DEF Says, Progress
<1>4. \/ Goes("execute", planned) /\ fault' = fault /\ run'.cycle = run.cycle
      \/ Fails("plan", "none", 0)
      \/ Completes(<<Says("probe_set_planned")>>)
  BY DEF PlanProbes, StageInv, Shapes, RunShape
<1>5. "plan" \notin Tasks BY DEF Tasks, WrappingTasks
<1> HIDE DEF planned
<1> QED
  BY <1>1, <1>2, <1>3, <1>4, <1>5, VoiceGoes, VoiceFails, VoiceCompletes DEF Announces

LEMMA ExecutedVoice ==
  ASSUME VoiceInv, StageInv, Watched, outbox = <<>>, stage = "execute", Executed
  PROVE  VoiceInv'
<1> DEFINE said == <<Says("signals_collected"), Says("evidence_integration_started")>>
<1>1. said \in Seq(OfCycle(run.cycle)) BY SaysOfCycle DEF Events
<1>2. said # <<>> /\ said[Len(said)].event = "evidence_integration_started"
  BY DEF Says, Progress
<1>3. Goes("judge", said) /\ fault' = fault /\ run'.cycle = run.cycle
  BY DEF Executed, StageInv, Shapes, RunShape
<1> HIDE DEF said
<1> QED BY <1>1, <1>2, <1>3, VoiceGoes DEF Announces

LEMMA IntegrateVoice == ASSUME VoiceInv, StageInv, Watched, Integrate PROVE VoiceInv'
<1>1. outbox = <<>> /\ stage = "judge" BY DEF Integrate, At
<1>2. ASSUME NEW spawned, NEW expanded, Integrated(spawned, expanded) PROVE VoiceInv'
  <2> DEFINE C == OfCycle(run.cycle)
             first == <<Says("frame_adequacy_assessed")>>
             new == IF spawned THEN <<Says("hypothesis_expansion_completed")>> ELSE <<>>
             last == <<Says("answer_projection_started")>>
             said == first \o new \o last
  <2>1. first \in Seq(C) /\ last \in Seq(C) BY SaysOfCycle DEF Events
  <2>2. new \in Seq(C)
    <3>1. <<Says("hypothesis_expansion_completed")>> \in Seq(C)
      BY SaysOfCycle DEF Events
    <3>2. <<>> \in Seq(C) OBVIOUS
    <3> HIDE DEF C
    <3> QED BY <3>1, <3>2
  <2>3. Goes("project", said) /\ fault' = fault BY <1>2 DEF Integrated
  <2>4. run'.cycle = run.cycle BY <1>2 DEF Integrated, StageInv, Shapes, RunShape
  <2> HIDE DEF C, first, new, last
  <2>5. first \o new \in Seq(C) BY <2>1, <2>2, ConcatProperties
  <2>6. said \in Seq(C) BY <2>1, <2>5, ConcatProperties
  <2> HIDE DEF said
  <2> QED BY <1>1, <2>3, <2>4, <2>6, VoiceGoes DEF Announces, C
<1>3. "integrate" \notin Tasks BY DEF Tasks, WrappingTasks
<1>4. ModelHost => FailureStage("expand_hypotheses") = StageOf("expand_hypotheses")
  BY DEF ModelHost, FailureStage, StageOf
<1> QED BY <1>1, <1>2, <1>3, <1>4, VoiceStarts, VoiceFails DEF Integrate

LEMMA ProjectVoice == ASSUME VoiceInv, StageInv, Watched, ProjectAnswer PROVE VoiceInv'
<1>1. outbox = <<>> /\ stage = "project" BY DEF ProjectAnswer, At
<1>2. ASSUME Projected PROVE VoiceInv'
  <2> DEFINE said == <<Says("answer_projection_completed"), Says("cycle_integrated")>>
  <2>1. said \in Seq(OfCycle(run.cycle)) BY SaysOfCycle DEF Events
  <2>2. Goes("advance", said) /\ fault' = fault /\ run' = run BY <1>2 DEF Projected
  <2> HIDE DEF said
  <2> QED BY <1>1, <2>1, <2>2, VoiceGoes DEF Announces
<1> QED BY <1>2, VoiceStarts DEF ProjectAnswer

LEMMA AdvanceVoice == ASSUME VoiceInv, StageInv, Watched, Advance PROVE VoiceInv'
<1>1. outbox = <<>> /\ stage = "advance" BY DEF Advance, At
<1> DEFINE said == <<Says("probe_design_started")>>
<1>2. said \in Seq(OfCycle(run.cycle)) BY SaysOfCycle DEF Events
<1>3. Completes(<<>>) \/ (Goes("design", said) /\ fault' = fault /\ run' = run)
  BY DEF Advance
<1> HIDE DEF said
<1> QED BY <1>1, <1>2, <1>3, VoiceGoes, VoiceCompletes DEF Announces

(* The next event leaves the outbox, and the emitter takes its stage and   *)
(* its cycle.                                                              *)
LEMMA SayVoice ==
  ASSUME VoiceInv, SaidInv, Watched, SayNext PROVE VoiceInv'
<1> DEFINE rest == Tail(outbox)
<1>1. outbox # <<>> /\ outbox' = rest /\ UNCHANGED threadVars
  BY DEF SayNext, Track, Emit
<1>2. /\ Len(outbox) \in Nat \ {0} /\ DOMAIN outbox = 1 .. Len(outbox)
      /\ Head(outbox) = outbox[1]
      /\ Len(rest) = Len(outbox) - 1 /\ DOMAIN rest = 1 .. (Len(outbox) - 1)
      /\ \A i \in 1 .. (Len(outbox) - 1) : rest[i] = outbox[i + 1] /\ i + 1 \in DOMAIN outbox
      /\ Len(outbox) = 1 => rest = <<>>
  BY <1>1, Lines DEF SaidInv, StreamType
<1> HIDE DEF rest
<1>3. rest = <<>> => Len(outbox) = 1
  <2>1. rest = <<>> => Len(rest) = 0 OBVIOUS
  <2>2. Len(outbox) \in Nat /\ Len(rest) = Len(outbox) - 1 BY <1>2
  <2> QED BY <2>1, <2>2
<1>4. Head(outbox).event # "response" =>
        emitter'.stage = FailureStageAfter(Head(outbox).event)
  <2>1. CASE setup.host = "json"
    <3> DEFINE now == FailureStageAfter(Head(outbox).event)
    <3>1. Head(outbox).event # "response" => emitter' = [emitter EXCEPT !.stage = now]
      BY <2>1 DEF SayNext, Track
    <3> HIDE DEF now
    <3>2. [emitter EXCEPT !.stage = now].stage = now BY DEF SaidInv, StreamType
    <3> QED BY <3>1, <3>2 DEF now
  <2>2. CASE setup.host # "json"
    <3>1. Emit BY <2>2 DEF SayNext
    <3> QED BY <3>1 DEF Emit
  <2> QED BY <2>1, <2>2
<1>5. setup.host = "webui" => emitter'.cycle = Head(outbox).cycle
  BY DEF SayNext, Emit
<1>6. FailureNamesTask'
  <2>1. FailureNamesTask BY DEF VoiceInv
  <2>2. (\A i \in DOMAIN outbox : outbox[i].event = "run_failed" =>
           outbox[i].cycle = run.cycle)
        => \A i \in DOMAIN rest : rest[i].event = "run_failed" =>
             rest[i].cycle = run.cycle
    BY <1>2
  <2> QED BY <1>1, <2>1, <2>2 DEF FailureNamesTask, ModelHost, Watched, threadVars
<1>7. ASSUME NEW event \in {"task_framing_started", "probe_execution_started",
                            "evidence_integration_started"}, NEW now,
             Announced(event, now), FailureStageAfter(event) = now
      PROVE  Announced(event, now)'
  <2>1. outbox[Len(outbox)].event = event BY <1>1, <1>7 DEF Announced
  <2>2. CASE rest = <<>>
    <3>1. Head(outbox).event = event BY <1>2, <1>3, <2>1, <2>2
    <3> QED BY <1>1, <1>4, <1>7, <2>2, <3>1 DEF Announced
  <2>3. CASE rest # <<>>
    <3>1. Len(outbox) # 1 BY <1>2, <2>3
    <3>2. Len(rest) \in 1 .. (Len(outbox) - 1) BY <1>2, <3>1
    <3>3. rest[Len(rest)] = outbox[Len(outbox)] BY <1>2, <3>2
    <3> QED BY <1>1, <2>1, <2>3, <3>3 DEF Announced
  <2> QED BY <2>2, <2>3
<1>8. StageAnnounced'
  <2>1. /\ FailureStageAfter("task_framing_started") = "task framing"
        /\ FailureStageAfter("probe_execution_started") = "probe execution"
        /\ FailureStageAfter("evidence_integration_started") = "evidence judgment"
    BY DEF FailureStageAfter
  <2> QED BY <1>1, <1>7, <2>1 DEF VoiceInv, StageAnnounced, threadVars
<1>9. CycleAnnounced'
  <2> SUFFICES ASSUME stage \notin {"over", "told"} PROVE CycleAnnounced'
    BY <1>1 DEF CycleAnnounced, threadVars
  <2> DEFINE C == OfCycle(run.cycle)
  <2>1. outbox \in Seq(C) BY DEF VoiceInv, CycleAnnounced
  <2>2. rest \in Seq(C) /\ Head(outbox) \in C
    <3> HIDE DEF C
    <3> QED BY <1>1, <2>1, Lines DEF rest
  <2>3. Head(outbox).cycle = run.cycle BY <2>2 DEF OfCycle
  <2>4. setup.host = "webui" => emitter'.cycle = run.cycle BY <1>5, <2>3
  <2>5. run' = run /\ setup' = setup /\ outbox' = rest BY <1>1 DEF threadVars
  <2> HIDE DEF rest
  <2> QED BY <2>2, <2>4, <2>5 DEF CycleAnnounced
<1> QED BY <1>1, <1>6, <1>8, <1>9 DEF VoiceInv, Watched, threadVars

LEMMA ThreadVoice ==
  ASSUME VoiceInv, StageInv, SaidInv, Watched, Thread PROVE VoiceInv'
<1>1. CASE Prepare
  <2>1. outbox = <<>> /\ stage = "prepare" /\ run' = run /\ fault' = fault
    BY <1>1 DEF Prepare, At
  <2>2. CASE Goes("over", <<Response("rejected", "none")>>)
    BY <2>1, <2>2, VoiceOver DEF Goes
  <2>3. CASE Goes("admit", <<>>)
    <3>1. <<>> \in Seq(OfCycle(run.cycle)) OBVIOUS
    <3> QED BY <2>1, <2>3, <3>1, VoiceGoes DEF Announces
  <2> QED BY <1>1, <2>2, <2>3 DEF Prepare
<1>2. CASE ExecuteProbe
  BY <1>2, ExecutedVoice, VoiceStarts DEF ExecuteProbe, At
<1>3. CASE JudgeSignal
  <2>1. ASSUME NEW admitted, NEW outside, Judged(admitted, outside) PROVE VoiceInv'
    <3>1. run'.cycle = run.cycle BY <2>1 DEF Judged, StageInv, Shapes, RunShape
    <3> QED BY <2>1, <3>1, VoiceStays DEF Judged, streamVars
  <2> QED BY <1>3, <2>1, VoiceStarts DEF JudgeSignal
<1>4. CASE TaskFails BY <1>4, VoiceOfTask
<1>5. CASE ReadTask BY <1>5, VoiceStays DEF ReadTask, threadVars, streamVars
<1>6. CASE SayNext BY <1>6, SayVoice
<1>7. ~ExecutePython /\ ~DirectAnswer /\ ~ReturnCase
  BY DEF ExecutePython, DirectAnswer, ReturnCase, At, VoiceInv, Watched
<1> QED
  BY <1>1, <1>2, <1>3, <1>4, <1>5, <1>6, <1>7, AdmitVoice, FrameVoice, DesignVoice,
     OpenVoice, PlanVoice, IntegrateVoice, ProjectVoice, AdvanceVoice DEF Thread

LEMMA VoiceNext ==
  ASSUME VoiceInv, StageInv, SaidInv, [Next]_vars PROVE VoiceInv'
<1>1. CASE ~Watched BY <1>1, SetupStays DEF VoiceInv, Watched
<1>2. CASE Watched
  <2>1. CASE Sandbox \/ Docker \/ Page \/ Breaks \/ Finished \/ UNCHANGED vars
    <3>1. UNCHANGED <<threadVars, outbox, emitter>>
      BY <2>1 DEF Sandbox, Docker, Page, PageStep, ReadLine, ReadEnd, ReadFails, Breaks,
         LinkBreaks, Finished, vars, streamVars
    <3> QED BY <3>1, VoiceStays DEF threadVars
  <2>2. ~RunAgain
    BY <1>2 DEF RunAgain, Watched, StageInv, StagePlace, ProbePlace
  <2> QED BY <1>2, <2>1, <2>2, ThreadVoice DEF Next
<1> QED BY <1>1, <1>2

LEMMA VoiceInvariance == Spec => []VoiceInv
<1>1. Init => VoiceInv
  <2> SUFFICES ASSUME Init, Watched PROVE VoiceInv BY DEF VoiceInv
  <2>1. run = NewRun /\ NewRun.cycle = 0 BY DEF Init, NewRun
  <2>2. stage = "prepare" /\ fault = NoFault /\ outbox = <<>> /\ run.cycle = 0
    BY <2>1 DEF Init, StreamInit, Watched
  <2>3. emitter.stage = "task framing" /\ emitter.cycle = 0 BY DEF Init, StreamInit
  <2>4. StageAnnounced BY <2>2, <2>3 DEF StageAnnounced, Announced
  <2>5. CycleAnnounced
    <3>1. outbox \in Seq(OfCycle(run.cycle)) BY <2>2
    <3> QED BY <2>2, <2>3, <3>1 DEF CycleAnnounced
  <2>6. FailureNamesTask BY <2>2, LiveVoice DEF NoFault
  <2> QED BY <2>2, <2>4, <2>5, <2>6 DEF VoiceInv
<1>2. VoiceInv /\ StageInv /\ SaidInv /\ [Next]_vars => VoiceInv' BY VoiceNext
<1> QED BY <1>1, <1>2, PlaceInvariance, SaidInvariance, PTL DEF Spec

(* What the page is told of a failed model task is the stage and the cycle *)
(* it failed in, though the emitter knows only what progress said before.  *)
THEOREM FailuresNameTheirTask == Spec => []FailureNamesTask
<1>1. VoiceInv => FailureNamesTask BY DEF VoiceInv, FailureNamesTask, ModelHost
<1> QED BY <1>1, VoiceInvariance, PTL

-----------------------------------------------------------------------------
(* The verdict of the page.                                                *)

(* What became of the run, by the event that ends it.                      *)
OutcomeOf(said) ==
  CASE said.event = "run_completed" -> "completed"
    [] said.event = "run_failed" -> "failed"
    [] said.event = "task_admission_completed" -> "refused"
    [] said.event = "response" -> said.outcome

(* Lines say no later beginning of the run, and no hypotheses before their *)
(* frame.                                                                  *)
Framing(said) == said.event = "task_framing_completed"
Beliefs(said) == said.event = "initialization_completed"
Beginning(said) == said.event = "run_started"

FramingSent == page.framed \/ \E j \in DOMAIN wire : Framing(wire[j].said)

StartsOnce ==
  /\ stage \in {"prepare", "admit"} => outbox = <<>> /\ emitter.sequence = 0
  /\ \A i \in DOMAIN outbox : Beginning(outbox[i]) => i = 1 /\ emitter.sequence = 0
  /\ \A i \in DOMAIN wire : Beginning(wire[i].said) => wire[i].sequence = 1
  /\ page.framed => page.read > 0

FrameFirst ==
  /\ \A i \in DOMAIN wire : Beliefs(wire[i].said) =>
       page.framed \/ \E j \in 1 .. (i - 1) : Framing(wire[j].said)
  /\ \A i \in DOMAIN outbox : Beliefs(outbox[i]) =>
       IF i = 1 THEN link = "gone" \/ FramingSent ELSE Framing(outbox[i - 1])

OrderInv == setup.host = "webui" => StartsOnce /\ FrameFirst

(* The end on its way is the outcome of the run, and while the connection  *)
(* stands it is not lost.                                                  *)
VerdictInv ==
  /\ outcome = "running" <=> stage \notin {"over", "told"}
  /\ Watched => stage # "told"
  /\ \A i \in DOMAIN outbox : EndsRun(outbox[i]) =>
       /\ OutcomeOf(outbox[i]) = outcome
       /\ setup.host = "json" => outbox[i].event = "response"
  /\ \A i \in DOMAIN wire : EndsRun(wire[i].said) => OutcomeOf(wire[i].said) = outcome
  /\ page.terminal \in {"none", outcome}
  /\ Watched /\ stage = "over" /\ link = "up" =>
       EndSeen \/ \E i \in DOMAIN outbox : EndsRun(outbox[i])

-----------------------------------------------------------------------------
(* What the thread says.                                                   *)

(* Progress that comes in any order, and the end of a run with outcome o.  *)
Tells(o) ==
  {said \in Said :
     /\ ~Beginning(said) /\ ~Beliefs(said)
     /\ EndsRun(said) => /\ OutcomeOf(said) = o
                         /\ setup.host = "json" => said.event = "response"}

(* Events said in their order, as a run goes on from stage s.              *)
Ordered(said, s, o) ==
  \A i \in DOMAIN said :
    /\ EndsRun(said[i]) => /\ OutcomeOf(said[i]) = o
                           /\ setup.host = "json" => said[i].event = "response"
    /\ Beginning(said[i]) => i = 1 /\ s = "admit"
    /\ Beliefs(said[i]) => i > 1 /\ Framing(said[i - 1])

(* A step of the thread that goes on and says what comes next.             *)
Delivers ==
  /\ UNCHANGED <<setup, sayRest>>
  /\ outbox = <<>> /\ stage \notin {"over", "told"}
  /\ stage' \notin {"prepare", "told"}
  /\ stage' = "admit" => stage = "prepare" /\ outbox' = <<>>
  /\ outcome' = "running" <=> stage' # "over"
  /\ outcome' \in {"running"} \cup Terminal
  /\ Ordered(outbox', stage, outcome')
  /\ Watched /\ stage' = "over" => \E i \in DOMAIN outbox' : EndsRun(outbox'[i])

LEMMA TellsOrdered ==
  ASSUME NEW o, NEW s, NEW said \in Seq(Tells(o)) PROVE Ordered(said, s, o)
<1>1. \A i \in DOMAIN said : said[i] \in Tells(o)
  <2> DEFINE T == Tells(o)
  <2> HIDE DEF T
  <2>1. \A i \in DOMAIN said : said[i] \in T BY ElementOfSeq, LenProperties DEF T
  <2> QED BY <2>1 DEF T
<1> QED BY <1>1 DEF Ordered, Tells

LEMMA ProgressTells ==
  ASSUME NEW event \in Events \ {"run_started", "initialization_completed"},
         NEW cycle \in Nat, NEW o
  PROVE  Progress(event, cycle) \in Tells(o)
<1>1. Progress(event, cycle) \in Said /\ ~EndsRun(Progress(event, cycle))
  BY ProgressIsSaid
<1> QED BY <1>1 DEF Tells, Beginning, Beliefs, Progress

LEMMA GoesDelivers ==
  ASSUME VerdictInv, outbox = <<>>, stage \notin {"over", "told"},
         NEW s, s \notin {"over", "told", "prepare"}, NEW said, Goes(s, said),
         outcome' = outcome,
         s = "admit" => stage = "prepare" /\ said = <<>>,
         Ordered(said, stage, "running")
  PROVE  Delivers
<1>1. outcome = "running" BY DEF VerdictInv
<1>2. stage' = s /\ outbox' \in {said, <<>>} /\ UNCHANGED <<setup, sayRest>>
  BY DEF Goes
<1>3. Ordered(<<>>, stage, "running") BY DEF Ordered
<1> QED BY <1>1, <1>2, <1>3 DEF Delivers

LEMMA EndDelivers ==
  ASSUME outbox = <<>>, stage \notin {"over", "told"},
         NEW o \in Terminal, outcome' = o, NEW said, Goes("over", said),
         Watched => Ordered(said, stage, o) /\ \E i \in DOMAIN said : EndsRun(said[i])
  PROVE  Delivers
<1>1. stage' = "over" /\ outbox' = (IF Watched THEN said ELSE <<>>)
        /\ UNCHANGED <<setup, sayRest>>
  BY DEF Goes
<1>2. Ordered(<<>>, stage, o) BY DEF Ordered
<1>3. o # "running" /\ "over" \notin {"prepare", "told", "admit"} BY DEF Terminal
<1> QED BY <1>1, <1>2, <1>3 DEF Delivers

(* The last thing said of a run that is over.                              *)
LEMMA EndTells ==
  ASSUME NEW o \in Terminal, NEW event \in Said, NEW s \in FailureStages,
         EndsRun(event), OutcomeOf(event) = o, ~Beginning(event), ~Beliefs(event),
         event.event # "response"
  PROVE  \E end \in Tells(o) : EndSaid(o, event, s) = <<end>> /\ EndsRun(end)
<1>1. CASE setup.host = "json"
  <2> DEFINE end == Response(o, s)
  <2>1. end \in Said BY DEF Response, Said
  <2>2. end.event = "response" /\ OutcomeOf(end) = o BY DEF Response, OutcomeOf
  <2>3. end \in Tells(o) /\ EndsRun(end)
    BY <2>1, <2>2 DEF Tells, EndsRun, Beginning, Beliefs
  <2>4. EndSaid(o, event, s) = <<end>> BY <1>1 DEF EndSaid
  <2> HIDE DEF end
  <2> QED BY <2>3, <2>4
<1>2. CASE setup.host # "json"
  <2>1. event \in Tells(o) BY <1>2 DEF Tells
  <2> QED BY <1>2, <2>1 DEF EndSaid
<1> QED BY <1>1, <1>2

LEMMA LastDelivers ==
  ASSUME outbox = <<>>, stage \notin {"over", "told"},
         NEW o \in Terminal, outcome' = o \/ (~Watched /\ outcome' \in Terminal),
         NEW said \in Seq(Tells(o)), NEW end \in Tells(o), EndsRun(end),
         Goes("over", said \o <<end>>)
  PROVE  Delivers
<1> DEFINE T == Tells(o)
           all == said \o <<end>>
<1>1. <<end>> \in Seq(T) /\ Len(<<end>>) = 1 /\ <<end>>[1] = end OBVIOUS
<1>2. Len(said) \in Nat BY LenProperties
<1>3. /\ all \in Seq(T) /\ Len(all) = Len(said) + 1
      /\ all[Len(said) + 1] = end
  <2> HIDE DEF T
  <2>1. said \in Seq(T) BY DEF T
  <2>2. all \in Seq(T) /\ Len(all) = Len(said) + Len(<<end>>)
          /\ \A i \in 1 .. Len(said) + Len(<<end>>) : all[i] =
               IF i <= Len(said) THEN said[i] ELSE <<end>>[i - Len(said)]
    BY <1>1, <2>1, ConcatProperties
  <2>3. Len(said) + 1 \in 1 .. Len(said) + 1 /\ ~(Len(said) + 1 <= Len(said))
          /\ Len(said) + 1 - Len(said) = 1
    BY <1>2
  <2> QED BY <1>1, <2>2, <2>3
<1>4. Len(said) + 1 \in DOMAIN all
  <2> HIDE DEF all, T
  <2>1. DOMAIN all = 1 .. Len(all) BY <1>3, LenProperties
  <2> QED BY <1>2, <1>3, <2>1
<1>5. Ordered(all, stage, o) BY <1>3, TellsOrdered
<1>6. \E i \in DOMAIN all : EndsRun(all[i]) BY <1>3, <1>4
<1>7. Goes("over", all) OBVIOUS
<1> HIDE DEF all
<1> QED BY <1>5, <1>6, <1>7, EndDelivers

LEMMA FailsDelivers ==
  ASSUME SaidInv, StageInv, outbox = <<>>, stage \notin {"over", "told"},
         NEW by, NEW category, NEW attempts, Fails(by, category, attempts)
  PROVE  Delivers
<1> DEFINE s == FailureStage(by)
           said == EndSaid("failed", Failure(s), s)
<1>1. Goes("over", said) /\ outcome' = "failed" BY DEF Fails
<1>2. s \in FailureStages /\ Failure(s) \in Said BY EndEvents
<1>3. /\ EndsRun(Failure(s)) /\ OutcomeOf(Failure(s)) = "failed"
      /\ ~Beginning(Failure(s)) /\ ~Beliefs(Failure(s))
      /\ Failure(s).event # "response"
  BY DEF Failure, EndsRun, OutcomeOf, Beginning, Beliefs
<1>4. PICK end \in Tells("failed") : said = <<end>> /\ EndsRun(end)
  BY <1>2, <1>3, EndTells DEF Terminal
<1>5. <<end>> = <<>> \o <<end>> /\ <<>> \in Seq(Tells("failed")) OBVIOUS
<1>6. Goes("over", <<>> \o <<end>>) BY <1>1, <1>4, <1>5
<1> HIDE DEF said
<1> QED BY <1>1, <1>4, <1>5, <1>6, LastDelivers DEF Terminal

LEMMA CompletesDelivers ==
  ASSUME SaidInv, StageInv, outbox = <<>>, stage \notin {"over", "told"},
         NEW said \in Seq(Tells("completed")), Completes(said)
  PROVE  Delivers
<1> DEFINE event == Says("run_completed")
<1>1. Goes("over", said \o EndSaid("completed", event, "none")) BY DEF Completes
<1>2. \/ outcome' = "completed"
      \/ ~Watched /\ outcome' = "failed"
  BY DEF Completes, Watched
<1>3. event \in Said /\ "none" \in FailureStages BY EndEvents
<1>4. /\ EndsRun(event) /\ OutcomeOf(event) = "completed"
      /\ ~Beginning(event) /\ ~Beliefs(event) /\ event.event # "response"
  BY DEF Says, Progress, EndsRun, OutcomeOf, Beginning, Beliefs
<1> HIDE DEF event
<1>5. PICK end \in Tells("completed") :
        EndSaid("completed", event, "none") = <<end>> /\ EndsRun(end)
  BY <1>3, <1>4, EndTells DEF Terminal
<1>6. Goes("over", said \o <<end>>) BY <1>1, <1>5
<1> QED BY <1>2, <1>5, <1>6, LastDelivers DEF Terminal

(* Most of what is said may come in any order.                             *)
LEMMA GoesOn ==
  ASSUME VerdictInv, outbox = <<>>, stage \notin {"over", "told"},
         NEW s, s \notin {"over", "told", "prepare", "admit"},
         NEW said \in Seq(Tells("running")), Goes(s, said), outcome' = outcome
  PROVE  Delivers
<1>1. Ordered(said, stage, "running") BY TellsOrdered
<1> QED BY <1>1, GoesDelivers

LEMMA SaysTells ==
  ASSUME StageInv, NEW o
  PROVE  \A event \in Events \ {"run_started", "initialization_completed"} :
           Says(event) \in Tells(o)
<1>1. run.cycle \in Nat BY DEF StageInv, Shapes, RunShape
<1> QED BY <1>1, ProgressTells DEF Says

LEMMA PrepareDelivers == ASSUME VerdictInv, Prepare PROVE Delivers
<1>1. outbox = <<>> /\ stage = "prepare" BY DEF Prepare, At
<1>2. CASE outcome' = "rejected" /\ Goes("over", <<Response("rejected", "none")>>)
  <2> DEFINE said == <<Response("rejected", "none")>>
  <2>1. Ordered(said, stage, "rejected") /\ EndsRun(said[1]) /\ 1 \in DOMAIN said
    BY DEF Ordered, Response, EndsRun, OutcomeOf, Beginning, Beliefs
  <2> HIDE DEF said
  <2> QED BY <1>1, <1>2, <2>1, EndDelivers DEF said, Terminal
<1>3. CASE Goes("admit", <<>>) /\ UNCHANGED outcome
  <2>1. Ordered(<<>>, stage, "running") BY DEF Ordered
  <2> QED BY <1>1, <1>3, <2>1, GoesDelivers
<1> QED BY <1>2, <1>3 DEF Prepare

LEMMA AdmitDelivers ==
  ASSUME VerdictInv, SaidInv, StageInv, Admit PROVE Delivers \/ Stands
<1>1. outbox = <<>> /\ stage = "admit" BY DEF Admit, At
<1>2. ASSUME NEW decision, Admitted(decision) PROVE Delivers
  <2> DEFINE said == <<Progress("run_started", 0), Progress("task_framing_started", 0)>>
  <2>1. Ordered(said, stage, "running")
    BY <1>1 DEF Ordered, Progress, EndsRun, Beginning, Beliefs
  <2>2. Goes("frame", said) /\ outcome' = outcome BY <1>2 DEF Admitted
  <2> HIDE DEF said
  <2> QED BY <1>1, <2>1, <2>2, GoesDelivers
<1>3. ASSUME Refused PROVE Delivers
  <2> DEFINE event == Progress("task_admission_completed", 0)
  <2>1. Goes("over", EndSaid("refused", event, "none")) /\ outcome' = "refused"
    BY <1>3 DEF Refused
  <2>2. event \in Said /\ "none" \in FailureStages BY EndEvents
  <2>3. /\ EndsRun(event) /\ OutcomeOf(event) = "refused"
        /\ ~Beginning(event) /\ ~Beliefs(event) /\ event.event # "response"
    BY DEF Progress, EndsRun, OutcomeOf, Beginning, Beliefs
  <2> HIDE DEF event
  <2>4. PICK end \in Tells("refused") :
          EndSaid("refused", event, "none") = <<end>> /\ EndsRun(end)
    BY <2>2, <2>3, EndTells DEF Terminal
  <2>5. <<end>> = <<>> \o <<end>> /\ <<>> \in Seq(Tells("refused")) OBVIOUS
  <2>6. Goes("over", <<>> \o <<end>>) BY <2>1, <2>4, <2>5
  <2> QED BY <1>1, <2>1, <2>4, <2>5, <2>6, LastDelivers DEF Terminal
<1> QED BY <1>2, <1>3, StartsStands DEF Admit

LEMMA OrderedMore ==
  ASSUME NEW s, NEW o, NEW said \in Seq(Said), Ordered(said, s, o),
         NEW event \in Tells(o)
  PROVE  Ordered(Append(said, event), s, o)
<1> DEFINE more == Append(said, event)
<1>1. event \in Said BY DEF Tells
<1>2. /\ more \in Seq(Said) /\ Len(more) = Len(said) + 1
      /\ \A i \in 1 .. Len(said) : more[i] = said[i]
      /\ more[Len(said) + 1] = event
  BY <1>1, AppendProperties
<1>3. Len(said) \in Nat /\ DOMAIN said = 1 .. Len(said) BY LenProperties
<1>4. DOMAIN more = 1 .. (Len(said) + 1) BY <1>2, LenProperties
<1> HIDE DEF more
<1>5. \A i \in DOMAIN more : (i \in DOMAIN said /\ more[i] = said[i]) \/ more[i] = event
  BY <1>2, <1>3, <1>4
<1>6. \A i \in DOMAIN said : i > 1 => more[i - 1] = said[i - 1]
  <2>1. \A i \in 1 .. Len(said) : i > 1 => i - 1 \in 1 .. Len(said) BY <1>3
  <2> QED BY <1>2, <1>3, <2>1
<1>7. Ordered(more, s, o)
  <2> SUFFICES ASSUME NEW i \in DOMAIN more
               PROVE  /\ EndsRun(more[i]) =>
                           /\ OutcomeOf(more[i]) = o
                           /\ setup.host = "json" => more[i].event = "response"
                      /\ Beginning(more[i]) => i = 1 /\ s = "admit"
                      /\ Beliefs(more[i]) => i > 1 /\ Framing(more[i - 1])
    BY DEF Ordered
  <2>1. CASE more[i] = event BY <2>1 DEF Tells
  <2>2. CASE i \in DOMAIN said /\ more[i] = said[i]
    <3>1. /\ EndsRun(said[i]) =>
               /\ OutcomeOf(said[i]) = o
               /\ setup.host = "json" => said[i].event = "response"
          /\ Beginning(said[i]) => i = 1 /\ s = "admit"
          /\ Beliefs(said[i]) => i > 1 /\ Framing(said[i - 1])
      BY <2>2 DEF Ordered
    <3> QED BY <1>6, <2>2, <3>1
  <2> QED BY <1>5, <2>1, <2>2
<1> QED BY <1>7 DEF more

LEMMA FrameDelivers ==
  ASSUME VerdictInv, SaidInv, StageInv, FrameTask PROVE Delivers \/ Stands
<1>1. outbox = <<>> /\ stage = "frame" BY DEF FrameTask, At
<1>2. ASSUME NEW frame, Framed(frame) PROVE Delivers
  <2> DEFINE said == <<Says("task_framing_completed"), Says("initialization_completed")>>
             more == Append(said, Says("probe_design_started"))
  <2>1. Ordered(said, stage, "running")
    BY DEF Ordered, Says, Progress, EndsRun, Beginning, Beliefs, Framing
  <2>2. said \in Seq(Said) BY EndEvents DEF Events
  <2>3. Says("probe_design_started") \in Tells("running") BY SaysTells DEF Events
  <2>4. Goes("open", said) \/ Goes("design", more) BY <1>2 DEF Framed
  <2>5. outcome' = outcome BY <1>2 DEF Framed
  <2> HIDE DEF said
  <2>6. Ordered(more, stage, "running") BY <2>1, <2>2, <2>3, OrderedMore
  <2> HIDE DEF more
  <2> QED BY <1>1, <2>1, <2>4, <2>5, <2>6, GoesDelivers
<1> QED BY <1>2, StartsStands DEF FrameTask

LEMMA DesignDelivers ==
  ASSUME VerdictInv, SaidInv, StageInv, DesignProbes PROVE Delivers \/ Stands
<1>1. outbox = <<>> /\ stage = "design" BY DEF DesignProbes, At
<1> DEFINE said == <<Says("probe_design_completed")>>
<1>2. said \in Seq(Tells("running")) /\ said \in Seq(Tells("completed"))
  BY SaysTells DEF Events
<1>3. ASSUME NEW candidates, Designed(candidates, said) PROVE Delivers
  <2>1. Completes(said) \/ (Goes("open", said) /\ outcome' = outcome)
    BY <1>3 DEF Designed
  <2> HIDE DEF said
  <2> QED BY <1>1, <1>2, <2>1, GoesOn, CompletesDelivers
<1> QED BY <1>3, StartsStands DEF DesignProbes

LEMMA OpenDelivers == ASSUME VerdictInv, StageInv, OpenCycle PROVE Delivers
<1> DEFINE said == <<Progress("cycle_started", run.cycle + 1)>>
<1>1. outbox = <<>> /\ stage = "open" BY DEF OpenCycle, At
<1>2. said \in Seq(Tells("running"))
  <2>1. run.cycle + 1 \in Nat BY DEF StageInv, Shapes, RunShape
  <2>2. Progress("cycle_started", run.cycle + 1) \in Tells("running")
    BY <2>1, ProgressTells DEF Events
  <2> QED BY <2>2
<1>3. Goes("plan", said) /\ outcome' = outcome BY DEF OpenCycle
<1> HIDE DEF said
<1> QED BY <1>1, <1>2, <1>3, GoesOn

LEMMA PlanDelivers ==
  ASSUME VerdictInv, SaidInv, StageInv, PlanProbes PROVE Delivers
<1>1. outbox = <<>> /\ stage = "plan" BY DEF PlanProbes, At
<1> DEFINE planned == <<Says("probe_set_planned"), Says("probe_execution_started")>>
           said == <<Says("probe_set_planned")>>
<1>2. planned \in Seq(Tells("running")) /\ said \in Seq(Tells("completed"))
  BY SaysTells DEF Events
<1>3. \/ Goes("execute", planned) /\ outcome' = outcome
      \/ Fails("plan", "none", 0)
      \/ Completes(said)
  BY DEF PlanProbes
<1> HIDE DEF planned, said
<1> QED BY <1>1, <1>2, <1>3, GoesOn, FailsDelivers, CompletesDelivers

LEMMA ExecutedDelivers ==
  ASSUME VerdictInv, StageInv, outbox = <<>>, stage = "execute", Executed
  PROVE  Delivers
<1> DEFINE said == <<Says("signals_collected"), Says("evidence_integration_started")>>
<1>1. said \in Seq(Tells("running")) BY SaysTells DEF Events
<1>2. Goes("judge", said) /\ outcome' = outcome BY DEF Executed
<1> HIDE DEF said
<1> QED BY <1>1, <1>2, GoesOn

LEMMA IntegrateDelivers ==
  ASSUME VerdictInv, SaidInv, StageInv, Integrate PROVE Delivers \/ Stands
<1>1. outbox = <<>> /\ stage = "judge" BY DEF Integrate, At
<1>2. ASSUME NEW spawned, NEW expanded, Integrated(spawned, expanded) PROVE Delivers
  <2> DEFINE T == Tells("running")
             first == <<Says("frame_adequacy_assessed")>>
             new == IF spawned THEN <<Says("hypothesis_expansion_completed")>> ELSE <<>>
             last == <<Says("answer_projection_started")>>
             said == first \o new \o last
  <2>1. first \in Seq(T) /\ last \in Seq(T) BY SaysTells DEF Events
  <2>2. new \in Seq(T)
    <3>1. <<Says("hypothesis_expansion_completed")>> \in Seq(T)
      BY SaysTells DEF Events
    <3>2. <<>> \in Seq(T) OBVIOUS
    <3> HIDE DEF T
    <3> QED BY <3>1, <3>2
  <2>3. Goes("project", said) /\ outcome' = outcome BY <1>2 DEF Integrated
  <2> HIDE DEF T, first, new, last
  <2>4. first \o new \in Seq(T) BY <2>1, <2>2, ConcatProperties
  <2>5. said \in Seq(T) BY <2>1, <2>4, ConcatProperties
  <2> HIDE DEF said
  <2> QED BY <1>1, <2>3, <2>5, GoesOn DEF T
<1> QED BY <1>1, <1>2, StartsStands, FailsDelivers DEF Integrate

LEMMA ProjectDelivers ==
  ASSUME VerdictInv, SaidInv, StageInv, ProjectAnswer PROVE Delivers \/ Stands
<1>1. outbox = <<>> /\ stage = "project" BY DEF ProjectAnswer, At
<1>2. ASSUME Projected PROVE Delivers
  <2> DEFINE said == <<Says("answer_projection_completed"), Says("cycle_integrated")>>
  <2>1. said \in Seq(Tells("running")) BY SaysTells DEF Events
  <2>2. Goes("advance", said) /\ outcome' = outcome BY <1>2 DEF Projected
  <2> HIDE DEF said
  <2> QED BY <1>1, <2>1, <2>2, GoesOn
<1> QED BY <1>2, StartsStands DEF ProjectAnswer

LEMMA AdvanceDelivers ==
  ASSUME VerdictInv, SaidInv, StageInv, Advance PROVE Delivers
<1>1. outbox = <<>> /\ stage = "advance" BY DEF Advance, At
<1> DEFINE said == <<Says("probe_design_started")>>
<1>2. said \in Seq(Tells("running")) BY SaysTells DEF Events
<1>3. Completes(<<>>) \/ (Goes("design", said) /\ outcome' = outcome) BY DEF Advance
<1>4. <<>> \in Seq(Tells("completed")) OBVIOUS
<1> HIDE DEF said
<1> QED BY <1>1, <1>2, <1>3, <1>4, GoesOn, CompletesDelivers

LEMMA DirectDelivers ==
  ASSUME VerdictInv, SaidInv, StageInv, DirectAnswer PROVE Delivers \/ Stands
<1>1. outbox = <<>> /\ stage = "direct" BY DEF DirectAnswer, At
<1>2. <<>> \in Seq(Tells("completed")) OBVIOUS
<1> QED BY <1>1, <1>2, StartsStands, FailsDelivers, CompletesDelivers DEF DirectAnswer

LEMMA ThreadDelivers ==
  ASSUME VerdictInv, SaidInv, StageInv, Thread, ~SayNext, ~ReturnCase
  PROVE  Delivers \/ Stands
<1>1. CASE ExecuteProbe
  <2>1. outbox = <<>> /\ stage = "execute" BY <1>1 DEF ExecuteProbe, At
  <2> QED BY <1>1, <2>1, StartsStands, ExecutedDelivers DEF ExecuteProbe
<1>2. CASE ExecutePython
  <2>1. outbox = <<>> /\ stage = "execute" BY <1>2 DEF ExecutePython, At
  <2> QED
    BY <1>2, <2>1, ExecutedDelivers, FailsDelivers DEF ExecutePython, Stands, threadVars
<1>3. CASE JudgeSignal BY <1>3, StartsStands DEF JudgeSignal, Judged, Stands
<1>4. CASE TaskFails
  <2>1. outbox = <<>> /\ ~TaskIdle BY <1>4 DEF TaskFails
  <2>2. stage \notin {"over", "told"} BY <2>1, TasksOfStage
  <2> QED BY <1>4, <2>1, <2>2, FailsDelivers DEF TaskFails
<1>5. CASE ReadTask BY <1>5 DEF ReadTask, Stands, threadVars
<1> QED
  BY <1>1, <1>2, <1>3, <1>4, <1>5, PrepareDelivers, AdmitDelivers, FrameDelivers,
     DesignDelivers, OpenDelivers, PlanDelivers, IntegrateDelivers, ProjectDelivers,
     AdvanceDelivers, DirectDelivers DEF Thread

-----------------------------------------------------------------------------
(* The verdict under a step.                                               *)

LEMMA DeliversOrder ==
  ASSUME OrderInv, VerdictInv, SaidInv, Delivers PROVE OrderInv'
<1> SUFFICES ASSUME setup.host = "webui" PROVE (StartsOnce /\ FrameFirst)'
  BY DEF OrderInv, Delivers
<1>1. StartsOnce /\ FrameFirst BY DEF OrderInv
<1>2. UNCHANGED <<emitter, wire, link, page>> BY DEF Delivers, sayRest
<1>3. StartsOnce'
  BY <1>1, <1>2 DEF StartsOnce, Delivers, Ordered
<1>4. FrameFirst'
  <2>1. \A i \in DOMAIN outbox' : Beliefs(outbox'[i]) =>
          i # 1 /\ Framing(outbox'[i - 1])
    <3>1. \A i \in DOMAIN outbox' : Beliefs(outbox'[i]) =>
            i > 1 /\ Framing(outbox'[i - 1])
      BY DEF Delivers, Ordered
    <3>2. ~(1 > 1) OBVIOUS
    <3> QED BY <3>1, <3>2
  <2> QED BY <1>1, <1>2, <2>1 DEF FrameFirst
<1> QED BY <1>3, <1>4

LEMMA DeliversVerdict ==
  ASSUME VerdictInv, SaidInv, Delivers PROVE VerdictInv'
<1>1. UNCHANGED <<setup, emitter, writer, wire, link, page>> BY DEF Delivers, sayRest
<1>2. ~EndSeen BY DEF Delivers, SaidInv, StreamInv
<1>3. page.terminal = "none" /\ \A i \in DOMAIN wire : ~EndsRun(wire[i].said)
  BY <1>2 DEF EndSeen
<1>4. outcome' = "running" <=> stage' \notin {"over", "told"} BY DEF Delivers
<1>5. \A i \in DOMAIN outbox' : EndsRun(outbox'[i]) =>
        /\ OutcomeOf(outbox'[i]) = outcome'
        /\ setup.host = "json" => outbox'[i].event = "response"
  BY DEF Delivers, Ordered
<1>6. Watched' = Watched BY <1>1 DEF Watched
<1>7. Watched /\ stage' = "over" => \E i \in DOMAIN outbox' : EndsRun(outbox'[i])
  BY DEF Delivers
<1>8. stage' # "told" BY DEF Delivers
<1> QED BY <1>1, <1>3, <1>4, <1>5, <1>6, <1>7, <1>8 DEF VerdictInv

(* The next event goes on the wire, or is not sent.                        *)
Sent ==
  /\ link = "up" /\ Len(wire) + 1 \in DOMAIN wire'
  /\ \A i \in DOMAIN wire : i \in DOMAIN wire' /\ wire'[i] = wire[i]
  /\ \A i \in DOMAIN wire' :
       \/ i \in DOMAIN wire
       \/ /\ i = Len(wire) + 1 /\ wire'[i].said = outbox[1]
          /\ setup.host # "json" => wire'[i].sequence = emitter.sequence + 1
Unsent ==
  /\ wire' = wire
  /\ link = "gone" \/ (setup.host = "json" /\ outbox[1].event # "response")

LEMMA LineIsSent ==
  ASSUME SaidInv, NEW n, Write([said |-> outbox[1], sequence |-> n]),
         setup.host # "json" => n = emitter.sequence + 1
  PROVE  Sent \/ Unsent
<1> DEFINE line == [said |-> outbox[1], sequence |-> n]
<1>1. line.said = outbox[1] /\ line.sequence = n OBVIOUS
<1>2. Write(line) OBVIOUS
<1>3. /\ wire \in Seq([said: Said, sequence: Nat]) /\ link \in {"up", "gone"}
      /\ writer \in {"open", "disconnected"} /\ (link = "up" => writer = "open")
  BY DEF SaidInv, StreamType, StreamInv
<1>4. Len(wire) \in Nat /\ DOMAIN wire = 1 .. Len(wire) BY <1>3, LenProperties
<1> HIDE DEF line
<1>5. CASE link = "up" /\ wire' = Append(wire, line)
  <2>1. /\ Len(wire') = Len(wire) + 1 /\ DOMAIN wire' = 1 .. (Len(wire) + 1)
        /\ \A i \in 1 .. Len(wire) : wire'[i] = wire[i]
        /\ wire'[Len(wire) + 1] = line
    <3> DEFINE S == [said: Said, sequence: Nat] \cup {line}
    <3>1. line \in S OBVIOUS
    <3>2. wire \in Seq(S)
      <4>1. \A i \in 1 .. Len(wire) : wire[i] \in [said: Said, sequence: Nat]
        BY <1>3, ElementOfSeq
      <4>2. \A i \in 1 .. Len(wire) : wire[i] \in S BY <4>1
      <4>3. wire = [i \in 1 .. Len(wire) |-> wire[i]] BY <1>3, LenProperties
      <4> HIDE DEF S
      <4> QED BY <1>4, <4>2, <4>3, IsASeq
    <3> HIDE DEF S
    <3>3. /\ Append(wire, line) \in Seq(S) /\ Len(Append(wire, line)) = Len(wire) + 1
          /\ \A i \in 1 .. Len(wire) : Append(wire, line)[i] = wire[i]
          /\ Append(wire, line)[Len(wire) + 1] = line
      BY <3>1, <3>2, AppendProperties
    <3>4. DOMAIN Append(wire, line) = 1 .. (Len(wire) + 1) BY <3>3, LenProperties
    <3> QED BY <1>5, <3>3, <3>4
  <2>2. \A i \in DOMAIN wire' : i \in DOMAIN wire \/ i = Len(wire) + 1
    BY <1>4, <2>1
  <2>3. \A i \in DOMAIN wire : i \in DOMAIN wire' BY <1>4, <2>1
  <2>4. Len(wire) + 1 \in DOMAIN wire' BY <1>4, <2>1
  <2> QED BY <1>1, <1>4, <1>5, <2>1, <2>2, <2>3, <2>4 DEF Sent
<1>6. CASE link = "gone" /\ wire' = wire BY <1>6 DEF Unsent
<1> QED BY <1>2, <1>3, <1>5, <1>6 DEF Write

LEMMA NextIsSaid ==
  ASSUME SaidInv, SayNext
  PROVE  /\ UNCHANGED <<threadVars, link, page>> /\ 1 \in DOMAIN outbox
         /\ \A i \in DOMAIN outbox : i = 1 \/ i - 1 \in DOMAIN outbox'
         /\ \A i \in DOMAIN outbox' : /\ i \in Nat \ {0} /\ i + 1 \in DOMAIN outbox
                                      /\ outbox'[i] = outbox[i + 1]
         /\ Sent \/ Unsent
         /\ stage \notin {"prepare", "admit"} \/ outbox # <<>>
<1>1. /\ outbox # <<>> /\ outbox' = Tail(outbox)
      /\ UNCHANGED <<threadVars, link, page>>
  BY DEF SayNext, Track, Emit
<1>2. /\ Len(outbox) \in Nat \ {0} /\ DOMAIN outbox = 1 .. Len(outbox)
      /\ Head(outbox) = outbox[1]
      /\ DOMAIN Tail(outbox) = 1 .. (Len(outbox) - 1)
      /\ \A i \in 1 .. (Len(outbox) - 1) :
           Tail(outbox)[i] = outbox[i + 1] /\ i + 1 \in DOMAIN outbox
  BY <1>1, Lines DEF SaidInv, StreamType
<1>3. Sent \/ Unsent
  <2>1. CASE setup.host = "json"
    <3>1. CASE Head(outbox).event = "response"
      <4>1. Write([said |-> Head(outbox), sequence |-> 1])
        BY <2>1, <3>1 DEF SayNext, Track
      <4> QED BY <1>2, <2>1, <4>1, LineIsSent
    <3>2. CASE Head(outbox).event # "response"
      <4>1. wire' = wire BY <2>1, <3>2 DEF SayNext, Track
      <4> QED BY <1>2, <2>1, <3>2, <4>1 DEF Unsent
    <3> QED BY <3>1, <3>2
  <2>2. CASE setup.host # "json"
    <3>1. Emit BY <2>2 DEF SayNext
    <3>2. Write([said |-> Head(outbox), sequence |-> emitter.sequence + 1])
      BY <3>1 DEF Emit, NextSequence
    <3> QED BY <1>2, <3>2, LineIsSent
  <2> QED BY <2>1, <2>2
<1>4. 1 \in DOMAIN outbox BY <1>2
<1>5. \A i \in 1 .. Len(outbox) : i = 1 \/ i - 1 \in 1 .. (Len(outbox) - 1) BY <1>2
<1>6. \A i \in 1 .. (Len(outbox) - 1) : i \in Nat \ {0} BY <1>2
<1> QED BY <1>1, <1>2, <1>3, <1>4, <1>5, <1>6

LEMMA SayOrder == ASSUME OrderInv, SaidInv, SayNext PROVE OrderInv'
<1>1. /\ UNCHANGED <<threadVars, link, page>> /\ 1 \in DOMAIN outbox
      /\ \A i \in DOMAIN outbox' : /\ i \in Nat \ {0} /\ i + 1 \in DOMAIN outbox
                                   /\ outbox'[i] = outbox[i + 1]
      /\ Sent \/ Unsent
  BY NextIsSaid
<1>2. outbox # <<>> BY DEF SayNext, Track, Emit
<1> SUFFICES ASSUME setup.host = "webui" PROVE (StartsOnce /\ FrameFirst)'
  BY <1>1 DEF OrderInv, threadVars
<1>3. StartsOnce /\ FrameFirst BY DEF OrderInv
<1>4. emitter.sequence \in Nat /\ Len(wire) \in Nat /\ DOMAIN wire = 1 .. Len(wire)
  BY LenProperties DEF SaidInv, StreamType
<1>5. StartsOnce'
  <2>1. stage' \notin {"prepare", "admit"}
    BY <1>1, <1>2, <1>3 DEF StartsOnce, threadVars
  <2>2. \A i \in DOMAIN outbox' : ~Beginning(outbox'[i])
    <3>1. \A i \in Nat \ {0} : i + 1 # 1 OBVIOUS
    <3> QED BY <1>1, <1>3, <3>1 DEF StartsOnce
  <2>3. \A i \in DOMAIN wire' : Beginning(wire'[i].said) => wire'[i].sequence = 1
    <3>1. CASE Sent
      <4>1. Beginning(outbox[1]) => emitter.sequence = 0
        BY <1>1, <1>3 DEF StartsOnce
      <4>2. emitter.sequence = 0 => emitter.sequence + 1 = 1 OBVIOUS
      <4> QED BY <1>3, <3>1, <4>1, <4>2 DEF Sent, StartsOnce
    <3>2. CASE Unsent BY <1>3, <3>2 DEF Unsent, StartsOnce
    <3> QED BY <1>1, <3>1, <3>2
  <2> QED BY <1>1, <1>3, <2>1, <2>2, <2>3 DEF StartsOnce
<1>6. FramingSent => FramingSent'
  BY <1>1 DEF FramingSent, Sent, Unsent
<1>7. Framing(outbox[1]) => link = "gone" \/ FramingSent'
  <2>1. Len(wire) + 1 \notin DOMAIN wire BY <1>4
  <2>2. CASE Sent
    <3>1. Len(wire) + 1 \in DOMAIN wire' /\ wire'[Len(wire) + 1].said = outbox[1]
      BY <2>1, <2>2 DEF Sent
    <3> QED BY <3>1 DEF FramingSent
  <2>3. CASE Unsent BY <2>3 DEF Unsent
  <2> QED BY <1>1, <2>2, <2>3
<1>8. \A i \in DOMAIN outbox' : Beliefs(outbox'[i]) =>
        IF i = 1 THEN link' = "gone" \/ FramingSent' ELSE Framing(outbox'[i - 1])
  <2> SUFFICES ASSUME NEW i \in DOMAIN outbox', Beliefs(outbox'[i])
               PROVE  IF i = 1 THEN link' = "gone" \/ FramingSent'
                      ELSE Framing(outbox'[i - 1])
    OBVIOUS
  <2>1. i \in Nat \ {0} /\ i + 1 \in DOMAIN outbox /\ Beliefs(outbox[i + 1]) BY <1>1
  <2>2. i + 1 # 1 /\ i + 1 - 1 = i BY <2>1
  <2>3. Framing(outbox[i]) BY <1>3, <2>1, <2>2 DEF FrameFirst
  <2>4. ASSUME i # 1 PROVE i - 1 \in DOMAIN outbox' /\ outbox'[i - 1] = outbox[i]
    <3>1. i \in DOMAIN outbox
      <4>1. DOMAIN outbox = 1 .. Len(outbox) /\ Len(outbox) \in Nat
        BY LenProperties DEF SaidInv, StreamType
      <4> QED BY <2>1, <4>1
    <3>2. i - 1 \in DOMAIN outbox' BY <2>4, <3>1, NextIsSaid
    <3>3. i - 1 + 1 = i BY <2>1
    <3> QED BY <1>1, <3>2, <3>3
  <2> QED BY <1>1, <1>7, <2>3, <2>4
<1>9. \A i \in DOMAIN wire' : Beliefs(wire'[i].said) =>
        page'.framed \/ \E j \in 1 .. (i - 1) : Framing(wire'[j].said)
  <2>1. CASE Sent
    <3> SUFFICES ASSUME NEW i \in DOMAIN wire', Beliefs(wire'[i].said), ~page.framed
                 PROVE  \E j \in 1 .. (i - 1) : Framing(wire'[j].said)
      BY <1>1
    <3>1. CASE i \in DOMAIN wire
      <4>1. Beliefs(wire[i].said) BY <2>1, <3>1 DEF Sent
      <4>2. PICK j \in 1 .. (i - 1) : Framing(wire[j].said)
        BY <1>3, <3>1, <4>1 DEF FrameFirst
      <4>3. j \in DOMAIN wire BY <1>4, <3>1, <4>2
      <4> QED BY <2>1, <4>2, <4>3 DEF Sent
    <3>2. CASE i = Len(wire) + 1 /\ wire'[i].said = outbox[1]
      <4>1. Beliefs(outbox[1]) /\ link = "up" BY <2>1, <3>2 DEF Sent
      <4>2. FramingSent BY <1>1, <1>3, <4>1 DEF FrameFirst
      <4>3. PICK j \in DOMAIN wire : Framing(wire[j].said) BY <4>2 DEF FramingSent
      <4>4. j \in 1 .. (i - 1) BY <1>4, <3>2, <4>3
      <4> QED BY <2>1, <4>3, <4>4 DEF Sent
    <3> QED BY <2>1, <3>1, <3>2 DEF Sent
  <2>2. CASE Unsent BY <1>1, <1>3, <2>2 DEF Unsent, FrameFirst
  <2> QED BY <1>1, <2>1, <2>2
<1> QED BY <1>5, <1>8, <1>9 DEF FrameFirst

LEMMA SayVerdict == ASSUME VerdictInv, SaidInv, SayNext PROVE VerdictInv'
<1>1. /\ UNCHANGED <<threadVars, link, page>> /\ 1 \in DOMAIN outbox
      /\ \A i \in DOMAIN outbox : i = 1 \/ i - 1 \in DOMAIN outbox'
      /\ \A i \in DOMAIN outbox' : /\ i \in Nat \ {0} /\ i + 1 \in DOMAIN outbox
                                   /\ outbox'[i] = outbox[i + 1]
      /\ Sent \/ Unsent
  BY NextIsSaid
<1>2. UNCHANGED <<setup, stage, outcome>> BY <1>1 DEF threadVars
<1>3. \A i \in DOMAIN outbox' : EndsRun(outbox'[i]) =>
        /\ OutcomeOf(outbox'[i]) = outcome
        /\ setup.host = "json" => outbox'[i].event = "response"
  BY <1>1 DEF VerdictInv
<1>4. \A i \in DOMAIN wire' : EndsRun(wire'[i].said) => OutcomeOf(wire'[i].said) = outcome
  BY <1>1 DEF VerdictInv, Sent, Unsent
<1>5. Watched /\ stage = "over" /\ link = "up" =>
        EndSeen' \/ \E i \in DOMAIN outbox' : EndsRun(outbox'[i])
  <2> SUFFICES ASSUME Watched, stage = "over", link = "up"
               PROVE  EndSeen' \/ \E i \in DOMAIN outbox' : EndsRun(outbox'[i])
    OBVIOUS
  <2>1. ~EndSeen
    <3>1. outbox # <<>> BY DEF SayNext, Track, Emit
    <3> QED BY <3>1 DEF SaidInv, StreamInv
  <2>2. PICK i \in DOMAIN outbox : EndsRun(outbox[i]) BY <2>1 DEF VerdictInv
  <2>3. CASE i = 1
    <3>1. setup.host = "json" => outbox[1].event = "response"
      BY <2>2, <2>3 DEF VerdictInv
    <3>2. Sent BY <1>1, <3>1 DEF Unsent
    <3>3. wire'[Len(wire) + 1].said = outbox[1] /\ Len(wire) + 1 \in DOMAIN wire'
      <4>1. Len(wire) \in Nat /\ DOMAIN wire = 1 .. Len(wire)
        BY LenProperties DEF SaidInv, StreamType
      <4>2. Len(wire) + 1 \notin DOMAIN wire BY <4>1
      <4> QED BY <3>2, <4>2 DEF Sent
    <3> QED BY <2>2, <2>3, <3>3 DEF EndSeen
  <2>4. CASE i # 1
    <3>1. i - 1 \in DOMAIN outbox' BY <1>1, <2>4
    <3>2. outbox'[i - 1] = outbox[i]
      <4>1. DOMAIN outbox = 1 .. Len(outbox) /\ Len(outbox) \in Nat
        BY LenProperties DEF SaidInv, StreamType
      <4>2. i - 1 + 1 = i BY <2>2, <4>1
      <4> QED BY <1>1, <3>1, <4>2
    <3> QED BY <2>2, <3>1, <3>2
  <2> QED BY <2>3, <2>4
<1> QED BY <1>1, <1>2, <1>3, <1>4, <1>5 DEF VerdictInv, Watched

(* A line is read: no beliefs come before their frame, so the page takes   *)
(* every line.                                                             *)
LEMMA NextIsRead ==
  ASSUME OrderInv, SaidInv, Watched, ReadLine
  PROVE  /\ UNCHANGED <<outbox, emitter, writer, link>>
         /\ page.verdict = "none" /\ link = "up" /\ 1 \in DOMAIN wire
         /\ wire[1].sequence = page.read + 1
         /\ page'.framed = (~Beginning(wire[1].said)
                              /\ (page.framed \/ Framing(wire[1].said)))
         /\ page'.terminal = TerminalOf(wire[1].said)
         /\ page'.read = page.read + 1 /\ page'.verdict = "none"
         /\ \A i \in DOMAIN wire : i = 1 \/ i - 1 \in DOMAIN wire'
         /\ \A i \in DOMAIN wire' : /\ i \in Nat \ {0} /\ i + 1 \in DOMAIN wire
                                    /\ wire'[i] = wire[i + 1]
<1> DEFINE S == [said: Said, sequence: Nat]
<1>1. /\ page.verdict = "none" /\ link = "up" /\ wire # <<>>
      /\ UNCHANGED <<outbox, emitter, writer>>
  BY DEF ReadLine
<1>2. wire \in Seq(S) BY DEF SaidInv, StreamType
<1>3. /\ Len(wire) \in Nat \ {0} /\ DOMAIN wire = 1 .. Len(wire)
      /\ Head(wire) = wire[1]
      /\ DOMAIN Tail(wire) = 1 .. (Len(wire) - 1)
      /\ \A i \in 1 .. (Len(wire) - 1) :
           Tail(wire)[i] = wire[i + 1] /\ i + 1 \in DOMAIN wire
  <2> HIDE DEF S
  <2> QED BY <1>1, <1>2, Lines
<1>4. 1 \in DOMAIN wire BY <1>3
<1>5. wire[1].sequence = page.read + 1 BY <1>4 DEF SaidInv, StreamInv
<1>6. ~(Beliefs(wire[1].said) /\ ~page.framed)
  <2>1. setup.host = "json" => EndsRun(wire[1].said)
    BY <1>4 DEF SaidInv, StreamInv
  <2>2. setup.host = "webui" /\ Beliefs(wire[1].said) => page.framed
    <3>1. 1 .. (1 - 1) = {} OBVIOUS
    <3> QED BY <1>4, <3>1 DEF OrderInv, FrameFirst
  <2> QED BY <2>1, <2>2 DEF Watched, EndsRun, Beliefs
<1> DEFINE said == wire[1].said
           f == said.event # "run_started"
                  /\ (page.framed \/ said.event = "task_framing_completed")
           n == wire[1].sequence
           t == TerminalOf(said)
<1>7. page' = [page EXCEPT !.read = n, !.framed = f, !.terminal = t]
        /\ wire' = Tail(wire) /\ link' = link
  BY <1>3, <1>6 DEF ReadLine, Beliefs
<1>8. page \in [read: Nat, framed: {page.framed}, terminal: {"none"} \cup Terminal,
                verdict: {"none", "error"} \cup Terminal]
  BY DEF SaidInv, StreamType
<1>9. f = (~Beginning(wire[1].said) /\ (page.framed \/ Framing(wire[1].said)))
  BY DEF Beginning, Framing
<1> HIDE DEF f, n, t
<1>10. page'.framed = f /\ page'.terminal = t /\ page'.read = n /\ page'.verdict = "none"
  BY <1>1, <1>7, <1>8
<1>11. \A i \in 1 .. Len(wire) : i = 1 \/ i - 1 \in 1 .. (Len(wire) - 1) BY <1>3
<1>12. \A i \in 1 .. (Len(wire) - 1) : i \in Nat \ {0} BY <1>3
<1>13. n = page.read + 1 /\ t = TerminalOf(wire[1].said) BY <1>5 DEF n, t
<1> QED BY <1>1, <1>3, <1>4, <1>5, <1>7, <1>9, <1>10, <1>11, <1>12, <1>13

LEMMA ReadOrder ==
  ASSUME OrderInv, SaidInv, Watched, ReadLine, UNCHANGED <<setup, stage>>
  PROVE  OrderInv'
<1>1. /\ UNCHANGED <<outbox, emitter, link>>
      /\ 1 \in DOMAIN wire /\ wire[1].sequence = page.read + 1
      /\ page'.framed = (~Beginning(wire[1].said)
                           /\ (page.framed \/ Framing(wire[1].said)))
      /\ page'.read = page.read + 1
      /\ \A i \in DOMAIN wire : i = 1 \/ i - 1 \in DOMAIN wire'
      /\ \A i \in DOMAIN wire' : /\ i \in Nat \ {0} /\ i + 1 \in DOMAIN wire
                                 /\ wire'[i] = wire[i + 1]
  BY NextIsRead
<1> SUFFICES ASSUME setup.host = "webui" PROVE (StartsOnce /\ FrameFirst)'
  BY DEF OrderInv
<1>2. StartsOnce /\ FrameFirst BY DEF OrderInv
<1>3. page.read \in Nat /\ Len(wire) \in Nat /\ DOMAIN wire = 1 .. Len(wire)
  BY LenProperties DEF SaidInv, StreamType
<1>4. page.framed => ~Beginning(wire[1].said)
  <2> SUFFICES ASSUME page.framed, Beginning(wire[1].said) PROVE FALSE OBVIOUS
  <2>1. page.read > 0 /\ wire[1].sequence = 1 BY <1>1, <1>2 DEF StartsOnce
  <2> QED BY <1>1, <1>3, <2>1
<1>5. page.framed \/ Framing(wire[1].said) => page'.framed
  BY <1>1, <1>4 DEF Beginning, Framing
<1>6. \A i \in DOMAIN wire : i # 1 => i - 1 \in DOMAIN wire' /\ wire'[i - 1] = wire[i]
  <2>1. \A i \in DOMAIN wire : i - 1 + 1 = i BY <1>3
  <2> QED BY <1>1, <2>1
<1>7. StartsOnce'
  <2>1. page.read + 1 > 0 BY <1>3
  <2> QED BY <1>1, <1>2, <2>1 DEF StartsOnce
<1>8. FramingSent => FramingSent' BY <1>1, <1>5, <1>6 DEF FramingSent
<1>9. \A i \in DOMAIN wire' : Beliefs(wire'[i].said) =>
        page'.framed \/ \E j \in 1 .. (i - 1) : Framing(wire'[j].said)
  <2> SUFFICES ASSUME NEW i \in DOMAIN wire', Beliefs(wire'[i].said), ~page'.framed
               PROVE  \E j \in 1 .. (i - 1) : Framing(wire'[j].said)
    OBVIOUS
  <2>1. i \in Nat \ {0} /\ i + 1 \in DOMAIN wire /\ Beliefs(wire[i + 1].said) BY <1>1
  <2>2. PICK j \in 1 .. (i + 1 - 1) : Framing(wire[j].said)
    BY <1>2, <1>5, <2>1 DEF FrameFirst
  <2>3. j # 1 BY <1>5, <2>2
  <2>4. j \in DOMAIN wire BY <1>3, <2>1, <2>2
  <2>5. j - 1 \in 1 .. (i - 1) BY <2>1, <2>2, <2>3
  <2> QED BY <1>6, <2>2, <2>3, <2>4, <2>5
<1>10. FrameFirst' BY <1>1, <1>2, <1>8, <1>9 DEF FrameFirst
<1> QED BY <1>7, <1>10

LEMMA ReadVerdict ==
  ASSUME OrderInv, VerdictInv, SaidInv, Watched, ReadLine,
         UNCHANGED <<setup, stage, outcome>>
  PROVE  VerdictInv'
<1>1. /\ UNCHANGED <<outbox, link>>
      /\ 1 \in DOMAIN wire
      /\ page'.terminal = TerminalOf(wire[1].said)
      /\ \A i \in DOMAIN wire : i = 1 \/ i - 1 \in DOMAIN wire'
      /\ \A i \in DOMAIN wire' : /\ i \in Nat \ {0} /\ i + 1 \in DOMAIN wire
                                 /\ wire'[i] = wire[i + 1]
  BY NextIsRead
<1>2. page'.terminal \in {"none", outcome}
        /\ (EndsRun(wire[1].said) => page'.terminal = outcome)
        /\ (~EndsRun(wire[1].said) => page'.terminal = page.terminal)
  <2>1. CASE EndsRun(wire[1].said)
    <3>1. OutcomeOf(wire[1].said) = outcome BY <1>1, <2>1 DEF VerdictInv
    <3>2. TerminalOf(wire[1].said) = OutcomeOf(wire[1].said)
      BY <2>1 DEF TerminalOf, OutcomeOf, EndsRun
    <3> QED BY <1>1, <2>1, <3>1, <3>2
  <2>2. CASE ~EndsRun(wire[1].said)
    <3>1. TerminalOf(wire[1].said) = page.terminal BY <2>2 DEF TerminalOf, EndsRun
    <3> QED BY <1>1, <2>2, <3>1 DEF VerdictInv
  <2> QED BY <2>1, <2>2
<1>3. stage = "over" => outcome # "none"
  BY DEF SaidInv, StreamType, Terminal
<1>4. \A i \in DOMAIN wire : i # 1 => i - 1 \in DOMAIN wire' /\ wire'[i - 1] = wire[i]
  <2>1. DOMAIN wire = 1 .. Len(wire) /\ Len(wire) \in Nat
    BY LenProperties DEF SaidInv, StreamType
  <2>2. \A i \in DOMAIN wire : i - 1 + 1 = i BY <2>1
  <2> QED BY <1>1, <2>2
<1>5. stage = "over" /\ EndSeen => EndSeen' BY <1>2, <1>3, <1>4 DEF EndSeen
<1>6. \A i \in DOMAIN wire' : EndsRun(wire'[i].said) => OutcomeOf(wire'[i].said) = outcome
  BY <1>1 DEF VerdictInv
<1> QED BY <1>1, <1>2, <1>5, <1>6 DEF VerdictInv, Watched

(* The page ends, or the connection breaks: lines can only be lost.        *)
LEMMA EndOrder ==
  ASSUME OrderInv, SaidInv, UNCHANGED <<setup, stage, outbox, emitter>>,
         page'.framed = page.framed, page'.read = page.read,
         UNCHANGED <<wire, link>> \/ (wire' = <<>> /\ link' = "gone")
  PROVE  OrderInv'
BY DEF OrderInv, StartsOnce, FrameFirst, FramingSent

LEMMA EndVerdict ==
  ASSUME VerdictInv, SaidInv, UNCHANGED <<setup, stage, outcome, outbox>>,
         page'.terminal = page.terminal,
         UNCHANGED <<wire, link>> \/ (wire' = <<>> /\ link' = "gone")
  PROVE  VerdictInv'
BY DEF VerdictInv, Watched, EndSeen

LEMMA PageEnd ==
  ASSUME SaidInv, (\E closed \in BOOLEAN : ReadEnd(closed)) \/ ReadFails \/ LinkBreaks
  PROVE  /\ UNCHANGED <<outbox, emitter>>
         /\ page'.framed = page.framed /\ page'.read = page.read
         /\ page'.terminal = page.terminal
         /\ UNCHANGED <<wire, link>> \/ (wire' = <<>> /\ link' = "gone")
<1>1. page \in [read: Nat, framed: {page.framed}, terminal: {"none"} \cup Terminal,
                verdict: {"none", "error"} \cup Terminal]
  BY DEF SaidInv, StreamType
<1> QED BY <1>1 DEF ReadEnd, ReadFails, LinkBreaks

LEMMA VerdictStays ==
  ASSUME OrderInv, VerdictInv, UNCHANGED <<setup, stage, outcome, streamVars>>
  PROVE  OrderInv' /\ VerdictInv'
<1>1. UNCHANGED <<outbox, emitter, writer, wire, link, page>> BY DEF streamVars
<1>2. OrderInv' BY <1>1 DEF OrderInv, StartsOnce, FrameFirst, FramingSent
<1>3. VerdictInv' BY <1>1 DEF VerdictInv, Watched, EndSeen
<1> QED BY <1>2, <1>3

(* A case that is returned or begins again has no page.                    *)
LEMMA VerdictUnwatched ==
  ASSUME VerdictInv, ~Watched, UNCHANGED <<setup, outcome, streamVars>>,
         \/ stage = "over" /\ stage' = "told"
         \/ stage \notin {"over", "told"} /\ stage' = "admit"
  PROVE  OrderInv' /\ VerdictInv'
<1>1. UNCHANGED <<outbox, emitter, writer, wire, link, page>> BY DEF streamVars
<1>2. OrderInv' BY DEF OrderInv, Watched
<1>3. VerdictInv' BY <1>1 DEF VerdictInv, Watched, EndSeen
<1> QED BY <1>2, <1>3

LEMMA AgainPlace ==
  ASSUME StageInv, RunAgain PROVE ~Watched /\ stage = "execute"
<1>1. probe.step # "idle" BY DEF RunAgain, StageInv, StagePlace, ProbePlace
<1> QED BY <1>1 DEF StageInv, StagePlace, ProbePlace, Watched

LEMMA VerdictNext ==
  ASSUME OrderInv, VerdictInv, StageInv, SaidInv, [Next]_vars
  PROVE  OrderInv' /\ VerdictInv'
<1>1. CASE Thread
  <2>1. CASE SayNext BY <2>1, SayOrder, SayVerdict
  <2>2. CASE ReturnCase
    <3>1. UNCHANGED <<setup, outcome, streamVars>> /\ stage' = "told"
            /\ stage = "over" /\ ~Watched
      BY <2>2 DEF ReturnCase, At
    <3> QED BY <3>1, VerdictUnwatched
  <2>3. CASE ~SayNext /\ ~ReturnCase
    <3>1. CASE Delivers BY <3>1, DeliversOrder, DeliversVerdict
    <3>2. CASE Stands BY <3>2, VerdictStays DEF Stands
    <3> QED BY <1>1, <2>3, <3>1, <3>2, ThreadDelivers
  <2> QED BY <2>1, <2>2, <2>3
<1>2. CASE Sandbox \/ Docker \/ Finished \/ UNCHANGED vars
  <2>1. UNCHANGED <<setup, stage, outcome, streamVars>>
    BY <1>2 DEF Sandbox, Docker, Finished, vars, threadVars
  <2> QED BY <2>1, VerdictStays
<1>3. CASE Page
  <2>1. UNCHANGED <<setup, stage, outcome>> /\ Watched BY <1>3 DEF Page, threadVars
  <2>2. PageStep(At("over")) BY <1>3 DEF Page
  <2>3. CASE ReadLine BY <2>1, <2>3, ReadOrder, ReadVerdict
  <2>4. CASE ReadEnd(At("over")) \/ ReadFails
    <3>1. ReadEnd(At("over")) => \E closed \in BOOLEAN : ReadEnd(closed)
      BY DEF ReadEnd
    <3> QED BY <2>1, <2>4, <3>1, PageEnd, EndOrder, EndVerdict
  <2> QED BY <2>2, <2>3, <2>4 DEF PageStep
<1>4. CASE Breaks
  <2>1. UNCHANGED <<setup, stage, outcome>> /\ LinkBreaks
    BY <1>4 DEF Breaks, threadVars
  <2> QED BY <2>1, PageEnd, EndOrder, EndVerdict
<1>5. CASE RunAgain
  <2>1. UNCHANGED <<setup, outcome, streamVars>> /\ stage' = "admit"
    BY <1>5 DEF RunAgain
  <2> QED BY <1>5, <2>1, AgainPlace, VerdictUnwatched
<1> QED BY <1>1, <1>2, <1>3, <1>4, <1>5 DEF Next

LEMMA VerdictInit == ASSUME Init PROVE OrderInv /\ VerdictInv
<1>1. outbox = <<>> /\ wire = <<>> BY DEF Init, StreamInit
<1>2. DOMAIN outbox = {} /\ DOMAIN wire = {} BY <1>1
<1>3. emitter = [sequence |-> 0, stage |-> "task framing", cycle |-> 0]
  BY DEF Init, StreamInit
<1>4. page = [read |-> 0, framed |-> FALSE, terminal |-> "none", verdict |-> "none"]
  BY DEF Init, StreamInit
<1>5. outcome = "running" /\ stage \in {"prepare", "admit", "direct"} BY DEF Init
<1>6. OrderInv BY <1>1, <1>2, <1>3, <1>4 DEF OrderInv, StartsOnce, FrameFirst
<1>7. VerdictInv BY <1>2, <1>4, <1>5 DEF VerdictInv
<1> QED BY <1>6, <1>7

LEMMA VerdictInvariance == Spec => [](OrderInv /\ VerdictInv)
<1>1. (OrderInv /\ VerdictInv) /\ StageInv /\ SaidInv /\ [Next]_vars
        => (OrderInv /\ VerdictInv)'
  BY VerdictNext
<1>2. Init => OrderInv /\ VerdictInv BY VerdictInit
<1> QED BY <1>1, <1>2, PlaceInvariance, SaidInvariance, PTL DEF Spec

-----------------------------------------------------------------------------
(* Every step keeps the promise.                                           *)

(* What the promise can see.                                               *)
promised == <<outcome, link = "up", told>>

LEMMA InitPromises == ASSUME Init PROVE Promise!Init
<1>1. page.verdict = "none" /\ link = "up" /\ outcome = "running" BY DEF Init, StreamInit
<1>2. stage # "told" BY DEF Init
<1> QED BY <1>1, <1>2 DEF Promise!Init, told

LEMMA StandsPromises ==
  ASSUME UNCHANGED <<setup, stage, outcome, streamVars>> PROVE UNCHANGED promised
BY DEF promised, told, Watched, streamVars

(* The thread decides.                                                     *)
LEMMA DeliversPromises ==
  ASSUME VerdictInv, Delivers PROVE Promise!Decide \/ UNCHANGED promised
<1>1. outcome = "running" /\ stage # "told" /\ stage' # "told"
  BY DEF VerdictInv, Delivers
<1>2. UNCHANGED <<setup, link, page>> BY DEF Delivers, sayRest
<1>3. told' = told /\ (link = "up")' = (link = "up") BY <1>1, <1>2 DEF told, Watched
<1>4. outcome' \in {"running"} \cup Promise!Outcomes
  BY DEF Delivers, Terminal, Promise!Outcomes
<1> QED BY <1>1, <1>3, <1>4 DEF Promise!Decide, promised

(* Lines that are sent or read are not the verdict.                        *)
LEMMA LinesPromise ==
  ASSUME UNCHANGED <<setup, stage, outcome, link>>, page'.verdict = page.verdict
  PROVE  UNCHANGED promised
BY DEF promised, told, Watched

(* The page tells the outcome, or an error once the connection is gone.    *)
LEMMA PageTells ==
  ASSUME VerdictInv, SaidInv, Watched, UNCHANGED <<setup, stage, outcome>>,
         ReadEnd(At("over")) \/ ReadFails
  PROVE  Promise!Tell
<1>1. /\ page.verdict = "none" /\ link' = link
      /\ page \in [read: Nat, framed: {page.framed}, terminal: {"none"} \cup Terminal,
                   verdict: {"none", "error"} \cup Terminal]
  BY DEF ReadEnd, ReadFails, SaidInv, StreamType
<1>2. told = "none" /\ told' = page'.verdict BY <1>1 DEF told, Watched
<1>3. CASE ReadEnd(At("over"))
  <2>1. link = "up" /\ wire = <<>> /\ outbox = <<>> /\ stage = "over"
    BY <1>3 DEF ReadEnd, At
  <2>2. DOMAIN wire = {} /\ DOMAIN outbox = {} BY <2>1
  <2>3. page.terminal = outcome /\ page.terminal # "none" /\ outcome # "running"
    BY <2>1, <2>2 DEF VerdictInv, EndSeen
  <2> DEFINE v == IF page.terminal = "none" THEN "error" ELSE page.terminal
  <2>4. page' = [page EXCEPT !.verdict = v] /\ v = outcome BY <1>3, <2>3 DEF ReadEnd
  <2> HIDE DEF v
  <2>5. page'.verdict = outcome BY <1>1, <2>4
  <2> QED BY <1>1, <1>2, <2>3, <2>5 DEF Promise!Tell
<1>4. CASE ReadFails
  <2>1. page'.verdict = "error" /\ link = "gone" BY <1>1, <1>4 DEF ReadFails
  <2> QED BY <1>1, <1>2, <2>1 DEF Promise!Tell
<1> QED BY <1>3, <1>4

LEMMA StepPromises ==
  ASSUME OrderInv, VerdictInv, StageInv, SaidInv, [Next]_vars
  PROVE  Promise!Next \/ UNCHANGED promised
<1>1. CASE Thread
  <2>1. CASE SayNext
    <3>1. UNCHANGED <<threadVars, link, page>> BY <2>1, NextIsSaid
    <3> QED BY <3>1, LinesPromise DEF threadVars
  <2>2. CASE ReturnCase
    <3>1. /\ UNCHANGED <<setup, outcome, streamVars>> /\ stage' = "told"
          /\ stage = "over" /\ ~Watched
      BY <2>2 DEF ReturnCase, At
    <3>2. outcome # "running" BY <3>1 DEF VerdictInv
    <3>3. told = "none" /\ told' = outcome /\ link' = link
      BY <3>1 DEF told, Watched, streamVars
    <3> QED BY <3>1, <3>2, <3>3 DEF Promise!Next, Promise!Tell
  <2>3. CASE ~SayNext /\ ~ReturnCase
    <3>1. CASE Delivers BY <3>1, DeliversPromises DEF Promise!Next
    <3>2. CASE Stands BY <3>2, StandsPromises DEF Stands
    <3> QED BY <1>1, <2>3, <3>1, <3>2, ThreadDelivers
  <2> QED BY <2>1, <2>2, <2>3
<1>2. CASE Sandbox \/ Docker \/ Finished \/ UNCHANGED vars
  <2>1. UNCHANGED <<setup, stage, outcome, streamVars>>
    BY <1>2 DEF Sandbox, Docker, Finished, vars, threadVars
  <2> QED BY <2>1, StandsPromises
<1>3. CASE Page
  <2>1. UNCHANGED <<setup, stage, outcome>> /\ Watched BY <1>3 DEF Page, threadVars
  <2>2. PageStep(At("over")) BY <1>3 DEF Page
  <2>3. CASE ReadLine
    <3>1. link' = link /\ page'.verdict = page.verdict BY <2>1, <2>3, NextIsRead
    <3> QED BY <2>1, <3>1, LinesPromise
  <2>4. CASE ReadEnd(At("over")) \/ ReadFails
    BY <2>1, <2>4, PageTells DEF Promise!Next
  <2> QED BY <2>2, <2>3, <2>4 DEF PageStep
<1>4. CASE Breaks
  <2>1. UNCHANGED <<setup, stage, outcome, page>> /\ Watched
          /\ page.verdict = "none" /\ link = "up" /\ link' = "gone"
    BY <1>4 DEF Breaks, LinkBreaks, threadVars
  <2>2. told = "none" /\ told' = told BY <2>1 DEF told, Watched
  <2> QED BY <2>1, <2>2 DEF Promise!Next, Promise!Break
<1>5. CASE RunAgain
  <2>1. UNCHANGED <<setup, outcome, streamVars>> /\ stage' = "admit"
    BY <1>5 DEF RunAgain
  <2>2. ~Watched /\ stage = "execute" BY <1>5, AgainPlace
  <2> QED BY <2>1, <2>2 DEF promised, told, Watched, streamVars
<1> QED BY <1>1, <1>2, <1>3, <1>4, <1>5 DEF Next

(* The safety half of KeepsRunPromise: whatever happens on the way, the    *)
(* page tells at most one verdict, the outcome of the run, or an error     *)
(* after the connection broke; a case returns its outcome.  That it does   *)
(* so in the end needs fairness, and stays with the model checker.         *)
THEOREM RunsKeepPromiseSafely ==
  Spec => Promise!Init /\ [][Promise!Next]_<<outcome, link = "up", told>>
<1>1. ASSUME OrderInv, VerdictInv, StageInv, SaidInv, [Next]_vars
      PROVE  [Promise!Next]_<<outcome, link = "up", told>>
  BY <1>1, StepPromises DEF promised
<1> QED
  BY <1>1, InitPromises, VerdictInvariance, PlaceInvariance, SaidInvariance, PTL DEF Spec
=============================================================================
