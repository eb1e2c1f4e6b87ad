---------------------------- MODULE CapabilityRun ----------------------------
(***************************************************************************)
(* The capability experiment (evaluation/runner.py, artifacts.py,          *)
(* scoring.py): runner processes execute every case in two arms, a scorer  *)
(* process joins the results with the gold labels.  They share nothing but *)
(* the files of CapabilityArtifactStore, and any of them can die between   *)
(* two file writes; a later run resumes from the files.                    *)
(*                                                                         *)
(* A task is a case in one arm, named by its position in the deterministic *)
(* schedule.  Of a result the model keeps the answer, or that the case     *)
(* failed; of started_at, how old it is.                                   *)
(* One file write is one step (a temporary file, fsync and rename).  The   *)
(* telemetry of the provider calls is the exception: it is appended to, so *)
(* a death or a failed write can leave half a line in it.                  *)
(***************************************************************************)
EXTENDS Naturals, FiniteSets

CONSTANTS
  Runners,            (* processes of the command "eval run"               *)
  Answers,            (* what a completed case can have answered           *)
  CaseCount,          (* cases of the selection manifest                   *)
  DirectFirst,        (* cases whose hash puts the direct arm first        *)
  DirectConcurrency,  (* slots of the arm direct_flash                     *)
  BayesConcurrency,   (* slots of the arm bayesprobe_python                *)
  StaleAfter,         (* stale_after (24 hours), in clock ticks            *)
  Refusals,           (* what the inputs of the scoring can make it raise  *)
  MaxFaults           (* bound on crashes and failed writes                *)

ASSUME CapabilityAssumption ==
  /\ CaseCount \in Nat
  /\ {"failed", "none", "open"} \cap Answers = {}
  /\ DirectFirst \subseteq 1 .. CaseCount
  /\ DirectConcurrency \in Nat \ {0} /\ BayesConcurrency \in Nat \ {0}
  /\ StaleAfter \in Nat \ {0} /\ MaxFaults \in Nat
  /\ Refusals \subseteq {"none", "gold", "payload", "markdown"}

(* deterministic_task_schedule: the cases in order, both arms of each.     *)
Tasks == 1 .. 2 * CaseCount

ArmOf(k) ==
  LET first == k % 2 = 1
      case  == (k + 1) \div 2
  IN IF first = (case \in DirectFirst) THEN "direct_flash"
     ELSE "bayesprobe_python"

Slots(arm) ==
  IF arm = "direct_flash" THEN DirectConcurrency ELSE BayesConcurrency

Outcomes == Answers \cup {"failed"}

(* States no run touches any more.                                         *)
Terminal == {"completed", "terminal_failed"}

(* state of an ArmCaseResult.                                              *)
StateOf(outcome) ==
  IF outcome = "failed" THEN "terminal_failed" ELSE "completed"

VARIABLES
  status,    (* status.json of each task                                   *)
  result,    (* result.json of each task, or "none"                        *)
  torn,      (* tasks with a line in provider_invocations.jsonl that does
                not parse                                                  *)
  phase,     (* where each runner stands                                   *)
  at,        (* the schedule position a runner decides on                  *)
  pc,        (* where a runner's worker stands with a task                 *)
  held,      (* the outcome run_case returned to the worker                *)
  copy,      (* the status a runner read before writing it back            *)
  executed,  (* tasks whose run_case has been called                       *)
  scoring,   (* where the scorer stands                                    *)
  loaded,    (* the results the scorer has read                            *)
  details,   (* score_details.json: the results it was made of, or <<>>    *)
  report,    (* summary, paired metrics, provenance: likewise              *)
  marker,    (* scoring_complete.json exists                               *)
  refusal,   (* what the inputs of the scoring make it raise, "open" before
                the first attempt                                          *)
  faults     (* crashes and failed writes so far                           *)

disk   == <<status, result, torn>>
worker == <<phase, at, pc, held, copy, executed>>
scorer == <<scoring, loaded, details, report, marker, refusal>>
vars   == <<disk, worker, scorer, faults>>

NoStatus == [state |-> "absent", attempts |-> 0, age |-> 0]
NoTasks == [k \in Tasks |-> "none"]

Init ==
  /\ status = [k \in Tasks |-> NoStatus]
  /\ result = NoTasks
  /\ torn = {}
  /\ phase = [p \in Runners |-> "idle"]
  /\ at = [p \in Runners |-> 1]
  /\ pc = [p \in Runners |-> NoTasks]
  /\ held = [p \in Runners |-> NoTasks]
  /\ copy = [p \in Runners |-> NoStatus]
  /\ executed = {}
  /\ scoring = "idle" /\ loaded = <<>>
  /\ details = <<>> /\ report = <<>> /\ marker = FALSE
  /\ refusal = "open"
  /\ faults = 0

-----------------------------------------------------------------------------
(* CapabilityExperimentRunner.run, before the thread pool.                 *)

(* The process is gone, and everything that was not in a file.             *)
Stop(p) ==
  /\ phase' = [phase EXCEPT ![p] = "idle"]
  /\ at' = [at EXCEPT ![p] = 1]
  /\ pc' = [pc EXCEPT ![p] = NoTasks]
  /\ held' = [held EXCEPT ![p] = NoTasks]
  /\ copy' = [copy EXCEPT ![p] = NoStatus]

(* initialize_case: a case without status.json becomes pending.            *)
Start(p) ==
  /\ phase[p] = "idle"
  /\ status' = [k \in Tasks |->
                  IF status[k].state = "absent"
                  THEN [status[k] EXCEPT !.state = "pending"]
                  ELSE status[k]]
  /\ phase' = [phase EXCEPT ![p] = "check"]
  /\ UNCHANGED <<result, torn, at, pc, held, copy, executed, scorer, faults>>

(* Mutated form of Stale: a running case is never taken over.              *)
NeverStale(s) == FALSE

Stale(s) == s.age >= StaleAfter

ShouldRun(s) ==
  \/ s.state = "pending"
  \/ s.state = "running" /\ Stale(s)

CheckTask(p) ==
  /\ phase[p] = "check"
  /\ at[p] \in Tasks
  /\ IF ShouldRun(status[at[p]])
     THEN phase' = [phase EXCEPT ![p] = "mark"] /\ UNCHANGED at
     ELSE at' = [at EXCEPT ![p] = @ + 1] /\ UNCHANGED phase
  /\ UNCHANGED <<disk, pc, held, copy, executed, scorer, faults>>

(* mark_running reads the status again: a case that became terminal raises *)
(* out of run, and the cases marked so far are left behind.                *)
ReadToMark(p) ==
  /\ phase[p] = "mark"
  /\ IF status[at[p]].state \in Terminal
     THEN Stop(p)
     ELSE /\ phase' = [phase EXCEPT ![p] = "write"]
          /\ copy' = [copy EXCEPT ![p] = status[at[p]]]
          /\ UNCHANGED <<at, pc, held>>
  /\ UNCHANGED <<disk, executed, scorer, faults>>

MarkRunning(p) ==
  /\ phase[p] = "write"
  /\ status' = [status EXCEPT ![at[p]] =
                  [state |-> "running", attempts |-> copy[p].attempts + 1,
                   age |-> 0]]
  /\ pc' = [pc EXCEPT ![p][at[p]] = "queued"]
  /\ at' = [at EXCEPT ![p] = @ + 1]
  /\ phase' = [phase EXCEPT ![p] = "check"]
  /\ copy' = [copy EXCEPT ![p] = NoStatus]
  /\ UNCHANGED <<result, torn, held, executed, scorer, faults>>

Submit(p) ==
  /\ phase[p] = "check"
  /\ at[p] \notin Tasks
  /\ phase' = [phase EXCEPT ![p] = "pool"]
  /\ UNCHANGED <<disk, at, pc, held, copy, executed, scorer, faults>>

-----------------------------------------------------------------------------
(* The thread pool: _execute_task.  A worker takes the next task of the    *)
(* queue, waits for a slot of its arm, runs the case, and stores the       *)
(* result under the lock of the process.                                   *)

InArm(p) == {k \in Tasks : pc[p][k] \in {"executing", "answered", "writing",
                                         "written"}}
Busy(p) == {k \in Tasks : pc[p][k] = "waiting"} \cup InArm(p)

PickUp(p, k) ==
  /\ phase[p] = "pool"
  /\ pc[p][k] = "queued"
  /\ \A j \in Tasks : pc[p][j] = "queued" => k <= j
  /\ Cardinality(Busy(p)) < DirectConcurrency + BayesConcurrency
  /\ pc' = [pc EXCEPT ![p][k] = "waiting"]
  /\ UNCHANGED <<disk, phase, at, held, copy, executed, scorer, faults>>

Execute(p, k) ==
  /\ pc[p][k] = "waiting"
  /\ Cardinality({j \in InArm(p) : ArmOf(j) = ArmOf(k)}) < Slots(ArmOf(k))
  /\ pc' = [pc EXCEPT ![p][k] = "executing"]
  /\ executed' = executed \cup {k}
  /\ UNCHANGED <<disk, phase, at, held, copy, scorer, faults>>

(* run_case returns; an exception becomes a terminal failure.              *)
Answer(p, k) ==
  /\ pc[p][k] = "executing"
  /\ \E o \in Outcomes : held' = [held EXCEPT ![p][k] = o]
  /\ pc' = [pc EXCEPT ![p][k] = "answered"]
  /\ UNCHANGED <<disk, phase, at, copy, executed, scorer, faults>>

LockFree(p) == \A k \in Tasks : pc[p][k] \notin {"writing", "written"}

(* write_terminal_result raises unless the case is still running.          *)
ReadToStore(p, k) ==
  /\ pc[p][k] = "answered"
  /\ LockFree(p)
  /\ pc' = [pc EXCEPT ![p][k] = IF status[k].state = "running" THEN "writing"
                                ELSE "raised"]
  /\ copy' = IF status[k].state = "running" THEN [copy EXCEPT ![p] = status[k]]
             ELSE copy
  /\ UNCHANGED <<disk, phase, at, held, executed, scorer, faults>>

WriteResult(p, k) == result' = [result EXCEPT ![k] = held[p][k]]

(* Mutated form of WriteStatus: a failed case is put back as pending.      *)
PutBack(p, k) ==
  status' = [status EXCEPT ![k] =
               [copy[p] EXCEPT !.state = IF held[p][k] = "failed" THEN "pending"
                                         ELSE "completed", !.age = 0]]

WriteStatus(p, k) ==
  status' = [status EXCEPT ![k] =
               [copy[p] EXCEPT !.state = StateOf(held[p][k]), !.age = 0]]

(* Mutated form of TerminalWrite: the status is written first.             *)
StatusFirst(p, k, step) ==
  IF step = 1 THEN WriteStatus(p, k) /\ UNCHANGED result
  ELSE WriteResult(p, k) /\ UNCHANGED status

(* The two writes of a terminal result: result.json, then status.json.     *)
TerminalWrite(p, k, step) ==
  IF step = 1 THEN WriteResult(p, k) /\ UNCHANGED status
  ELSE WriteStatus(p, k) /\ UNCHANGED result

StoreFirst(p, k) ==
  /\ pc[p][k] = "writing"
  /\ TerminalWrite(p, k, 1)
  /\ pc' = [pc EXCEPT ![p][k] = "written"]
  /\ UNCHANGED <<torn, phase, at, held, copy, executed, scorer, faults>>

StoreSecond(p, k) ==
  /\ pc[p][k] = "written"
  /\ TerminalWrite(p, k, 2)
  /\ pc' = [pc EXCEPT ![p][k] = "done"]
  /\ held' = [held EXCEPT ![p][k] = "none"]
  /\ copy' = [copy EXCEPT ![p] = NoStatus]
  /\ UNCHANGED <<torn, phase, at, executed, scorer, faults>>

(* The pool is left when every task has ended; then the first exception of *)
(* a task is raised again.                                                 *)
Finish(p) ==
  /\ phase[p] = "pool"
  /\ \A k \in Tasks : pc[p][k] \in {"none", "done", "raised"}
  /\ Stop(p)
  /\ UNCHANGED <<disk, executed, scorer, faults>>

(* run returns its summary instead of raising.                             *)
Completes(p) == Finish(p) /\ \A k \in Tasks : pc[p][k] # "raised"

-----------------------------------------------------------------------------
(* Faults and time.                                                        *)

(* A file write of a worker fails: the task raises.                        *)
WriteFails(p, k) ==
  /\ faults < MaxFaults
  /\ pc[p][k] \in {"writing", "written"}
  /\ pc' = [pc EXCEPT ![p][k] = "raised"]
  /\ copy' = [copy EXCEPT ![p] = NoStatus]
  /\ faults' = faults + 1
  /\ UNCHANGED <<disk, phase, at, held, executed, scorer>>

Executing(p) == {k \in Tasks : pc[p][k] = "executing"}

(* An append to the telemetry of a case stops half way.  The provider call *)
(* swallows the exception and the case goes on; the rest of the line never *)
(* comes, and the next record is appended to what is there.                *)
TearAppend(p, k) ==
  /\ faults < MaxFaults
  /\ k \in Executing(p)
  /\ torn' = torn \cup {k}
  /\ faults' = faults + 1
  /\ UNCHANGED <<status, result, worker, scorer>>

(* The process of a runner dies, in the middle of the appends of some of   *)
(* the cases it executes.                                                  *)
Crash(p) ==
  /\ faults < MaxFaults
  /\ phase[p] # "idle"
  /\ Stop(p)
  /\ \E cut \in SUBSET Executing(p) : torn' = torn \cup cut
  /\ faults' = faults + 1
  /\ UNCHANGED <<status, result, executed, scorer>>

Aging(k) == status[k].state = "running" /\ status[k].age < StaleAfter

Tick ==
  /\ \E k \in Tasks : Aging(k)
  /\ status' = [k \in Tasks |-> IF Aging(k) THEN [status[k] EXCEPT !.age = @ + 1]
                                ELSE status[k]]
  /\ UNCHANGED <<result, torn, worker, scorer, faults>>

-----------------------------------------------------------------------------
(* score_and_write_experiment.                                             *)

(* Mutated form of AllTerminal: cases still running are overlooked.        *)
NonePending == \A k \in Tasks : status[k].state \notin {"absent", "pending"}

AllTerminal == \A k \in Tasks : status[k].state \in Terminal

(* The command is repeated with the inputs of its first attempt.           *)
BeginScoring ==
  /\ scoring = "idle"
  /\ ~marker
  /\ AllTerminal
  /\ scoring' = "load"
  /\ IF refusal = "open" THEN refusal' \in Refusals ELSE UNCHANGED refusal
  /\ UNCHANGED <<disk, worker, loaded, details, report, marker, faults>>

(* Labels of another selection raise, and so does a result.json that does  *)
(* not exist.                                                              *)
LoadResults ==
  /\ scoring = "load"
  /\ IF refusal = "gold" \/ \E k \in Tasks : result[k] = "none"
     THEN scoring' = "idle" /\ UNCHANGED loaded
     ELSE scoring' = "details" /\ loaded' = result
  /\ UNCHANGED <<disk, worker, details, report, marker, refusal, faults>>

WriteDetails ==
  /\ scoring = "details"
  /\ details' = loaded
  /\ scoring' = "telemetry"
  /\ UNCHANGED <<disk, worker, loaded, report, marker, refusal, faults>>

(* Every line of every task's telemetry is parsed, the prices are checked, *)
(* and the guard against leaks reads the payloads of the report.           *)
ReadTelemetry ==
  /\ scoring = "telemetry"
  /\ IF torn # {} \/ refusal = "payload"
     THEN scoring' = "idle" /\ loaded' = <<>>
     ELSE scoring' = "report" /\ UNCHANGED loaded
  /\ UNCHANGED <<disk, worker, details, report, marker, refusal, faults>>

(* summary.json, paired_metrics.json and provenance.json; then the guard   *)
(* reads the summary in Markdown, which is written last.                   *)
WriteReport ==
  /\ scoring = "report"
  /\ report' = loaded
  /\ IF refusal = "markdown"
     THEN scoring' = "idle" /\ loaded' = <<>>
     ELSE scoring' = "marker" /\ UNCHANGED loaded
  /\ UNCHANGED <<disk, worker, details, marker, refusal, faults>>

(* Mutated form of ReportWritten: the marker does not wait for the report. *)
DetailsWritten == scoring \in {"telemetry", "marker"}

ReportWritten == scoring = "marker"

MarkScored ==
  /\ ReportWritten
  /\ marker' = TRUE
  /\ scoring' = "idle"
  /\ loaded' = <<>>
  /\ UNCHANGED <<disk, worker, details, report, refusal, faults>>

ScorerCrash ==
  /\ faults < MaxFaults
  /\ scoring # "idle"
  /\ scoring' = "idle"
  /\ loaded' = <<>>
  /\ faults' = faults + 1
  /\ UNCHANGED <<disk, worker, details, report, marker, refusal>>

-----------------------------------------------------------------------------
RunnerStep(p) ==
  \/ Start(p) \/ CheckTask(p) \/ ReadToMark(p) \/ MarkRunning(p) \/ Submit(p)
  \/ \E k \in Tasks :
       \/ PickUp(p, k) \/ Execute(p, k) \/ Answer(p, k)
       \/ ReadToStore(p, k) \/ StoreFirst(p, k) \/ StoreSecond(p, k)
  \/ Finish(p)

ScorerStep ==
  \/ BeginScoring \/ LoadResults \/ WriteDetails
  \/ ReadTelemetry \/ WriteReport \/ MarkScored

Fault ==
  \/ \E p \in Runners : Crash(p)
  \/ \E p \in Runners, k \in Tasks : WriteFails(p, k) \/ TearAppend(p, k)
  \/ ScorerCrash

Next == (\E p \in Runners : RunnerStep(p)) \/ ScorerStep \/ Tick \/ Fault

Spec == Init /\ [][Next]_vars

(* The operator starts a run again when one has ended and scores when the  *)
(* command no longer refuses; a started process goes on, a case answers    *)
(* (every provider call and sandbox run has a timeout), and time passes.   *)
FairSpec ==
  /\ Spec
  /\ \A p \in Runners : WF_vars(RunnerStep(p))
  /\ WF_vars(ScorerStep)
  /\ WF_vars(Tick)

-----------------------------------------------------------------------------
(* Properties.                                                             *)

Status ==
  [state: {"absent", "pending", "running"} \cup {"completed", "terminal_failed"},
   attempts: 0 .. MaxFaults + 1, age: 0 .. StaleAfter]

Scores == {<<>>} \cup [Tasks -> Outcomes]

(* Every variable has its type; with one runner a case is tried again only *)
(* after a fault.                                                          *)
TypeOK ==
  /\ status \in [Tasks -> Status]
  /\ result \in [Tasks -> Outcomes \cup {"none"}]
  /\ torn \subseteq Tasks
  /\ phase \in [Runners -> {"idle", "check", "mark", "write", "pool"}]
  /\ at \in [Runners -> 1 .. 2 * CaseCount + 1]
  /\ pc \in [Runners -> [Tasks -> {"none", "queued", "waiting", "executing",
                                   "answered", "writing", "written", "done",
                                   "raised"}]]
  /\ held \in [Runners -> [Tasks -> Outcomes \cup {"none"}]]
  /\ copy \in [Runners -> Status]
  /\ executed \subseteq Tasks
  /\ scoring \in {"idle", "load", "details", "telemetry", "report", "marker"}
  /\ loaded \in Scores /\ details \in Scores /\ report \in Scores
  /\ marker \in BOOLEAN /\ refusal \in Refusals \cup {"open"}
  /\ faults \in 0 .. MaxFaults

(* A case that counts as completed has an answer in result.json, one that  *)
(* counts as failed has none: the status never runs ahead of the result,   *)
(* wherever a process died.                                                *)
StatusMatchesResult ==
  \A k \in Tasks :
    /\ status[k].state = "completed" => result[k] \in Answers
    /\ status[k].state = "terminal_failed" => result[k] = "failed"

(* The marker that forbids a second scoring exists only beside the details *)
(* and the report of the results on disk, with nothing refused and every   *)
(* line of telemetry counted: a scorer that dies or raises leaves an       *)
(* experiment that can be scored again.                                    *)
MarkerSealsReport ==
  marker => /\ details = result /\ report = result
            /\ torn = {} /\ refusal = "none"

(* The abstract experiment: a case settles when its status turns terminal. *)
Promise == INSTANCE CapabilityPromise WITH
  settled   <- [k \in Tasks |->
                  IF status[k].state \in {"completed", "terminal_failed"}
                  THEN result[k] ELSE "open"],
  published <- report

(* With one runner, crashes and resumes between any two writes do not show:*)
(* a case settles once and the report is published once, of those results. *)
KeepsPromise == Promise!Spec

(* Whatever the faults, runs that are started again settle every case, and *)
(* scorings that are started again end with the marker, unless they are    *)
(* bound to raise: a line of telemetry that was cut off stays as it is and *)
(* so does what the guards refuse, so no scoring ever passes it.           *)
ExperimentEnds ==
  /\ <>(\A k \in Tasks : status[k].state \in {"completed", "terminal_failed"})
  /\ <>(marker \/ torn # {} \/ refusal \in {"gold", "payload", "markdown"})

(* "Completed and terminal-failed cases are immutable" (HLE capability      *)
(* pilot design): whatever runs, a settled case keeps its files.           *)
TerminalIsImmutable ==
  [][\A k \in Tasks : status[k].state \in {"completed", "terminal_failed"}
       => status'[k] = status[k] /\ result'[k] = result[k]]_vars

(* "Resume after interruption neither duplicates completed work nor skips  *)
(* pending work" (HLE capability pilot design): a run that ends without an *)
(* error leaves no case that was never executed.                           *)
ResumeSkipsNoWork ==
  [][\A p \in Runners : Completes(p) => executed = Tasks]_vars
=============================================================================
