------------------------ MODULE CapabilityRunProofs ------------------------
(***************************************************************************)
(* Theorems about CapabilityRun with one runner process at a time, for any *)
(* number of cases, slots, faults and runs that are started again.  With   *)
(* two runners at once they do not hold: the run capability_overlap shows  *)
(* how.                                                                    *)
(***************************************************************************)
EXTENDS CapabilityRun, TLAPS

OneRunner == \A p, q \in Runners : p = q

StatusFiles ==
  [state: {"absent", "pending", "running", "completed", "terminal_failed"},
   attempts: Nat, age: Nat]

WorkerPlaces == {"none", "queued", "waiting", "executing", "answered",
                 "writing", "written", "done", "raised"}

FileType ==
  /\ status \in [Tasks -> StatusFiles]
  /\ result \in [Tasks -> Outcomes \cup {"none"}]
  /\ torn \subseteq Tasks

RunnerType ==
  /\ phase \in [Runners -> {"idle", "check", "mark", "write", "pool"}]
  /\ at \in [Runners -> Nat]
  /\ pc \in [Runners -> [Tasks -> WorkerPlaces]]
  /\ held \in [Runners -> [Tasks -> Outcomes \cup {"none"}]]
  /\ copy \in [Runners -> StatusFiles]

ScorerType ==
  /\ scoring \in {"idle", "load", "details", "telemetry", "report", "marker"}
  /\ marker \in BOOLEAN
  /\ refusal \in Refusals \cup {"open"}

(* A task that is in the hands of the runner is running, and so nobody's   *)
(* settled result; workers work while the pool is open only.               *)
WorkerInv(p) ==
  /\ phase[p] \in {"mark", "write"} =>
       at[p] \in Tasks /\ status[at[p]].state \notin Terminal
  /\ \A k \in Tasks :
       /\ pc[p][k] \in {"queued", "waiting", "executing", "answered", "writing",
                        "written"} => status[k].state = "running"
       /\ pc[p][k] \notin {"none", "queued"} => phase[p] = "pool"
       /\ pc[p][k] \in {"answered", "writing", "written"} => held[p][k] \in Outcomes
       /\ pc[p][k] = "written" => result[k] = held[p][k]

(* Once the scorer has begun everything is settled, what it has read and   *)
(* written is what the files say, and it is past what makes it raise.      *)
ScorerInv ==
  /\ scoring # "idle" => AllTerminal /\ refusal # "open"
  /\ scoring \in {"details", "telemetry", "report", "marker"} =>
       loaded = result /\ refusal # "gold"
  /\ scoring \in {"telemetry", "report", "marker"} => details = result
  /\ scoring \in {"report", "marker"} => torn = {} /\ refusal # "payload"
  /\ scoring = "marker" => report = result /\ refusal # "markdown"
  /\ report # <<>> => AllTerminal /\ report = result
  /\ marker => /\ AllTerminal /\ details = result /\ report = result
               /\ torn = {} /\ refusal = "none"

(* The inductive invariant.                                                *)
IInv ==
  /\ FileType /\ RunnerType /\ ScorerType
  /\ StatusMatchesResult
  /\ \A p \in Runners : WorkerInv(p)
  /\ ScorerInv

(* Settled files stay what they are, and once all are settled nobody       *)
(* appends to the telemetry any more.                                      *)
Keeps ==
  /\ \A k \in Tasks : status[k].state \in Terminal
       => status'[k] = status[k] /\ result'[k] = result[k]
  /\ AllTerminal => torn' = torn

-----------------------------------------------------------------------------
LEMMA InitInv == ASSUME Init PROVE IInv
<1>1. NoStatus \in StatusFiles /\ NoStatus.state = "absent"
  BY DEF NoStatus, StatusFiles
<1>2. FileType /\ ScorerType
  BY <1>1 DEF Init, FileType, ScorerType, NoTasks
<1>3. RunnerType
  BY <1>1 DEF Init, RunnerType, NoTasks, WorkerPlaces
<1>4. StatusMatchesResult
  BY <1>1 DEF Init, StatusMatchesResult
<1>5. \A p \in Runners : WorkerInv(p)
  BY DEF Init, WorkerInv, NoTasks
<1>6. ScorerInv
  BY DEF Init, ScorerInv
<1> QED
  BY <1>2, <1>3, <1>4, <1>5, <1>6 DEF IInv

(* What Stop leaves of a runner satisfies anything asked of one.           *)
LEMMA StopKeeps ==
  ASSUME IInv, NEW p \in Runners, Stop(p), UNCHANGED <<status, result>>
  PROVE  RunnerType' /\ \A q \in Runners : WorkerInv(q)'
<1>1. RunnerType'
  BY CapabilityAssumption DEF IInv, RunnerType, Stop, NoTasks, NoStatus,
     StatusFiles, WorkerPlaces
<1>2. ASSUME NEW q \in Runners PROVE WorkerInv(q)'
  <2>1. CASE q = p
    BY <2>1 DEF IInv, RunnerType, WorkerInv, Stop, NoTasks
  <2>2. CASE q # p
    BY <2>2 DEF IInv, RunnerType, WorkerInv, Stop
  <2> QED
    BY <2>1, <2>2
<1> QED
  BY <1>1, <1>2

(* While nothing that is settled changes the scorer's files are right.     *)
LEMMA ScorerKeeps ==
  ASSUME IInv, Keeps, FileType', UNCHANGED scorer
  PROVE  ScorerType' /\ ScorerInv'
<1>1. AllTerminal => status' = status /\ result' = result /\ torn' = torn
  BY DEF IInv, FileType, Keeps, AllTerminal
<1> QED
  BY <1>1 DEF IInv, ScorerType, ScorerInv, AllTerminal, scorer

-----------------------------------------------------------------------------
(* The steps of the runner before the pool.                                *)

LEMMA StartKeeps ==
  ASSUME IInv, NEW p \in Runners, OneRunner, Start(p) PROVE IInv' /\ Keeps
<1>1. FileType' /\ Keeps /\ StatusMatchesResult'
  BY DEF IInv, FileType, StatusFiles, Start, Keeps, Terminal,
         StatusMatchesResult
<1>2. RunnerType'
  BY DEF IInv, RunnerType, Start
<1>3. \A q \in Runners : WorkerInv(q)'
  BY DEF IInv, FileType, StatusFiles, RunnerType, WorkerInv, Start, OneRunner,
         Terminal
<1> QED
  BY <1>1, <1>2, <1>3, ScorerKeeps DEF IInv, Start

LEMMA CheckKeeps ==
  ASSUME IInv, NEW p \in Runners, OneRunner, CheckTask(p) \/ Submit(p)
  PROVE  IInv' /\ Keeps
<1>1. FileType' /\ Keeps /\ StatusMatchesResult'
  BY DEF IInv, FileType, CheckTask, Submit, disk, Keeps, StatusMatchesResult
<1>2. RunnerType'
  <2>1. RunnerType
    BY DEF IInv
  <2>2. [at EXCEPT ![p] = @ + 1] \in [Runners -> Nat]
    BY <2>1 DEF RunnerType
  <2> QED
    BY <2>1, <2>2 DEF RunnerType, CheckTask, Submit
<1>3. \A q \in Runners : WorkerInv(q)'
  BY DEF IInv, RunnerType, WorkerInv, CheckTask, Submit, OneRunner, disk,
         ShouldRun, Terminal
<1> QED
  BY <1>1, <1>2, <1>3, ScorerKeeps DEF IInv, CheckTask, Submit

LEMMA ReadToMarkKeeps ==
  ASSUME IInv, NEW p \in Runners, OneRunner, ReadToMark(p) PROVE IInv' /\ Keeps
<1>1. FileType' /\ Keeps /\ StatusMatchesResult'
  BY DEF IInv, FileType, ReadToMark, disk, Keeps, StatusMatchesResult
<1>2. at[p] \in Tasks /\ status[at[p]].state \notin Terminal
  BY DEF IInv, WorkerInv, ReadToMark
<1>3. RunnerType'
  BY <1>2 DEF IInv, FileType, RunnerType, ReadToMark
<1>4. ASSUME NEW q \in Runners PROVE WorkerInv(q)'
  BY <1>2 DEF IInv, RunnerType, WorkerInv, ReadToMark, OneRunner, disk
<1> QED
  BY <1>1, <1>3, <1>4, ScorerKeeps DEF IInv, ReadToMark

LEMMA MarkRunningKeeps ==
  ASSUME IInv, NEW p \in Runners, OneRunner, MarkRunning(p) PROVE IInv' /\ Keeps
<1>1. at[p] \in Tasks /\ status[at[p]].state \notin Terminal
  BY DEF IInv, WorkerInv, MarkRunning
<1>2. FileType'
  BY <1>1 DEF IInv, FileType, RunnerType, StatusFiles, MarkRunning
<1>3. Keeps /\ StatusMatchesResult'
  BY <1>1 DEF IInv, FileType, MarkRunning, Keeps, StatusMatchesResult
<1>4. RunnerType'
  BY <1>1 DEF IInv, RunnerType, MarkRunning, WorkerPlaces, StatusFiles, NoStatus
<1>5. ASSUME NEW q \in Runners PROVE WorkerInv(q)'
  BY <1>1 DEF IInv, FileType, RunnerType, WorkerInv, MarkRunning, OneRunner
<1> QED
  BY <1>2, <1>3, <1>4, <1>5, ScorerKeeps DEF IInv, MarkRunning

-----------------------------------------------------------------------------
(* The workers of the pool.                                                *)

LEMMA WorkerKeeps ==
  ASSUME IInv, NEW p \in Runners, OneRunner, NEW k \in Tasks,
         PickUp(p, k) \/ Execute(p, k) \/ Answer(p, k) \/ ReadToStore(p, k)
  PROVE  IInv' /\ Keeps
<1>1. FileType' /\ Keeps /\ StatusMatchesResult'
  BY DEF IInv, FileType, PickUp, Execute, Answer, ReadToStore, disk, Keeps,
         StatusMatchesResult
<1>2. RunnerType'
  <2>1. RunnerType /\ status[k] \in StatusFiles
    BY DEF IInv, FileType
  <2>2. CASE Answer(p, k)
    <3>1. PICK o \in Outcomes : held' = [held EXCEPT ![p][k] = o]
      BY <2>2 DEF Answer
    <3>2. held' \in [Runners -> [Tasks -> Outcomes \cup {"none"}]]
      BY <2>1, <3>1 DEF RunnerType
    <3>3. pc' \in [Runners -> [Tasks -> WorkerPlaces]]
      BY <2>1, <2>2 DEF RunnerType, WorkerPlaces, Answer
    <3> QED
      BY <2>1, <2>2, <3>2, <3>3 DEF RunnerType, Answer
  <2>3. CASE ReadToStore(p, k)
    <3>1. copy' \in [Runners -> StatusFiles]
      BY <2>1, <2>3 DEF RunnerType, ReadToStore
    <3>2. pc' \in [Runners -> [Tasks -> WorkerPlaces]]
      BY <2>1, <2>3 DEF RunnerType, WorkerPlaces, ReadToStore
    <3> QED
      BY <2>1, <2>3, <3>1, <3>2 DEF RunnerType, ReadToStore
  <2>4. CASE PickUp(p, k) \/ Execute(p, k)
    <3>1. \A v \in WorkerPlaces :
            [pc EXCEPT ![p][k] = v] \in [Runners -> [Tasks -> WorkerPlaces]]
      BY <2>1 DEF RunnerType
    <3>2. "waiting" \in WorkerPlaces /\ "executing" \in WorkerPlaces
      BY DEF WorkerPlaces
    <3>3. pc' \in [Runners -> [Tasks -> WorkerPlaces]]
      BY <2>4, <3>1, <3>2 DEF PickUp, Execute
    <3> QED
      BY <2>1, <2>4, <3>3 DEF RunnerType, PickUp, Execute
  <2> QED
    BY <2>2, <2>3, <2>4
<1>3. ASSUME NEW q \in Runners PROVE WorkerInv(q)'
  BY DEF IInv, RunnerType, WorkerPlaces, WorkerInv, PickUp, Execute, Answer,
         ReadToStore, OneRunner, disk
<1> QED
  BY <1>1, <1>2, <1>3, ScorerKeeps DEF IInv, PickUp, Execute, Answer, ReadToStore

LEMMA StoreFirstKeeps ==
  ASSUME IInv, NEW p \in Runners, OneRunner, NEW k \in Tasks, StoreFirst(p, k)
  PROVE  IInv' /\ Keeps
<1>1. /\ result' = [result EXCEPT ![k] = held[p][k]]
      /\ status' = status /\ torn' = torn
      /\ status[k].state = "running" /\ held[p][k] \in Outcomes
  BY DEF IInv, WorkerInv, StoreFirst, TerminalWrite, WriteResult
<1>2. FileType' /\ Keeps /\ StatusMatchesResult'
  BY <1>1 DEF IInv, FileType, Keeps, StatusMatchesResult, Terminal
<1>3. RunnerType'
  BY DEF IInv, RunnerType, WorkerPlaces, StoreFirst
<1>4. ASSUME NEW q \in Runners PROVE WorkerInv(q)'
  BY <1>1 DEF IInv, FileType, RunnerType, WorkerInv, StoreFirst, OneRunner
<1> QED
  BY <1>2, <1>3, <1>4, ScorerKeeps DEF IInv, StoreFirst

(* The second write settles the task with the result the first has left.   *)
LEMMA StoreSecondSettles ==
  ASSUME IInv, NEW p \in Runners, NEW k \in Tasks, StoreSecond(p, k)
  PROVE  /\ status[k].state = "running"
         /\ result' = result /\ result[k] \in Outcomes /\ torn' = torn
         /\ status' \in [Tasks -> StatusFiles]
         /\ status'[k].state = StateOf(result[k])
         /\ \A j \in Tasks \ {k} : status'[j] = status[j]
<1>1. status' = [status EXCEPT ![k] =
                   [copy[p] EXCEPT !.state = StateOf(held[p][k]), !.age = 0]]
      /\ result' = result /\ torn' = torn
  BY DEF StoreSecond, TerminalWrite, WriteStatus
<1>2. /\ status[k].state = "running"
      /\ held[p][k] \in Outcomes /\ result[k] = held[p][k]
  BY DEF IInv, WorkerInv, StoreSecond
<1>3. [copy[p] EXCEPT !.state = StateOf(held[p][k]), !.age = 0] \in StatusFiles
  BY DEF IInv, RunnerType, StatusFiles, StateOf
<1> QED
  BY <1>1, <1>2, <1>3 DEF IInv, FileType, RunnerType, StatusFiles

LEMMA StoreSecondKeeps ==
  ASSUME IInv, NEW p \in Runners, OneRunner, NEW k \in Tasks, StoreSecond(p, k)
  PROVE  IInv' /\ Keeps
<1>1. /\ status[k].state = "running"
      /\ result' = result /\ result[k] \in Outcomes /\ torn' = torn
      /\ status' \in [Tasks -> StatusFiles]
      /\ status'[k].state = StateOf(result[k])
      /\ \A j \in Tasks \ {k} : status'[j] = status[j]
  BY StoreSecondSettles
<1>2. FileType' /\ Keeps /\ StatusMatchesResult'
  BY <1>1 DEF IInv, FileType, Keeps, StatusMatchesResult, StateOf, Terminal,
     Outcomes
<1>3. RunnerType'
  BY DEF IInv, RunnerType, WorkerPlaces, StoreSecond, NoStatus, StatusFiles
<1>4. ASSUME NEW q \in Runners PROVE WorkerInv(q)'
  <2>1. /\ RunnerType /\ WorkerInv(p) /\ q = p
        /\ pc' = [pc EXCEPT ![p][k] = "done"]
        /\ held' = [held EXCEPT ![p][k] = "none"]
        /\ UNCHANGED <<phase, at>>
        /\ phase[p] = "pool"
    BY DEF IInv, WorkerInv, StoreSecond, OneRunner
  <2>2. \A j \in Tasks \ {k} : pc'[p][j] = pc[p][j] /\ held'[p][j] = held[p][j]
    BY <2>1 DEF RunnerType
  <2>3. pc'[p][k] = "done"
    BY <2>1 DEF RunnerType
  <2> QED
    BY <1>1, <2>1, <2>2, <2>3 DEF WorkerInv
<1> QED
  BY <1>2, <1>3, <1>4, ScorerKeeps DEF IInv, StoreSecond

(* A case that is executed is running: not all are settled yet.            *)
LEMMA ExecutingIsRunning ==
  ASSUME IInv, NEW p \in Runners, AllTerminal PROVE Executing(p) = {}
  BY DEF IInv, WorkerInv, Executing, AllTerminal, Terminal

LEMMA FinishKeeps ==
  ASSUME IInv, NEW p \in Runners, Finish(p) \/ Crash(p) PROVE IInv' /\ Keeps
<1>1. /\ Stop(p) /\ UNCHANGED <<status, result, scorer>>
      /\ torn' = torn \/ \E cut \in SUBSET Executing(p) : torn' = torn \cup cut
  BY DEF Finish, Crash, disk
<1>2. FileType' /\ StatusMatchesResult'
  BY <1>1 DEF IInv, FileType, StatusMatchesResult, Executing
<1>3. Keeps
  BY <1>1, ExecutingIsRunning DEF Keeps
<1>4. RunnerType' /\ \A q \in Runners : WorkerInv(q)'
  BY <1>1, StopKeeps
<1> QED
  BY <1>1, <1>2, <1>3, <1>4, ScorerKeeps DEF IInv

LEMMA TearAppendKeeps ==
  ASSUME IInv, NEW p \in Runners, NEW k \in Tasks, TearAppend(p, k)
  PROVE  IInv' /\ Keeps
<1>1. /\ torn' = torn \cup {k} /\ k \in Executing(p)
      /\ UNCHANGED <<status, result, worker, scorer>>
  BY DEF TearAppend
<1>2. FileType' /\ StatusMatchesResult'
  BY <1>1 DEF IInv, FileType, StatusMatchesResult
<1>3. Keeps
  BY <1>1, ExecutingIsRunning DEF Keeps
<1>4. RunnerType' /\ \A q \in Runners : WorkerInv(q)'
  BY <1>1 DEF IInv, RunnerType, WorkerInv, worker
<1> QED
  BY <1>1, <1>2, <1>3, <1>4, ScorerKeeps DEF IInv

LEMMA WriteFailsKeeps ==
  ASSUME IInv, NEW p \in Runners, OneRunner, NEW k \in Tasks, WriteFails(p, k)
  PROVE  IInv' /\ Keeps
<1>1. FileType' /\ Keeps /\ StatusMatchesResult'
  BY DEF IInv, FileType, WriteFails, disk, Keeps, StatusMatchesResult
<1>2. RunnerType'
  BY DEF IInv, RunnerType, WorkerPlaces, WriteFails, NoStatus, StatusFiles
<1>3. ASSUME NEW q \in Runners PROVE WorkerInv(q)'
  BY DEF IInv, RunnerType, WorkerInv, WriteFails, OneRunner, disk
<1> QED
  BY <1>1, <1>2, <1>3, ScorerKeeps DEF IInv, WriteFails

LEMMA TickKeeps == ASSUME IInv, Tick PROVE IInv' /\ Keeps
<1>1. /\ \A k \in Tasks : status'[k].state = status[k].state
      /\ FileType' /\ Keeps
  BY DEF IInv, FileType, StatusFiles, Tick, Aging, Keeps, Terminal
<1>2. StatusMatchesResult'
  BY <1>1 DEF IInv, Tick, StatusMatchesResult
<1>3. RunnerType' /\ \A p \in Runners : WorkerInv(p)'
  BY <1>1 DEF IInv, RunnerType, WorkerInv, Tick, worker
<1> QED
  BY <1>1, <1>2, <1>3, ScorerKeeps DEF IInv, Tick

-----------------------------------------------------------------------------
(* The scorer.                                                             *)

(* What is settled is what a report is made of.                            *)
LEMMA SettledHaveResults ==
  ASSUME FileType, StatusMatchesResult, AllTerminal
  PROVE  \A k \in Tasks : result[k] \in Outcomes
  BY DEF FileType, StatusMatchesResult, AllTerminal, Terminal, Outcomes

LEMMA ScoringKeeps ==
  ASSUME IInv, ScorerStep \/ ScorerCrash PROVE IInv' /\ Keeps
<1>1. UNCHANGED <<disk, worker>>
  BY DEF ScorerStep, ScorerCrash, BeginScoring, LoadResults, WriteDetails,
         ReadTelemetry, WriteReport, MarkScored
<1>2. FileType' /\ RunnerType' /\ StatusMatchesResult' /\ Keeps
  BY <1>1 DEF IInv, FileType, RunnerType, StatusMatchesResult, Keeps, disk, worker
<1>3. \A p \in Runners : WorkerInv(p)'
  BY <1>1 DEF IInv, WorkerInv, disk, worker
<1>4. ScorerType'
  BY DEF IInv, ScorerType, ScorerStep, ScorerCrash, BeginScoring, LoadResults,
         WriteDetails, ReadTelemetry, WriteReport, MarkScored
<1>5. ScorerInv'
  <2>1. AllTerminal' = AllTerminal /\ result' = result
    BY <1>1 DEF AllTerminal, disk
  <2> QED
    BY <1>1, <2>1, CapabilityAssumption
    DEF IInv, ScorerType, ScorerInv, ScorerStep, ScorerCrash, BeginScoring,
       LoadResults, WriteDetails, ReadTelemetry, WriteReport, MarkScored,
       ReportWritten, disk
<1> QED
  BY <1>2, <1>3, <1>4, <1>5 DEF IInv

-----------------------------------------------------------------------------
LEMMA NextInv == ASSUME IInv, OneRunner, [Next]_vars PROVE IInv' /\ Keeps
<1>1. CASE \E p \in Runners : RunnerStep(p)
  BY <1>1, StartKeeps, CheckKeeps, ReadToMarkKeeps, MarkRunningKeeps,
     WorkerKeeps, StoreFirstKeeps, StoreSecondKeeps, FinishKeeps DEF RunnerStep
<1>2. CASE ScorerStep
  BY <1>2, ScoringKeeps
<1>3. CASE Tick
  BY <1>3, TickKeeps
<1>4. CASE Fault
  BY <1>4, FinishKeeps, WriteFailsKeeps, TearAppendKeeps, ScoringKeeps DEF Fault
<1>5. CASE UNCHANGED vars
  <2>1. FileType' /\ RunnerType' /\ ScorerType' /\ StatusMatchesResult' /\ Keeps
    BY <1>5 DEF IInv, FileType, RunnerType, ScorerType, StatusMatchesResult,
       Keeps, vars, disk, worker, scorer
  <2>2. \A p \in Runners : WorkerInv(p)'
    BY <1>5 DEF IInv, WorkerInv, vars, disk, worker
  <2> QED
    BY <1>5, <2>1, <2>2, ScorerKeeps DEF IInv, vars
<1> QED
  BY <1>1, <1>2, <1>3, <1>4, <1>5 DEF Next

LEMMA Invariance == ASSUME OneRunner PROVE Spec => []IInv
<1>0. Init => IInv
  BY InitInv
<1>1. IInv /\ [Next]_vars => IInv'
  BY NextInv
<1> QED
  BY <1>0, <1>1, PTL DEF Spec

-----------------------------------------------------------------------------
(* How often a task is tried: a running task that no worker has in hand    *)
(* was left behind by a fault.                                             *)

FilesCount ==
  /\ faults \in 0 .. MaxFaults
  /\ \A k \in Tasks :
       /\ status[k].age <= StaleAfter /\ status[k].attempts <= faults + 1
       /\ status[k].state \in {"absent", "pending"} => status[k].attempts = 0

RunnerCount(p) ==
  /\ at[p] \in 1 .. 2 * CaseCount + 1
  /\ copy[p].age <= StaleAfter /\ copy[p].attempts <= faults + 1
  /\ phase[p] = "write" => copy[p].attempts <= faults
  /\ \A k \in Tasks :
       /\ phase[p] # "pool" /\ pc[p][k] = "queued" => k < at[p]
       /\ pc[p][k] = "done" => status[k].state \in Terminal
       /\ status[k].state = "running" /\ pc[p][k] \in {"none", "raised"} =>
            status[k].attempts <= faults

ScorerCount ==
  /\ executed \subseteq Tasks
  /\ loaded \in Scores /\ details \in Scores /\ report \in Scores

CountInv ==
  /\ FilesCount
  /\ \A p \in Runners : RunnerCount(p)
  /\ ScorerCount

(* The types that the arithmetic of the counts needs.                      *)
LEMMA CountTypes ==
  ASSUME IInv
  PROVE  /\ CaseCount \in Nat /\ StaleAfter \in Nat /\ MaxFaults \in Nat
         /\ StaleAfter > 0 /\ Tasks \subseteq Nat
         /\ \A k \in Tasks : status[k] \in StatusFiles
         /\ \A p \in Runners : at[p] \in Nat /\ copy[p] \in StatusFiles
  BY CapabilityAssumption DEF IInv, FileType, RunnerType, Tasks

LEMMA InitCount == ASSUME Init PROVE CountInv
<1>1. NoStatus.attempts = 0 /\ NoStatus.age = 0 /\ NoStatus.state = "absent"
  BY DEF NoStatus
<1>2. FilesCount /\ ScorerCount
  BY <1>1, CapabilityAssumption DEF Init, FilesCount, ScorerCount, Scores
<1>3. \A p \in Runners : RunnerCount(p)
  BY <1>1, CapabilityAssumption DEF Init, RunnerCount, NoTasks
<1> QED
  BY <1>2, <1>3 DEF CountInv

LEMMA StopCounts ==
  ASSUME IInv, CountInv, OneRunner, NEW p \in Runners, Stop(p), UNCHANGED status,
         \/ faults' = faults
              /\ \A k \in Tasks : pc[p][k] \in {"none", "done", "raised"}
         \/ faults' = faults + 1 /\ faults < MaxFaults
  PROVE  FilesCount' /\ \A q \in Runners : RunnerCount(q)'
<1>1. FilesCount'
  BY CountTypes DEF CountInv, FilesCount, StatusFiles
<1>2. /\ at'[p] = 1 /\ copy'[p] = NoStatus /\ phase'[p] = "idle"
      /\ \A k \in Tasks : pc'[p][k] = "none"
  BY DEF Stop, IInv, RunnerType, NoTasks
<1>3. \A k \in Tasks : status[k].state = "running" => status[k].attempts <= faults'
  BY CountTypes DEF CountInv, FilesCount, RunnerCount, StatusFiles, Terminal
<1>4. faults' \in Nat /\ NoStatus.age = 0 /\ NoStatus.attempts = 0
  BY CountTypes DEF CountInv, FilesCount, NoStatus
<1>5. RunnerCount(p)'
  <2>1. 1 \in 1 .. 2 * CaseCount + 1 /\ 0 <= StaleAfter /\ 0 <= faults' + 1
    <3>1. CaseCount \in Nat /\ StaleAfter \in Nat BY CapabilityAssumption
    <3>2. faults' \in Nat BY <1>4
    <3>3. \A n \in Nat : 1 \in 1 .. 2 * n + 1 /\ 0 <= n /\ 0 <= n + 1 OBVIOUS
    <3> QED BY <3>1, <3>2, <3>3
  <2>2. at'[p] \in 1 .. 2 * CaseCount + 1
    BY <1>2, <2>1
  <2>3. copy'[p].age <= StaleAfter /\ copy'[p].attempts <= faults' + 1
    BY <1>2, <1>4, <2>1
  <2>4. \A k \in Tasks :
          /\ pc'[p][k] = "none"
          /\ status'[k].state = "running" => status'[k].attempts <= faults'
    BY <1>2, <1>3
  <2> QED
    BY <1>2, <2>2, <2>3, <2>4 DEF RunnerCount
<1> QED
  BY <1>1, <1>5 DEF OneRunner

LEMMA StartCounts ==
  ASSUME IInv, CountInv, OneRunner, NEW p \in Runners, Start(p) PROVE CountInv'
<1>1. \A k \in Tasks :
        /\ status'[k].age = status[k].age
        /\ status'[k].attempts = status[k].attempts
        /\ status'[k].state = IF status[k].state = "absent" THEN "pending"
                              ELSE status[k].state
  BY CountTypes DEF Start, StatusFiles
<1>2. FilesCount'
  BY <1>1 DEF CountInv, FilesCount, Start
<1>3. RunnerCount(p)'
  BY <1>1 DEF CountInv, RunnerCount, Start, Terminal, IInv, RunnerType
<1> QED
  BY <1>2, <1>3 DEF CountInv, OneRunner, ScorerCount, Start, scorer

LEMMA CheckCounts ==
  ASSUME IInv, CountInv, OneRunner, NEW p \in Runners, CheckTask(p) \/ Submit(p)
  PROVE  CountInv'
<1>1. FilesCount' /\ ScorerCount'
  BY DEF CountInv, FilesCount, ScorerCount, CheckTask, Submit, disk, scorer
<1>2. CASE CheckTask(p)
  <2>1. /\ phase[p] = "check" /\ phase'[p] # "write"
        /\ \/ at'[p] = at[p] \/ at'[p] = at[p] + 1
        /\ at[p] \in 1 .. 2 * CaseCount
        /\ UNCHANGED <<status, pc, copy, faults>>
    BY <1>2 DEF CheckTask, IInv, RunnerType, disk, Tasks
  <2>2. RunnerCount(p)'
    BY <2>1, CountTypes DEF CountInv, RunnerCount
  <2> QED
    BY <1>1, <2>2 DEF CountInv, OneRunner
<1>3. CASE Submit(p)
  <2>1. /\ phase'[p] = "pool"
        /\ UNCHANGED <<status, at, pc, copy, faults>>
    BY <1>3 DEF Submit, IInv, RunnerType, disk
  <2>2. RunnerCount(p)'
    BY <2>1 DEF CountInv, RunnerCount
  <2> QED
    BY <1>1, <2>2 DEF CountInv, OneRunner
<1> QED
  BY <1>2, <1>3

(* The task to be marked is pending, or running and in nobody's hands.     *)
LEMMA ReadToMarkCounts ==
  ASSUME IInv, CountInv, OneRunner, NEW p \in Runners, ReadToMark(p)
  PROVE  CountInv'
<1>1. FilesCount' /\ ScorerCount'
  BY DEF CountInv, FilesCount, ScorerCount, ReadToMark, disk, scorer
<1>2. at[p] \in Tasks /\ \A k \in Tasks : pc[p][k] \in {"none", "queued"}
  BY DEF IInv, WorkerInv, ReadToMark
<1>3. status[at[p]].state \notin Terminal
  BY DEF IInv, WorkerInv, ReadToMark
<1>4. /\ phase' = [phase EXCEPT ![p] = "write"]
      /\ copy' = [copy EXCEPT ![p] = status[at[p]]]
      /\ UNCHANGED <<status, at, pc, faults>>
      /\ phase[p] = "mark"
  BY <1>3 DEF ReadToMark, disk
<1>5. phase'[p] = "write" /\ copy'[p] = status[at[p]]
  BY <1>4 DEF IInv, RunnerType
<1>6. pc[p][at[p]] = "none"
  BY <1>2, <1>4, CountTypes DEF CountInv, RunnerCount
<1>7. status[at[p]].attempts <= faults
  BY <1>2, <1>3, <1>6, CountTypes DEF CountInv, FilesCount, RunnerCount,
     StatusFiles, Terminal
<1>8. RunnerCount(p)'
  BY <1>2, <1>4, <1>5, <1>7 DEF CountInv, FilesCount, RunnerCount
<1> QED
  BY <1>1, <1>8 DEF CountInv, OneRunner

LEMMA MarkRunningCounts ==
  ASSUME IInv, CountInv, OneRunner, NEW p \in Runners, MarkRunning(p)
  PROVE  CountInv'
<1>1. /\ at[p] \in Tasks /\ phase[p] = "write"
      /\ copy[p].attempts \in Nat /\ copy[p].attempts <= faults
  BY CountTypes DEF IInv, WorkerInv, MarkRunning, CountInv, RunnerCount,
     StatusFiles
<1>2. /\ status'[at[p]] = [state |-> "running", attempts |-> copy[p].attempts + 1,
                           age |-> 0]
      /\ \A k \in Tasks \ {at[p]} : status'[k] = status[k]
  BY <1>1 DEF MarkRunning, IInv, FileType
<1>3. FilesCount' /\ ScorerCount'
  BY <1>1, <1>2, CountTypes
     DEF CountInv, FilesCount, ScorerCount, MarkRunning, scorer
<1>4. /\ pc'[p][at[p]] = "queued" /\ at'[p] = at[p] + 1
      /\ \A k \in Tasks \ {at[p]} : pc'[p][k] = pc[p][k]
      /\ phase'[p] = "check" /\ copy'[p] = NoStatus /\ faults' = faults
  BY <1>1 DEF MarkRunning, IInv, RunnerType
<1>5. at[p] \in 1 .. 2 * CaseCount /\ faults \in Nat
  BY <1>1 DEF Tasks, CountInv, FilesCount
<1>6. NoStatus.age = 0 /\ NoStatus.attempts = 0
  BY DEF NoStatus
<1>7. RunnerCount(p)'
  <2>1. at'[p] \in 1 .. 2 * CaseCount + 1
    BY <1>4, <1>5, CountTypes
  <2>2. copy'[p].age <= StaleAfter /\ copy'[p].attempts <= faults' + 1
    BY <1>4, <1>5, <1>6, CountTypes
  <2>3. ASSUME NEW k \in Tasks, k # at[p]
        PROVE  /\ pc'[p][k] = "queued" => k < at'[p]
               /\ pc'[p][k] = "done" => status'[k].state \in Terminal
               /\ status'[k].state = "running" /\ pc'[p][k] \in {"none", "raised"} =>
                    status'[k].attempts <= faults'
    BY <1>1, <1>2, <1>4, <1>5, <2>3, CountTypes DEF CountInv, RunnerCount
  <2> QED
    BY <1>1, <1>4, <1>5, <2>1, <2>2, <2>3, CountTypes DEF RunnerCount
<1> QED
  BY <1>3, <1>7 DEF CountInv, OneRunner

LEMMA WorkerCounts ==
  ASSUME IInv, CountInv, OneRunner, NEW p \in Runners, NEW k \in Tasks,
         PickUp(p, k) \/ Execute(p, k) \/ Answer(p, k) \/ ReadToStore(p, k)
           \/ StoreFirst(p, k)
  PROVE  CountInv'
<1>1. /\ UNCHANGED <<status, phase, at, faults, loaded, details, report>>
      /\ executed' \in {executed, executed \cup {k}}
      /\ \E v \in {"waiting", "executing", "answered", "writing", "written"} :
           pc' = [pc EXCEPT ![p][k] = v]
      /\ copy' = copy \/ copy' = [copy EXCEPT ![p] = status[k]]
      /\ phase[p] = "pool"
  <2>1. /\ pc[p][k] \in {"queued", "waiting", "executing", "answered", "writing"}
        /\ pc[p][k] = "queued" => phase[p] = "pool"
        /\ status[k].state = "running" /\ phase[p] = "pool"
    BY DEF IInv, WorkerInv, PickUp, Execute, Answer, ReadToStore, StoreFirst
  <2> QED
    BY <2>1 DEF PickUp, Execute, Answer, ReadToStore, StoreFirst, TerminalWrite,
       disk, scorer
<1>2. FilesCount' /\ ScorerCount'
  BY <1>1 DEF CountInv, FilesCount, ScorerCount
<1>3. PICK v \in {"waiting", "executing", "answered", "writing", "written"} :
        pc' = [pc EXCEPT ![p][k] = v]
  BY <1>1
<1>4. pc'[p][k] = v /\ \A j \in Tasks \ {k} : pc'[p][j] = pc[p][j]
  BY <1>3 DEF IInv, RunnerType
<1>5. copy'[p] \in {copy[p], status[k]}
  BY <1>1 DEF IInv, RunnerType
<1>6. copy'[p].age <= StaleAfter /\ copy'[p].attempts <= faults + 1
  BY <1>5 DEF CountInv, FilesCount, RunnerCount
<1>7. RunnerCount(p)'
  BY <1>1, <1>4, <1>6 DEF CountInv, RunnerCount
<1> QED
  BY <1>2, <1>7 DEF CountInv, OneRunner

LEMMA StoreSecondCounts ==
  ASSUME IInv, CountInv, OneRunner, NEW p \in Runners, NEW k \in Tasks,
         StoreSecond(p, k)
  PROVE  CountInv'
<1>1. /\ status'[k] = [copy[p] EXCEPT !.state = StateOf(held[p][k]), !.age = 0]
      /\ \A j \in Tasks \ {k} : status'[j] = status[j]
  BY DEF StoreSecond, TerminalWrite, WriteStatus, IInv, FileType
<1>2. /\ status'[k].age = 0 /\ status'[k].attempts = copy[p].attempts
      /\ status'[k].state \in Terminal
  BY <1>1, CountTypes DEF StatusFiles, StateOf, Terminal
<1>3. FilesCount' /\ ScorerCount'
  <2>1. /\ faults' = faults /\ executed' = executed
        /\ UNCHANGED <<loaded, details, report>>
        /\ copy[p].attempts <= faults + 1
    BY DEF StoreSecond, scorer, CountInv, RunnerCount
  <2>2. status'[k].state \notin {"absent", "pending"} /\ 0 <= StaleAfter
    BY <1>2, CountTypes DEF Terminal
  <2> QED
    BY <1>1, <1>2, <2>1, <2>2 DEF CountInv, FilesCount, ScorerCount
<1>4. /\ pc'[p][k] = "done" /\ \A j \in Tasks \ {k} : pc'[p][j] = pc[p][j]
      /\ copy'[p] = NoStatus /\ phase'[p] = "pool" /\ at' = at /\ faults' = faults
  BY SMTT(20) DEF StoreSecond, IInv, RunnerType, WorkerInv
<1>5. faults \in Nat /\ NoStatus.age = 0 /\ NoStatus.attempts = 0
  BY DEF NoStatus, CountInv, FilesCount
<1>6. RunnerCount(p)'
  <2>1. copy'[p].age <= StaleAfter /\ copy'[p].attempts <= faults' + 1
    BY <1>4, <1>5, CountTypes
  <2>2. at'[p] \in 1 .. 2 * CaseCount + 1
    BY <1>4 DEF CountInv, RunnerCount
  <2>3. \A j \in Tasks \ {k} :
          /\ pc'[p][j] = "done" => status'[j].state \in Terminal
          /\ status'[j].state = "running" /\ pc'[p][j] \in {"none", "raised"} =>
               status'[j].attempts <= faults'
    BY <1>1, <1>4 DEF CountInv, RunnerCount
  <2> QED
    BY <1>2, <1>4, <2>1, <2>2, <2>3 DEF RunnerCount
<1> QED
  BY <1>3, <1>6 DEF CountInv, OneRunner

LEMMA FinishCounts ==
  ASSUME IInv, CountInv, OneRunner, NEW p \in Runners, Finish(p) \/ Crash(p)
  PROVE  CountInv'
<1>1. Stop(p) /\ UNCHANGED <<status, executed, scorer>>
  BY DEF Finish, Crash, disk
<1>2. \/ faults' = faults
           /\ \A k \in Tasks : pc[p][k] \in {"none", "done", "raised"}
      \/ faults' = faults + 1 /\ faults < MaxFaults
  BY DEF Finish, Crash
<1> QED
  BY <1>1, <1>2, StopCounts DEF CountInv, ScorerCount, scorer

LEMMA TearAppendCounts ==
  ASSUME IInv, CountInv, NEW p \in Runners, NEW k \in Tasks, TearAppend(p, k)
  PROVE  CountInv'
<1>1. /\ faults' = faults + 1 /\ faults \in Nat /\ faults < MaxFaults
      /\ UNCHANGED <<status, worker, scorer>>
  BY DEF TearAppend, CountInv, FilesCount
<1>2. FilesCount' /\ ScorerCount'
  BY <1>1, CountTypes DEF CountInv, FilesCount, ScorerCount, StatusFiles, worker,
     scorer
<1>3. ASSUME NEW q \in Runners PROVE RunnerCount(q)'
  <2>1. copy[q].attempts \in Nat /\ \A j \in Tasks : status[j].attempts \in Nat
    BY CountTypes DEF StatusFiles
  <2> QED
    BY <1>1, <2>1 DEF CountInv, RunnerCount, worker
<1> QED
  BY <1>2, <1>3 DEF CountInv

LEMMA WriteFailsCounts ==
  ASSUME IInv, CountInv, OneRunner, NEW p \in Runners, NEW k \in Tasks,
         WriteFails(p, k)
  PROVE  CountInv'
<1>1. /\ faults' = faults + 1 /\ faults \in Nat /\ faults < MaxFaults
      /\ UNCHANGED <<status, phase, at>>
  BY DEF WriteFails, CountInv, FilesCount, disk
<1>2. FilesCount' /\ ScorerCount'
  BY <1>1, CountTypes DEF CountInv, FilesCount, ScorerCount, StatusFiles,
     WriteFails, scorer
<1>3. /\ pc'[p][k] = "raised" /\ \A j \in Tasks \ {k} : pc'[p][j] = pc[p][j]
      /\ copy'[p] = NoStatus /\ phase[p] = "pool"
  BY DEF WriteFails, IInv, RunnerType, WorkerInv
<1>4. NoStatus.age = 0 /\ NoStatus.attempts = 0
  BY DEF NoStatus
<1>5. \A j \in Tasks : status[j].attempts \in Nat
  BY CountTypes DEF StatusFiles
<1>6. RunnerCount(p)'
  BY <1>1, <1>3, <1>4, <1>5, CountTypes DEF CountInv, FilesCount, RunnerCount
<1> QED
  BY <1>2, <1>6 DEF CountInv, OneRunner

LEMMA TickCounts == ASSUME IInv, CountInv, Tick PROVE CountInv'
<1>1. ASSUME NEW k \in Tasks
      PROVE  /\ status'[k].state = status[k].state
             /\ status'[k].attempts = status[k].attempts
             /\ status'[k].age <= StaleAfter
  <2>1. status[k] \in StatusFiles /\ status[k].age <= StaleAfter
    BY CountTypes DEF CountInv, FilesCount
  <2> QED
    BY <2>1, CountTypes DEF Tick, Aging, StatusFiles
<1>2. FilesCount'
  BY <1>1 DEF CountInv, FilesCount, Tick
<1>3. \A p \in Runners : RunnerCount(p)'
  BY <1>1 DEF CountInv, RunnerCount, Tick, worker
<1> QED
  BY <1>2, <1>3 DEF CountInv, ScorerCount, Tick, worker, scorer

LEMMA ScoringCounts ==
  ASSUME IInv, CountInv, ScorerStep \/ ScorerCrash PROVE CountInv'
<1>1. /\ UNCHANGED <<disk, worker>>
      /\ faults' = faults \/ (faults' = faults + 1 /\ faults < MaxFaults)
  BY DEF ScorerStep, ScorerCrash, BeginScoring, LoadResults, WriteDetails,
         ReadTelemetry, WriteReport, MarkScored
<1>2. faults \in Nat /\ \A k \in Tasks : status[k].attempts \in Nat
  BY CountTypes DEF CountInv, FilesCount, StatusFiles
<1>3. FilesCount'
  BY <1>1, <1>2, CountTypes DEF CountInv, FilesCount, disk
<1>4. ASSUME NEW p \in Runners PROVE RunnerCount(p)'
  <2>1. copy[p].attempts \in Nat
    BY CountTypes DEF StatusFiles
  <2> QED
    BY <1>1, <1>2, <2>1 DEF CountInv, RunnerCount, disk, worker
<1>5. ScorerCount'
  <2>1. scoring = "load" /\ (\A k \in Tasks : result[k] # "none") => result \in Scores
    BY DEF IInv, FileType, Scores
  <2> QED
    BY <1>1, <2>1 DEF CountInv, ScorerCount, ScorerStep, ScorerCrash,
       BeginScoring, LoadResults, WriteDetails, ReadTelemetry, WriteReport,
       MarkScored, worker, Scores
<1> QED
  BY <1>3, <1>4, <1>5 DEF CountInv

LEMMA NextCount ==
  ASSUME IInv, CountInv, OneRunner, [Next]_vars PROVE CountInv'
<1>1. CASE \E p \in Runners : RunnerStep(p)
  BY <1>1, StartCounts, CheckCounts, ReadToMarkCounts, MarkRunningCounts,
     WorkerCounts, StoreSecondCounts, FinishCounts DEF RunnerStep
<1>2. CASE ScorerStep
  BY <1>2, ScoringCounts
<1>3. CASE Tick
  BY <1>3, TickCounts
<1>4. CASE Fault
  BY <1>4, FinishCounts, WriteFailsCounts, TearAppendCounts, ScoringCounts DEF Fault
<1>5. CASE UNCHANGED vars
  BY <1>5 DEF CountInv, FilesCount, RunnerCount, ScorerCount, vars, disk, worker,
     scorer
<1> QED
  BY <1>1, <1>2, <1>3, <1>4, <1>5 DEF Next

(* Every variable has its type; a case is tried again only after a fault,  *)
(* so its attempts are at most one more than the faults (mark_running).    *)
THEOREM TypeCorrect ==
  ASSUME OneRunner PROVE Spec => []TypeOK
<1>1. Init => CountInv
  BY InitCount
<1>2. IInv /\ CountInv /\ [Next]_vars => CountInv'
  BY NextCount
<1>3. ASSUME IInv, CountInv PROVE TypeOK
  <2>1. status \in [Tasks -> Status]
    <3>1. ASSUME NEW k \in Tasks PROVE status[k] \in Status
      BY <1>3, CountTypes DEF CountInv, FilesCount, StatusFiles, Status
    <3> QED
      BY <1>3, <3>1 DEF IInv, FileType
  <2>2. copy \in [Runners -> Status]
    <3>1. ASSUME NEW p \in Runners PROVE copy[p] \in Status
      BY <1>3, CountTypes DEF CountInv, FilesCount, RunnerCount, StatusFiles, Status
    <3> QED
      BY <1>3, <3>1 DEF IInv, RunnerType
  <2>3. at \in [Runners -> 1 .. 2 * CaseCount + 1]
    BY <1>3 DEF IInv, RunnerType, CountInv, RunnerCount
  <2> QED
    BY <1>3, <2>1, <2>2, <2>3 DEF IInv, FileType, RunnerType, ScorerType, CountInv,
       FilesCount, ScorerCount, WorkerPlaces, TypeOK
<1> QED
  BY <1>1, <1>2, <1>3, Invariance, PTL DEF Spec

(* Wherever a runner or a write of it dies, a completed case has its       *)
(* answer in result.json and a failed one has none (write_terminal_result).*)
THEOREM FilesAgree ==
  ASSUME OneRunner PROVE Spec => []StatusMatchesResult
<1>1. IInv => StatusMatchesResult
  BY DEF IInv
<1> QED
  BY <1>1, Invariance, PTL

(* Wherever the scorer dies or raises, the marker exists only beside the   *)
(* details and the report of the results on disk, with no line of          *)
(* telemetry cut off (score_and_write_experiment).                         *)
THEOREM MarkerSeals ==
  ASSUME OneRunner PROVE Spec => []MarkerSealsReport
<1>1. IInv => MarkerSealsReport
  BY DEF IInv, ScorerInv, MarkerSealsReport
<1> QED
  BY <1>1, Invariance, PTL

(* With one runner at a time settled cases are immutable, as the design    *)
(* says; the lock of the store is not needed for it.                       *)
THEOREM SettledForGood ==
  ASSUME OneRunner PROVE Spec => TerminalIsImmutable
<1>1. ASSUME IInv, [Next]_vars
      PROVE  [\A k \in Tasks : status[k].state \in {"completed", "terminal_failed"}
                => status'[k] = status[k] /\ result'[k] = result[k]]_vars
  BY <1>1, NextInv DEF Keeps, Terminal
<1> QED
  BY <1>1, Invariance, PTL DEF Spec, TerminalIsImmutable

-----------------------------------------------------------------------------
(* The refinement.                                                         *)

Settled == [k \in Tasks |->
              IF status[k].state \in {"completed", "terminal_failed"}
              THEN result[k] ELSE "open"]

LEMMA InitPromise == Init => Promise!Init
  BY DEF Init, Promise!Init, NoStatus

(* A step that moves no task into or out of its terminal states and leaves *)
(* the report alone does not show.                                         *)
LEMMA Hidden ==
  ASSUME Keeps, UNCHANGED report,
         \A k \in Tasks : status'[k].state \in Terminal => status[k].state \in Terminal
  PROVE  UNCHANGED <<Settled, report>>
  BY DEF Keeps, Settled, Terminal

LEMMA SecondSettles ==
  ASSUME IInv, NEW p \in Runners, NEW k \in Tasks, StoreSecond(p, k)
  PROVE  Promise!Settle(k)
<1>1. /\ status[k].state = "running"
      /\ result' = result /\ result[k] \in Outcomes
      /\ status'[k].state = StateOf(result[k])
      /\ \A j \in Tasks \ {k} : status'[j] = status[j]
  BY StoreSecondSettles
<1>2. Settled[k] = "open" /\ Settled' = [Settled EXCEPT ![k] = result[k]]
  BY <1>1 DEF Settled, StateOf
<1> QED
  BY <1>1, <1>2 DEF Promise!Settle, Settled, StoreSecond, scorer

LEMMA ReportPublishes ==
  ASSUME IInv, WriteReport
  PROVE  Promise!Publish \/ UNCHANGED <<Settled, report>>
<1>1. /\ UNCHANGED <<status, result>> /\ report' = result /\ AllTerminal
  BY DEF IInv, ScorerInv, WriteReport, disk
<1>2. \A k \in Tasks : result[k] \in Outcomes
  BY <1>1, SettledHaveResults DEF IInv
<1>3. Settled = result /\ Settled' = Settled
  BY <1>1 DEF IInv, FileType, Settled, AllTerminal, Terminal
<1>4. \A k \in Tasks : Settled[k] # "open"
  BY <1>2, <1>3, CapabilityAssumption DEF Outcomes
<1>5. CASE report = <<>>
  BY <1>1, <1>3, <1>4, <1>5 DEF Promise!Publish, Settled
<1>6. CASE report # <<>>
  BY <1>1, <1>3, <1>6 DEF IInv, ScorerInv
<1> QED
  BY <1>5, <1>6

(* Every other step.                                                       *)
LEMMA OthersHidden ==
  ASSUME IInv, OneRunner, [Next]_vars, ~WriteReport,
         \A p \in Runners, k \in Tasks : ~StoreSecond(p, k)
  PROVE  UNCHANGED <<Settled, report>>
<1>1. Keeps
  BY NextInv
<1>2. UNCHANGED report
  BY ZenonT(40)
  DEF Next, RunnerStep, ScorerStep, Fault, Start, CheckTask, ReadToMark,
     MarkRunning, Submit, PickUp, Execute, Answer, ReadToStore, StoreFirst,
     Finish, Crash, WriteFails, TearAppend, Tick, BeginScoring, LoadResults,
     WriteDetails, ReadTelemetry, MarkScored, ScorerCrash, scorer, vars
<1>3. ASSUME NEW k \in Tasks, status'[k].state \in Terminal
      PROVE  status[k].state \in Terminal
  <2>1. CASE \E p \in Runners : Start(p)
    BY <1>3, <2>1 DEF IInv, FileType, StatusFiles, Start, Terminal
  <2>2. CASE \E p \in Runners : MarkRunning(p)
    BY <1>3, <2>2 DEF IInv, FileType, MarkRunning, Terminal
  <2>3. CASE Tick
    BY <1>3, <2>3 DEF IInv, FileType, StatusFiles, Tick, Aging, Terminal
  <2>4. CASE UNCHANGED status
    BY <1>3, <2>4
  <2> QED
    BY <2>1, <2>2, <2>3, <2>4, ZenonT(40)
    DEF Next, RunnerStep, ScorerStep, Fault, CheckTask, ReadToMark, Submit,
       PickUp, Execute, Answer, ReadToStore, StoreFirst, TerminalWrite, Finish,
       Crash, WriteFails, TearAppend, BeginScoring, LoadResults, WriteDetails,
       ReadTelemetry, MarkScored, ScorerCrash, disk, vars
<1> QED
  BY <1>1, <1>2, <1>3, Hidden

LEMMA NextPromise ==
  ASSUME IInv, OneRunner, [Next]_vars
  PROVE  Promise!Next \/ UNCHANGED <<Settled, report>>
<1>1. CASE \E p \in Runners, k \in Tasks : StoreSecond(p, k)
  BY <1>1, SecondSettles DEF Promise!Next
<1>2. CASE WriteReport
  BY <1>2, ReportPublishes DEF Promise!Next
<1>3. CASE ~WriteReport /\ \A p \in Runners, k \in Tasks : ~StoreSecond(p, k)
  BY <1>3, OthersHidden
<1> QED
  BY <1>1, <1>2, <1>3

(* One runner at a time, started again as often as it dies, does what the  *)
(* abstract experiment does: a case settles once, the report is published  *)
(* once, when all have settled and with what they settled with.            *)
THEOREM RunsKeepPromise ==
  ASSUME OneRunner PROVE Spec => KeepsPromise
<1>1. ASSUME IInv, [Next]_vars
      PROVE  [Promise!Next]_<<Settled, report>>
  BY <1>1, NextPromise
<1> QED
  BY <1>1, InitPromise, Invariance, PTL
     DEF Spec, KeepsPromise, Promise!Spec, Settled
=============================================================================
