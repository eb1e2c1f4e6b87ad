# TLA+ verification of BayesProbe

BayesProbe answers a question by revising an explicit belief state: probes bring
signals, one evidence gate turns signals into evidence events, a solver turns
events into posteriors, and the hypothesis frame retires, spawns and expands as
evidence accumulates. Around this kernel there are runners that decide when to
go on, an append-only ledger, and an evaluation harness that runs hundreds of
cases in parallel from files that survive a crash.

This directory models that system in TLA+. Paths below are relative to
`src/bayesprobe/` unless they start with `docs/`.

    tlc  -workers 2 -config QuestionRun.cfg MCQuestionRun     # one run
    tlapm EvidenceMemoryProofs.tla                            # proofs

The modules with proofs are those named `...Proofs` and `SumTheorems`.
`PROJECT.json` maps every definition to the lines it models, and lists runs,
mutants, hazards, findings and theorems.

## 1. Inventory

| Component | State | Operations | Hard behaviour | What makes it correct |
|---|---|---|---|---|
| Evidence memory (`evidence_memory.py`) | identities, canonical groups, credit balances, accepted and discarded history | classify, remember, commit, validate lineage and transition | order in which sources, roots, parents and repeats meet; shared credit | one group per source and root; no accumulation over one root; credit within its cap and equal to what was spent; append-only |
| Evidence gate (`evidence.py`) | a copy of the memory for the batch | preflight, replay, discard, judge, decompose | exception in mid-batch, a cycle integrated twice | all or nothing; a replay moves nothing; nothing refused once models were asked |
| Belief solver (`belief.py`) | posteriors, unresolved mass | exclusive and independent update, reconcile, normalize | rounding to 4 decimals with a residual, a minimum reserve, changing participants | masses are a distribution; the reserve is never given away; every movement is recorded |
| Frame policy, evolution, expansion (`frame_policy.py`, `hypothesis_evolution.py`, `hypothesis_expansion.py`) | adequacy, version, revisions, active ids, statuses | assess, retire, spawn, reframe, expand | statuses that stick, limits, triggers over several cycles | only outside evidence condemns a frame; limits hold; a retired hypothesis stays out |
| Core (`core.py`, `inbox.py`, `lifecycle.py`) | the committed belief state | integrate_cycle | any stage may raise; the records are appended one by one | a cycle counts with all its records or with none |
| Ledger (`ledger.py`) | the JSONL file | append | an append fails, the process dies between two | the belief state comes after what it was made of |
| Question runner (`question_runner.py`) and its planner, executor, designer, initializer, admission, projections | candidate pool, cycle count, stop reason | run_question | exceptions out of every call, empty probe sets, context without probes | ends with a record that names the last cycle; context used once; no candidate lost |
| Loop runner, controllers, synchronized rounds (`runners.py`, `controllers.py`, `synchronized_runner.py`) | belief state, pool, round | run, run_once, process_round, run_rounds | rounds of three shapes, stop rules on any frame | same as above |
| Capability experiment (`evaluation/runner.py`, `artifacts.py`, `arms.py`, `scoring.py`) | status and result file per task, report, marker | run, should_run, mark_running, write_terminal_result, score | threads, two slots per arm, crash between two files, resume, two processes | a case settles once; files agree; the report is sealed last; the experiment ends |
| Model gateways, telemetry (`openai_gateway.py`, `model_gateway.py`, `provider_telemetry.py`) | attempt of a call, its records | complete_structured with bounded retries | transient and final faults, records of attempts that are lost | a record for an attempt at most once, in order; the last one names the error of the case |
| Model tasks: admission, framing, probe design, judgment, expansion, projection, probe plans (`task_admission.py`, `task_framing.py`, `probe_design.py`, `evidence.py`, `projections.py`) | round of a repair | ask, validate, repair once, give up | each treats a bad answer and an exception in its own way | what one task accepts the next can work with |
| Python probe sandbox (`evaluation/python_probe.py`) | process, container, two pipes, one capture | plan, execute, time out, remove, repair | threads, docker, containers of an attempt that died | output is what was written; containers are gone; troubles become signals |
| WebUI (`webui.py`, `webui_static/app.js`) | emitter, writer, connection, page | stream, track, respond, read | swallowed observer errors, broken connections, stages that lag | the page shows what became of the run, and where it failed |
| Migrations, schemas, benchmark, CLI, HLE inputs, statistics | none shared | parse, validate, convert, compute | | see section 7 |

How they interact: everything in a question run happens on one thread by calls.
The runner owns the pool and calls planner, executor, core, projector and
designer in this order. The core opens and closes an inbox, calls the gate with
the belief state, passes its events to the solver, the frame policy, evolution
and the expander, revalidates the whole state and appends its records. What
components share is the belief state (immutable, replaced by the runner after
the core returned) and the ledger file. Real concurrency is in the evaluation
harness: a thread pool per process, a lock per process, and files that any
number of processes may open; in the python probe, where two threads drain the
pipes of a docker client that the timeout may kill; and in the WebUI, where the
thread of a request feeds a stream that a page reads.

## 2. Modules

| Module | What it is |
|---|---|
| `EvidenceMemory` | the gate's transaction over the evidence memory |
| `EvidenceMemoryProofs` | its theorems on lineage, independence, caps, preflight and replay |
| `EvidenceCreditProofs` | its theorem on the balances |
| `BeliefFrame` | `integrate_cycle` from accepted events to the committed state |
| `BeliefFrameProofs` | its theorems on reserve, limits, retirement and events |
| `BeliefMassProofs` | its theorems on the whole of the masses and their records |
| `SumTheorems` | lemmas on sums over finite sets, for the two modules above that count |
| `QuestionRun` | `run_question` and the ledger it and the core write |
| `Regimes` | the loop and the synchronized rounds over the same core and ledger |
| `QuestionRunProofs` | theorems of both |
| `TaskPayloads` | what each model task accepts of an answer (no state) |
| `ProviderCall` | one call of a gateway: attempts, pauses, telemetry |
| `ModelTask` | a task over `ProviderCall`: reading, repair, exceptions |
| `PythonProbe` | the probe gateway of the python arm, with the sandbox and docker |
| `RunStream` | emitter, writer, connection and page |
| `HostedRun` | a run with all of the above: hosts, stages, tasks, probes, stream |
| `RunPromise` | what a hosted run promises who waits for it (abstract) |
| `HostedRunProofs` | theorems of `HostedRun` |
| `CapabilityPromise` | what an experiment promises (abstract) |
| `CapabilityRun` | the experiment's processes over its files; implements the promise |
| `CapabilityRunProofs` | its theorems, the refinement among them |
| `MCEvidenceMemory`, `MCBeliefFrame`, `MCQuestionRun`, `MCHostedRun`, `MCCapabilityRun` | the instances for TLC |

The modules meet at fixed interfaces. `EvidenceMemory` ends where the events
are made (its `IntegrationFails` stands for anything the core raises later);
`BeliefFrame` begins with these events; `QuestionRun` sees both as one
`IntegrateCycle` that raises or appends; `HostedRun` goes through the stages of
`QuestionRun` again, one probe a cycle and without the ledger, and shows what each
asks of a model and says to its observer; `CapabilityRun` sees a whole run as one
`Execute`, `Answer` pair, which `HostedRun` opens up (its hosts `arm` and `direct`).

### EvidenceMemory

| Variable | Code |
|---|---|
| `memory` | `belief_state.evidence_memory` with the ledgered evidence events |
| `working` | `working_memory` of `EvidenceIntegrationGate.integrate` |
| `shadow` | the memory the preflight loop remembers identities in |
| `queue`, `next` | the planned signals with event ids, and the loop index |
| `phase`, `cycle`, `frame` | stage of integrate, last integrated cycle, `frame_version` |

`BeginCycle` plans the event ids (cycle, identity digest, occurrence);
`PreflightSignal`, `PreflightDone` and `Refuse` are the preflight;
`GateReplay`, `GateDuplicate` and the judging actions are the branches of the
gate's loop, each with the whole commit of its event; `Commit` is the
return of integrate taken over by the core; `IntegrationFails` is any exception,
which drops the copy. Fingerprints are injective: a digest is the triple of
source, content and root. Weights are natural numbers, so that credit is exact;
the code uses floats with a guard against rounding above the cap, whose effect
(never above) is what `SafeCreditIncrement` states.

### BeliefFrame

`setup` is the kind of frame (exclusive or independent, open or exhaustive), the
priors framing gave it, and whether an expander is configured; `belief` is the committed state, `work` the
one in the making, `ledgered` the event ids the belief state refers to, `updates` and
`audits` the `BeliefUpdate`s and `FrameMassUpdate`s of the cycle, `outcome` how
the last cycle ended. The stages are actions in the order of the code: solve
every event, retire (exclusive-open), assess, evolve (other frames), expand or
not, commit or be refused by the revalidation. Evolution has one action more for an
exclusive frame whose last hypothesis retires: `normalize_hypotheses` returns what it
was given (`EvolveToNothing`, `belief.py:130`), and the revalidation raises. Probabilities are integers out of
`Total = Units * Grain`. The code rounds every slot to 10^-4 and gives the
residual to the likeliest slot that stays above its minimum (`RoundedSlots`,
`Residual`, `Anchors`, `IsAnchor`, `Settle`): the model does the same to `Units`
steps with `Grain` finer steps for amounts the code does not round (a transfer, a
retired posterior). The code adds logarithms of posteriors and likelihood ratios
and takes a softmax, which is their product over the sum: the model multiplies
integers, with the ratios of `LR_BY_BAND` in tenths. An event that counts has full
weight, and complexity penalties are left out.

### QuestionRun

`ledger` is the file, a line being the attempt, the kind, the cycle and the names
in the record; `todo` holds the appends a call has still to make, one `Append1`
each, so that a failure or a death may come between any two. `stage` is the
program counter of `run_question`; `pool` and `selected` are candidates (the
question asked and the cycle they are from); `signals` what the closed inbox
held. `Raises` and `DesignRaises` are exceptions out of calls; `Dies` and
`RunAgain` a process death and the execution of the same evaluation case anew
(same run id, same file, a new core).

### Regimes

`config.regime` chooses between `run_question`, the loop and rounds; the variables
are those of `QuestionRun`, whose core actions (`Initializes`, `Integrates`) all
three share. A round is passive, active or mixed: `PassiveRound`, or `PlanRound` with
or without signals told by others, then `ExecuteRound`; the shape announced is the
shape the core checks (`ShapeKept`), so a mixed round whose probes bring nothing
raises. `ProjectRound` carries the pool over: the condition of the projection and
what was not selected; what the core proposed is left aside. The loop takes signals
of a provider (`CollectSignals`), integrates and applies its stop rules afterwards
(`StopLoop`, or `StopRaises` when the frame has no relation to ask for); it writes no
terminal record.

### ProviderCall, ModelTask, TaskPayloads

`call` is the attempt in hand and its outcome, `telemetry` the invocation records of
a call, `task` the task, whether this is its repair, and its result. `Invoke`,
`Observe`, `Retry` are the body of the loop of `_complete_with_observation`; an
observer may lose a record. Retries inside the provider's own client are within one
attempt. `ReadAnswer` and `GatewayRaises` say per task what is repaired, discarded,
wrapped or let through. A payload is a record of the features its validator tells
apart; `FrameReadings`, `DesignReadings`, ... are the sets of all readings of all
payloads, so a task may return whatever its validator lets pass and nothing else.

### PythonProbe

`probe` is where the gateway stands, `sandbox` the execution in hand (bytes
produced, in the pipes, captured; the timeout, the exit and the removal), `clients`
what each docker client is about to do, `containers` what the daemon keeps under a
name. The name is made of run, cycle, probe and index, not of the attempt, so an
attempt that died leaves a container that blocks the name. Docker is external: its
clients create, start and attach, may fail, may hang for ever.

### RunStream, HostedRun, RunPromise

`outbox` is what the thread of the run says before it goes on (the observer is called
synchronously), `emitter` the sequence, stage and cycle it numbers with, `writer`
whether the writer has noticed that the page is gone, `wire` the lines in flight,
`page` what was read and the verdict. `Write` blocks while the connection is full. A
client that leaves is a broken connection. The other endpoint (`Track`) only follows
the stage and answers once.

In `HostedRun` `setup` chooses host, provider, kind of question and context; `stage`
is where `run_question` stands, `run` what later stages depend on (the frame, whether
there is a pool, signals left, judged evidence), `fault` what ended the run and what
was said of it. Each stage with a model has a disjunct that starts its task and one
that takes its result; `TaskFails` is the exception of any task. `RunAgain` is the
death of an evaluation process while it waits for docker with the execution of the
case anew. A missing docker raises out of the probe gateway and is recorded as
`provider_error`, as the code does. In the arm only the context, which no model
wrote, can condemn a frame, so an expansion happens in the first cycle.

`RunPromise` has an outcome, a connection and a verdict: the run is decided once, and
who waits is told that outcome, or an error if the connection broke.
`KeepsRunPromise` is the refinement, liveness included.

### CapabilityRun

`status` and `result` are the files of each task; `phase`, `at`, `pc`, `held`
and `copy` a runner process (where it stands, its schedule position, its
workers, their answers, the status a thread has read before writing it);
`scoring`, `loaded`, `details`, `report`, `marker` the scorer and its files. One
file write is one action. The telemetry of the provider calls is appended to, so a death
or a failed append can leave half a line: `torn` has the tasks with such a line, which
nothing repairs (`Crash`, `TearAppend`). The guards of the scoring depend on inputs that
do not change between its attempts: `refusal` is what they refuse (`gold`: the labels
are of another selection; `payload`, `markdown`: prices or the guard against leaks,
before the report and before its last file). `LoadResults`, `ReadTelemetry` and
`WriteReport` raise accordingly. `ReadToMark` and `MarkRunning`, and `ReadToStore` with
the two stores, are separate because the lock around them belongs to one process
only. `Start` creates all missing status files in one step, so a race of two
processes over the creation of files is not told apart. `Tick` ages running
tasks; `Crash`, `WriteFails`, `TearAppend` and `ScorerCrash` share the bound
`MaxFaults`.

`CapabilityPromise` has two actions: a task settles, the report is published
with what they all settled with. `KeepsPromise` is the refinement: a task is
settled when its status is terminal, with its result file; the report is
published when the marker exists.

## 3. Runs

Runs that pass:

| Run | Question | Instance |
|---|---|---|
| `evidence_lineage` | do groups, roots and repeats stay coherent in any order, and does the preflight suffice? | 2 cycles of up to 2 out of 6 signals with shared sources, roots, parents and ids; 90,569 states |
| `evidence_credit` | is credit spent exactly, within its cap, and not by replays? | 3 cycles of 1 signal, each possibly integrated twice, frame versions 1 and 2, cap 2; 292,598 states |
| `belief_frames` | do masses, reserve, audits and limits hold through solve, retire, assess, evolve, expand? | 3 cycles of up to 2 events, all kinds of frames, an exhaustive one with six hypotheses; 219,405 states |
| `question` | is the ledger complete and in order in all three regimes, and does every run end? | 2 questions, 2 cycles or rounds, a failure at any call or append; for questions a death in the first 8 lines and a second attempt; 841,473 states |
| `hosted` | does every run end with who waits for it told the truth, whatever providers, docker and connections do? | 7 setups over all hosts, 2 cycles, 2 attempts of a call and of a case, 4 faults; 832,590 states |
| `capability` | do files agree, cases settle once, reports get sealed, and does the experiment end, unless its scoring is bound to raise? | 2 cases in 2 arms, one runner, one scorer, one fault anywhere, a scoring that nothing or any of its guards refuses; 529,066 states |

Runs that must find a violation are the findings of section 6:
`evidence_parents`, `belief_audit`, `question_retry`, `question_no_probes`,
`capability_resume`, `capability_overlap`.

Why the bounds are enough. *Evidence*: conflicts need one earlier and one later
signal, and merging of groups a third that touches both, which the first cycle
can supply; a replay needs a cycle seen twice; saturation needs a cap of two with
weights one and two. *Belief*: a retirement needs counterevidence in two events;
an expansion of a condemned frame a cycle after it; the revision limit is 2
instead of the code's and is reached. 40 rounding units make residuals of either
sign and slots that round to zero. A frame whose hypotheses all retire needs posteriors
below the threshold of 0.2 in all of them, that is six choices, the most framing allows
(`task_framing.py:1318`), and two events against all of them (12 and 16 of
`MCBeliefFrame`). *Question*: two cycles are a first one (with
context) and one with a carried pool; two questions give a selected and an unasked
one. `MaxLinesAtDeath` bounds when a death happens, not when an append fails.
*Hosted*: two attempts of a call give one that is retried and one that is given up
(the code has 3, with nothing different about the middle one); of the four faults one
is transient, one final and two are invalid answers of either kind, and the other
three categories behave as the first two. Two cycles are one with context or without
a pool and one after it. One chunk of output is the limit and a program writes up to
two, so that it may stop at the limit or pass it, in one stream or in both; a pipe
and a connection hold one item, so that writers block. A death happens in the first
cycle (`MaxCycleAtDeath`), where the names of all executions can already collide.
*Capability*: two cases give both orders of arms and a queue behind a busy slot;
each refusal comes with each fault;
one runner, because with two at once cases do not settle once (finding
`capability_overlap`); one fault, because after it the code is in the state from
which it must recover. `StaleAfter` is one tick: what matters is only that a task
is too young or old enough.

Deadlock is checked everywhere but in the evidence runs, whose cycles and events
run out; `BeliefFrame`, `QuestionRun` and `HostedRun` say with `Done` and `Finished`
where they may stop. Each property of a passing run has a mutant: a plausible bug in one
mapped definition under which TLC finds the property violated.

## 4. Fairness

`QuestionRun` and `Regimes` assume weak fairness of the one thread of a run, and that
a case that died is executed again by the next `eval run`. Exceptions, failing appends
and deaths are never forced. `HostedRun` assumes weak fairness of the thread of the run,
of the sandbox (its timeout fires, its threads drain what is there) and of the page
(it reads what has arrived). Docker, its programs and the connection are not fair: a
program may run for ever, a client hang, a connection stay up or break at any time;
that a run ends in spite of a program that never does is the work of the timeout. `CapabilityRun` assumes weak fairness of each runner's
steps, of the scorer's steps and of the clock: threads of a pool are scheduled,
a slot that is free is taken, an operator starts run and score again after a
crash or an error, with the same inputs, 24 hours pass. What the operator does not do is
mend files or inputs: after a torn telemetry line or a refusal `ExperimentEnds` promises
settled cases only, since every further scoring raises in the same place. No strong fairness is used, and none for faults. The other
modules state safety only.

## 5. Proofs

`EvidenceMemoryProofs` proves, for all signals, judgments, weights, caps and
bounds that satisfy `MemoryAssumption`: `TypeCorrect`, `CreditCapped`,
`GroupsCanonical`, `AccumulationIndependent`, `RepeatsAreDiscarded` and
`AppendOnly`.

None of the safety properties is inductive alone: an event is judged against the
identities the memory remembers, and it is the events that must not accumulate.
`IInv` connects the two for the memory and for the working copy (`Sound`). Every
event's digest is the digest of a remembered identity, its root is that digest's
root, and an event of positive weight has no parents (`EventsKnown`), so that a
later signal of the same digest or root is recognised. The second event of a
decomposed projection never exists without the first (`ClaimsFollow`), so that a
planned id that is not in the ledger has no second event there either. Groups are
functional in source and root in memory, copy and preflight (`GroupsFunctional`).
The copy extends the memory (`Extends`), so that a commit is an extension too.

`RememberKeepsIdentities` shows that remembering an admissible signal rewrites no
identity and keeps groups functional; `CommitKeepsSound` that the commit of an
event which fits (`Takes`) keeps `Sound`; `JudgmentTakes` and `NeutralTakes` that
judged and discarded events fit, from lemmas about weights, credit keys and
statuses; `GateCommit`, `ReplayKeeps` and `ProjectionKeeps` are the actions of the
gate, `DropKeeps` all exceptions. `InitInv` and `NextInv` combine them, `Invariance`
is `Spec => []IInv`, and the theorems follow from it.

Two more theorems of that module rest on a second invariant, `PreflightInv`: while the
gate works, the identities in hand are those the preflight had before the same signal,
because both remember the same things in the same order. So `PreflightSuffices` (once
models are asked, the memory refuses nothing of the batch), and `ReplaysAreNeutral`: a
cycle that is all in the ledger takes the replay branch for every signal, and the copy
keeps the events and balances of the memory to the end.

`EvidenceCreditProofs` proves `CreditSpentIsWeight`: each balance is the sum of what
the accepted events of its key have drawn. A cap only bounds a balance; that the books
are right also needs that no commit replaces an event, since its weight would vanish
from the sum and stay in the balance. `CreditInv` therefore has the books of the memory
and of the copy (`Books`), that occurrence numbers tell the signals of a batch apart
(`PlannedApart`), and that what the copy holds beyond the memory came from signals the
gate is past (`TakenSoFar`): the id of the next event is then a new one.

`SumTheorems` has the facts on sums these proofs need: removing and adding an element,
union, scaling, bounds. The library states induction over predicates, which the provers
cannot instantiate; stated over sets (`NatSetInduction`, `FiniteSetInduction`, from
well-foundedness) every use is a first-order fact, and the existence and uniqueness of
the recursion behind `SumFunctionOnSet` follow.

`BeliefFrameProofs` proves, for all frames, events, rounding units, thresholds and
bounds that satisfy `BeliefAssumption`: `TypeCorrect`, `ReserveIsHeld`,
`EventsCountOnce`, `OutsideEvidenceCondemns`, `MovementsAudited` and
`RetiredForGood`; and, under `RoomToStart`, `LimitIsKept`: an exclusive-open frame with
more hypotheses than `max_active_hypotheses` exceeds the limit before the first cycle.

Its `IInv` adds to type and the two properties of the committed state what holds
while a cycle is under way (`CycleInv`). The working hypotheses extend the committed
ones, and a hypothesis retired there is untouched (`Preserves`): a commit is then an
extension. Queued ids are new to the belief state and differ (`QueueFresh`), and
updates belong to events already solved, one per hypothesis (`UpdatesOfSolved`): the
next event has no update yet. The posterior of a hypothesis is what it was, or what
its last update says (`Audited`), unless the frame is exclusive and exhaustive. A
working frame is condemned only if the committed one was or the queue has outside
support: the property of the next commit. An exclusive-open frame never enters
evolution. `SolveKeeps`, `RetireStepKeeps`, `AssessKeeps`, `EvolveKeeps`,
`ExpandKeeps`, `CommitKeeps` are the steps; `SettledShares` shows that the slot given
a residual stays at or above its minimum, `TransferLeavesReserve` that an expansion
does. For the limit, `LimitInv` says that in an exclusive-open frame the active ids
are the participants all along, so that the count taken before an expansion is the
count of what it adds to.

`BeliefMassProofs` proves `UnresolvedMassAudited` and `MassIsConserved`, the latter for
any priors that share out the mass and any number of hypotheses, spawns, retirements and
expansions: the revalidation the core ends a cycle with never fails on the solver's
arithmetic. What it does refuse, and the theorem says so, is a frame, independent or
exhaustive, whose last hypothesis retired (`Emptied` in the invariant): without an
unresolved mass there is nothing to stand in its place, and the cycle is lost. On a grid
coarser than the number of slots rounding can leave no slot for a negative residual; the
code raises there (`belief.py:112`) and the model has no step, which does not happen with
the 10,000 units of the code, nor in the run, whose deadlock check would show it. `AuditInv` has the records of a cycle as
one chain, each beginning where the one before ended (`Chained`), that reaches the mass
the cycle holds; the solver rounds what it is given, and the chain stays whole because
after the first solve that mass is a number of units already. `MassInv` says that the
posteriors of the participants and the unresolved mass are `Total` (`Balanced`) in the
committed state and in the working one, unless that is emptied (`Sound`), with what a cycle needs on its way
(`CycleMass`): the active ids are the participants, an unresolved mass in the queue is
one of the bands, posteriors are units after a solve. In the hardest step, the solve,
the residual given to the anchor is what the roundings of the other slots lost, which is
a sum over the slots. The expansion of the code does not round, but the grid of the model
has an end: `GrainAssumption` says that its grain can be halved, and each half shared out
among the proposals, once for every revision.

`QuestionRunProofs` proves, for every finite set of questions, any number of cycles,
probes in a cycle, attempts and deaths, and in all three regimes (`RegimeSpec`):
`TypeCorrect`, `BeliefStatesSeal`, `CyclesAllOrNothing`, `ContextIsEvidenceOnce`,
`RunRecordTells` and `PoolForgetsNothing`. The properties speak of lines in the ledger,
the proofs of `log`, which is the ledger followed by what the call under way has still
to append: writing a line leaves the log as it is, so that all the interleavings of
appends with failures and deaths come to two facts. One is that `LogInv` holds of every
prefix of a log it holds of: nothing is ahead of the cycle in hand (`NothingAhead`), a
belief state comes after all that it was made of (`StatesSeal`), there is one for a cycle
and one context for a run (`OneState`, `OneContext`), and what the last record says is so
(`Closed`). It therefore survives a death and a failing append wherever they cut the log
off. The other is that every call adds its records in that order. What is not closed
under prefixes is said of the stage instead (`StageInv`): what has been asked and
brought for the cycle in hand (`Asked`), that every earlier cycle has its state and its
projection (`Chain`), no end before the end (`Open`), and that every line of the core
has a belief state unless an append failed or the process died (`Whole`), which is
`AllOrNothing`.

`CapabilityRunProofs` proves, for all cases, arms, slots, faults and resumptions that
satisfy `CapabilityAssumption`, under `OneRunner` (no two runner processes at once; with
two the finding `capability_overlap` refutes it): `TypeCorrect`, `FilesAgree`,
`MarkerSeals`, `SettledForGood` and the refinement `RunsKeepPromise`.

What makes a settled case final is nowhere checked when a status is written: it
follows from what the runner has in hands. In `IInv`, a task that is queued, executed
or being written is `running` (`WorkerInv`), so it is nobody's settled result; a worker
past its queue exists only while the pool is open; what is held before the status is
written is what the result file has. Once the scorer has begun, every task is settled,
and what it has loaded and written is what the files say (`ScorerInv`), no telemetry is
appended to any more, and past `ReadTelemetry` none of it is torn: that is why a
runner started beside a scorer cannot disturb it. `RunsKeepPromise` maps the second of
the two writes of a result to `Settle` and the write of the report to `Publish`; every
other step, deaths, starts and the first write among them, stutters.

`HostedRunProofs` proves, for all setups, provider faults, attempts, cycles, output
limits, pipes and lines in flight that satisfy the assumptions of `ProviderCall`,
`PythonProbe`, `RunStream` and `HostedRun`: `TypeCorrect`, `TelemetryIsTrue`,
`CapturesAreHonest`, `StrayContainers`, `CaseErrorIsNamed`, `EndComesLast`,
`TroublesAreSignals`, `FramedTasksAreProbed`, `FailuresNameTheirTask` and
`RunsKeepPromiseSafely`. Its invariant is built in layers, each proved from those
before it. `HostAssumption` limits the setups to what the hosts can start: an arm has a
provider, and choices, which the code makes sure of by initializing a case from them
(`_initializer_matches` in `evaluation/hle.py`).

- `CallInv`: the attempts of the records rise and all but the last were transient; a
  record of the attempt in hand has the outcome of that attempt, and none exists before
  it is observed. A retry thus never records after a final outcome.
- `StageInv`: in which stage a model task and a step of a probe can be in hand, and that
  nothing is left to say while one is. `PrepareKeeps` to `TaskFailsKeeps` are the
  stages of the thread.
- `BoxInv`: captured, piped and passed over add up to what was written, in each phase
  (`CaptureInv`); executions that are still to come have neither client nor container
  (`FreshInv`), although an attempt that died may have left some under the same name;
  after a removal that found the container neither it nor a client that could still
  create it is there (`RemovalInv`).
- `ErrorInv`: what a task raised is what its last record says, until the case takes it.
- `SaidInv`: while the end of the run is in the outbox it is last there and the run is
  over; on the wire it is last and the outbox empty; read, both are empty. Lines carry
  the numbers that follow the one read last. `ThreadSpeaks` shows that every step of the
  thread says nothing, says progress, or closes with one end.
- `TroubleInv`: an arm always has a probe when it plans, so its planner does not raise;
  and a task inside a probe is never what a run dies of.
- `FramingInv`: a frame in hand is one that framing accepts, also after an expansion has
  renamed what it names; `DesignServes` gives, for each such frame, a design the
  validator of the designer takes.
- `VoiceInv`: while a stage that is named by progress lasts, its event is the last thing
  said or the emitter has already taken it (`StageAnnounced`), and everything said is of
  the cycle in hand (`CycleAnnounced`). A failure is composed from the emitter, which is
  behind the thread: it is only asked when the outbox is empty.
- `OrderInv`: the run says its beginning once and no beliefs before their frame, in the
  outbox, on the wire and on the page (`StartsOnce`, `FrameFirst`), so the page never
  throws a line away. `VerdictInv`: an end on its way, wherever it is, is the outcome of
  the run, and while the connection stands it is somewhere. `StepPromises` maps each
  step: the thread decides, a link breaks, the page or the return of a case tells,
  everything else stutters.

Only model-checked is what needs fairness: `RunEnds`, `ExperimentEnds` and the liveness
half of `KeepsRunPromise`; liveness and `ENABLED` are beyond the prover. (In
`KeepsPromise` of `CapabilityRun` the promise has no fairness, so all of it is proved.)
Every safety property of a passing run is a theorem.

## 6. Findings

Each is a run that checks what a document says and finds the code doing another
thing; lines and quotations are in `PROJECT.json`.

1. `DerivedKeepsRoot`: the root of a derived signal is compared with parents
   already remembered only. A child that comes before its parent keeps its own.
2. `PosteriorsAudited`: in exclusive exhaustive frames the normalization after an
   evolution moves posteriors without a `BeliefUpdate`. For all other frames
   `OpenPosteriorsAudited` holds.
3. `OncePerLedger`: a case executed again after a crash appends to the ledger of
   the first attempt under the same ids.
4. `NoProbesLeft`: a run stops for `no_probes` because its cycle had none, although
   that cycle filled the pool.
5. `ResumeSkipsNoWork`: a death strands the tasks already marked as running, and a
   resume within 24 hours returns normally without them.
6. `TerminalIsImmutable`: the lock of the store does not reach another process, so
   two runs of one experiment can reopen a completed case.

One more was met without a run of its own. Framing accepts an exact answer with a
single named candidate, as
`docs/superpowers/specs/2026-07-11-epistemic-kernel-completion-design.md:283` wants it
("An initial exclusive-open frame contains one to six validated named hypotheses."),
but the first probe design of an open frame must target two hypotheses at once
(`probe_design.py:327`), so every design for it is rejected and the run fails.
`FramedCanBeProbed` states that no other frame has this trouble.

Four things looked odd and no document says otherwise: half a line that a death left in
`provider_invocations.jsonl` makes every scoring of the experiment raise
(`evaluation/scoring.py:513`), after its details were written; model admission may propose
`multiple_choice` for a question without choices, which framing can never satisfy; a
signal whose judgment was discarded for its schema is remembered, so that the same
signal sent again is a duplicate and never judged (`evidence.py:208`); an expansion
after an evolution starts from the frame state of the assessment, without the
hypotheses evolution spawned in that cycle (`core.py:256`).

## 7. Not modelled

*Texts*: prompts, wording, redaction, serialization and rendering; of payloads only
what their validators tell apart. *Numbers*: ranking of probes, summaries, scores and
bootstrap statistics compute values without state; the stop rules are choices; which
hypothesis a projection selects is not modelled. *Reading a call's result*: the
deterministic and recorded gateways are lookups, preflight and the static checks of
probe code pure functions of their input. *Environment*: the five seconds within which
the drain threads are joined suffice, and the code sent to a container fits its pipe.
*Rounds over an existing run* and the suffix of a repeated cycle id; the deferral of
late signals and the upgrade of version 0.1 states, whose migration is a pure
conversion. *Benchmark and experiment runners* are loops that write one file per result
and resume nothing. *HLE inputs, configuration and command lines* are I/O. A torn ledger
line is not modelled because the program never reads its ledger.

Where a model does more than the code, or ends in the same place by another way: a
design that contains a secret is repaired in `ReadAnswer`, the code raises at once
(`probe_design.py:208`); `ProjectAnswer` always asks, the code abstains without asking
when the frame blocks an answer (`projections.py:137`); of what the start of a sandbox
raises only a missing docker is modelled, any other error of `Popen` and code without a
UTF-8 encoding escape from the same place and end the case the same way
(`python_probe.py:406`, `:433`). Left out is an event that cannot be serialized on an
intact connection: the code swallows it after counting it (`question_runner.py:692`), so
`KeepsRunPromise` and `OneEndAndLast` cover events lost on a broken connection only. A
direct case whose repaired answer is still invalid fails with the category
`structured_output_invalid` (`evaluation/arms.py:113`), which no provider call has, and
is outside `CaseNamesItsError`.

## 8. Plan

Done: sections 2 to 5. What would come next, in this order:

1. The findings as theorems: that `DerivedKeepsRoot` holds when no child comes before
   its parent, `TerminalIsImmutable` under one runner (it is `SettledForGood`), and
   `OncePerLedger` for a ledger no attempt has died on.
2. The wait of a hosted run as a safety property with a measure: a bound on the steps
   the thread can take without a fault or the environment, which is what liveness rests
   on.
3. Posteriors and planning in one module, for the stop rule over retired hypotheses
   (`question_runner.py:580`).
