----------------------------- MODULE QuestionRun -----------------------------
(***************************************************************************)
(* One run of a question (question_runner.py) with the components it       *)
(* drives: initializer, planner, executor, core and answer projector, and  *)
(* the JSONL ledger all of them append to.  The process can die between    *)
(* two appends; the capability experiment then runs the case again, with   *)
(* the same run id and the same ledger file (evaluation/arms.py).          *)
(*                                                                         *)
(* What evidence does to a belief is the subject of EvidenceMemory and     *)
(* BeliefFrame.  Here a belief is the index of the cycle it came from, and *)
(* a stop rule fires or does not.  A probe candidate is the question it    *)
(* asks (its identity in _deduplicate_probe_candidates) and the cycle that *)
(* proposed it: together its candidate_id.                                 *)
(*                                                                         *)
(* The other regimes that share the core and the ledger are in Regimes.    *)
(***************************************************************************)
EXTENDS Naturals, Sequences, FiniteSets, SequencesExt

CONSTANTS
  Questions,      (* what probe candidates ask                             *)
  MaxCycles,      (* max_cycles                                            *)
  MaxProbes,      (* max_probes_per_cycle                                  *)
  MaxAttempts,    (* bound on the times the run is started                 *)
  MaxLinesAtDeath (* bound on the ledger of a run that dies                *)

ASSUME QuestionAssumption ==
  /\ IsFiniteSet(Questions) /\ Questions \cap {"context", "told"} = {}
  /\ MaxCycles \in Nat \ {0} /\ MaxProbes \in Nat \ {0}
  /\ MaxAttempts \in Nat \ {0} /\ MaxLinesAtDeath \in Nat

Candidates == [asks: Questions, from: 0 .. MaxCycles]

Asks(candidates) == {c.asks : c \in candidates}

(* The records of a cycle that the core writes.                            *)
CoreKinds == {"cycle", "external_signal", "probe_set", "evidence_event",
              "probe_candidate", "belief_state"}

VARIABLES
  config,    (* the regime; initial context given?  stop_on_no_probes?     *)
  ledger,    (* the lines of the ledger file                               *)
  attempt,   (* how often the run has been started                         *)
  stage,     (* where run_question stands                                  *)
  todo,      (* records being appended before stage goes on                *)
  cycle,     (* current_belief_state.cycle_index                           *)
  pool,      (* candidate_pool                                             *)
  selected,  (* the candidates of the frozen probe set                     *)
  signals,   (* the signals of the cycle                                   *)
  proposed,  (* the probe candidates in the result of the core             *)
  stop       (* the stop reason, once there is one                         *)

cyclic == <<pool, selected, signals, proposed>>
vars == <<config, ledger, attempt, stage, todo, cycle, cyclic, stop>>

(* A ledger line: its record_type, its cycle, and what the record names.   *)
Record(kind, n, names) ==
  [attempt |-> attempt, kind |-> kind, cycle |-> n, names |-> names]

(* A record for each element of S.                                         *)
Records(kind, n, S) ==
  LET order == SetToSeq(S)
  IN [i \in DOMAIN order |-> Record(kind, n, {order[i]})]

Starts(s) ==
  /\ ledger = <<>> /\ attempt = 1
  /\ stage = s /\ todo = <<>>
  /\ cycle = 0 /\ pool = {} /\ selected = {} /\ signals = {} /\ proposed = {}
  /\ stop = "none"

Configs == [regime: {"question", "loop", "rounds"}, context: BOOLEAN,
            stopOnNoProbes: BOOLEAN]

Init ==
  /\ config \in Configs /\ config.regime = "question"
  /\ Starts("admit")

-----------------------------------------------------------------------------
(* JsonlLedgerStore.append: the caller goes on when the line is written.   *)

Append1 ==
  /\ todo # <<>>
  /\ ledger' = Append(ledger, Head(todo))
  /\ todo' = Tail(todo)
  /\ UNCHANGED <<config, attempt, stage, cycle, cyclic, stop>>

(* Stage s of run_question is reached and nothing is left to write.        *)
At(s) == stage = s /\ todo = <<>>

(* Anything that calls a model, a gateway or a validator may raise; the    *)
(* exception leaves run_question.                                          *)
Raises ==
  /\ todo = <<>>
  /\ stage \in {"admit", "initialize", "design", "plan", "execute",
                "integrate", "project"}
  /\ stage' = "raised"
  /\ UNCHANGED <<config, ledger, attempt, todo, cycle, cyclic, stop>>

-----------------------------------------------------------------------------
(* A task that is not admitted is recorded and nothing else happens.       *)
Admit ==
  /\ At("admit")
  /\ \/ stage' = "initialize" /\ UNCHANGED todo
     \/ stage' = "refused" /\ todo' = <<Record("task_admission", 0, {})>>
  /\ UNCHANGED <<config, ledger, attempt, cycle, cyclic, stop>>

(* The initializer proposes candidates for choices and seeds only; without *)
(* them the probe designer is asked before the first cycle.                *)
Initializes(first) ==
  /\ pool' = first
  /\ todo' = <<Record("task_admission", 0, {}), Record("task_frame", 0, {}),
               Record("run", 0, {}), Record("belief_state", 0, {})>>
             \o Records("probe_candidate", 0, Asks(first))
  /\ UNCHANGED <<config, ledger, attempt, cycle, selected, signals, proposed,
                 stop>>

FirstCandidates == {{}} \cup {{c} : c \in [asks: Questions, from: {0}]}

Initialize ==
  /\ At("initialize")
  /\ \E first \in FirstCandidates :
       /\ Initializes(first)
       /\ stage' = IF first = {} THEN "design" ELSE "plan"

(* A model designer whose proposals need capabilities that are not         *)
(* available returns none.                                                 *)
DesignFirst ==
  /\ At("design")
  /\ cycle = 0
  /\ pool' \in SUBSET [asks: Questions, from: {0}]
  /\ stage' = "plan"
  /\ UNCHANGED <<config, ledger, attempt, todo, cycle, selected, signals,
                 proposed, stop>>

-----------------------------------------------------------------------------
(* Mutated form of InitialContext: the context comes with every cycle.     *)
ContextAlways(done) == IF config.context THEN {"context"} ELSE {}

(* _initial_context_signals, in the first cycle of the run only.           *)
InitialContext(done) == IF config.context /\ done = 0 THEN {"context"} ELSE {}

(* ProbePlanner.design_probe_set freezes the best MaxProbes candidates.    *)
(* It drops those without known targets: hypotheses never leave a belief,  *)
(* so here there are none.                                                 *)
Plannable(chosen) ==
  /\ chosen # {}
  /\ \/ Cardinality(chosen) = MaxProbes
     \/ chosen = pool /\ Cardinality(chosen) < MaxProbes

PlanProbes ==
  /\ At("plan")
  /\ \E chosen \in SUBSET pool :
       /\ Plannable(chosen)
       /\ selected' = chosen
       /\ todo' = <<Record("probe_planning", cycle + 1, Asks(chosen))>>
  /\ stage' = "execute"
  /\ UNCHANGED <<config, ledger, attempt, cycle, pool, signals, proposed, stop>>

(* Nothing to ask: an error, the end of the run, or a cycle of context.    *)
PlanNothing ==
  /\ At("plan")
  /\ pool = {}
  /\ selected' = {}
  /\ IF ~config.stopOnNoProbes
     THEN stage' = "raised" /\ UNCHANGED <<todo, stop>>
     ELSE /\ todo' = <<Record("probe_planning", cycle + 1, {})>>
          /\ IF InitialContext(cycle) = {}
             THEN stage' = "result" /\ stop' = "no_probes"
             ELSE stage' = "execute" /\ UNCHANGED stop
  /\ UNCHANGED <<config, ledger, attempt, cycle, pool, signals, proposed>>

(* Mutated form of ExecutionRecords: the cycle is recorded when it opens.  *)
OpensCycle(active) ==
  <<Record("probe_execution", cycle + 1, active), Record("cycle", cycle + 1, {})>>

ExecutionRecords(active) == <<Record("probe_execution", cycle + 1, active)>>

(* Every probe of the set is executed; it brings signals or none.  The     *)
(* executor lists the active signals, the runner adds the context.         *)
ExecuteProbes ==
  /\ At("execute")
  /\ \E active \in SUBSET Asks(selected) :
       /\ todo' = ExecutionRecords(active)
       /\ signals' = active \cup InitialContext(cycle)
  /\ stage' = "integrate"
  /\ UNCHANGED <<config, ledger, attempt, cycle, pool, selected, proposed, stop>>

-----------------------------------------------------------------------------
(* BayesProbeCore.integrate_cycle.  All of it but the appends happens in   *)
(* memory and may raise (Raises); a cycle without any signal has no legal  *)
(* signal shape.  Every signal becomes an event; probe candidates come     *)
(* from events and from evolution.  Updates, the adequacy decision and     *)
(* evolutions are written between the events and the candidates.           *)

(* Mutated form of CoreRecords: the belief state is written before the     *)
(* events it was made of.                                                  *)
StateBeforeEvents(n, new) ==
  <<Record("cycle", n, {})>>
    \o Records("external_signal", n, signals)
    \o <<Record("probe_set", n, Asks(selected)), Record("belief_state", n, {})>>
    \o Records("evidence_event", n, signals)
    \o Records("probe_candidate", n, Asks(new))

(* _append_ledger_records.                                                 *)
CoreRecords(n, new) ==
  <<Record("cycle", n, {})>>
    \o Records("external_signal", n, signals)
    \o <<Record("probe_set", n, Asks(selected))>>
    \o Records("evidence_event", n, signals)
    \o Records("probe_candidate", n, Asks(new))
    \o <<Record("belief_state", n, {})>>

Integrates(next) ==
  /\ \E new \in SUBSET [asks: Questions, from: {cycle + 1}] :
       /\ Cardinality(new) <= Cardinality(signals)
       /\ proposed' = new
       /\ todo' = CoreRecords(cycle + 1, new)
  /\ cycle' = cycle + 1
  /\ stage' = next
  /\ UNCHANGED <<config, ledger, attempt, pool, selected, signals, stop>>

IntegrateCycle == At("integrate") /\ signals # {} /\ Integrates("project")

(* Mutated form of NoSignalShape: the cycle is kept open for signals.      *)
WaitsForSignals ==
  /\ At("integrate")
  /\ signals = {}
  /\ UNCHANGED vars

NoSignalShape ==
  /\ At("integrate")
  /\ signals = {}
  /\ stage' = "raised"
  /\ UNCHANGED <<config, ledger, attempt, todo, cycle, cyclic, stop>>

(* Mutated form of ProspectiveStop: one cycle too many.                    *)
StopOneLater ==
  IF cycle > MaxCycles THEN {"max_cycles"}
  ELSE {"none", "confidence_reached", "posterior_stable"}

(* _prospective_stop_reason: the projector is told why the run will stop.  *)
ProspectiveStop ==
  IF cycle >= MaxCycles THEN {"max_cycles"}
  ELSE {"none", "confidence_reached", "posterior_stable"}

ProjectAnswer ==
  /\ At("project")
  /\ stop' \in ProspectiveStop
  /\ todo' = <<Record("answer_projection", cycle, {})>>
  /\ stage' = IF stop' = "none" THEN "advance" ELSE "result"
  /\ UNCHANGED <<config, ledger, attempt, cycle, cyclic>>

(* Mutated form of NextPool: what was not asked is forgotten.              *)
OnlyFresh(fresh) == fresh

(* _next_candidate_pool: new candidates first, then those not selected; of *)
(* two with the same question the first stays.                             *)
NextPool(fresh) ==
  fresh \cup {c \in pool \ selected : c.asks \notin Asks(fresh)}

(* The next pool is made of what the core, the designer and the condition  *)
(* of the projection propose.  A cycle in which nothing was asked is the   *)
(* last one, whatever is in the pool by now.                               *)
Advance ==
  /\ At("advance")
  /\ \E fresh \in SUBSET [asks: Questions, from: {cycle}] :
       /\ proposed \subseteq fresh
       /\ fresh # {}
       /\ pool' = NextPool(fresh)
  /\ IF selected = {}
     THEN stage' = "result" /\ stop' = "no_probes"
     ELSE stage' = "plan" /\ UNCHANGED stop
  /\ selected' = {} /\ signals' = {} /\ proposed' = {}
  /\ UNCHANGED <<config, ledger, attempt, todo, cycle>>

DesignRaises ==
  /\ At("advance")
  /\ stage' = "raised"
  /\ UNCHANGED <<config, ledger, attempt, todo, cycle, cyclic, stop>>

(* Mutated form of FinalCycle: the run record names the next cycle.        *)
CycleAfter == cycle + 1

FinalCycle == cycle

Result ==
  /\ At("result")
  /\ todo' = <<Record("completed_run", FinalCycle, {stop})>>
  /\ stage' = "returned"
  /\ UNCHANGED <<config, ledger, attempt, cycle, cyclic, stop>>

-----------------------------------------------------------------------------
Ended == {"refused", "returned", "raised", "unwritten", "dead"}

Running == stage \notin Ended \/ todo # <<>>

(* An append fails: the exception leaves the rest unwritten.               *)
AppendFails ==
  /\ todo # <<>>
  /\ stage' = "unwritten" /\ todo' = <<>>
  /\ UNCHANGED <<config, ledger, attempt, cycle, cyclic, stop>>

Dies ==
  /\ Running /\ config.regime = "question"
  /\ attempt < MaxAttempts /\ Len(ledger) <= MaxLinesAtDeath
  /\ stage' = "dead" /\ todo' = <<>>
  /\ UNCHANGED <<config, ledger, attempt, cycle, cyclic, stop>>

(* A stale running case is executed again from the beginning.              *)
RunAgain ==
  /\ stage = "dead"
  /\ attempt' = attempt + 1
  /\ stage' = "admit"
  /\ cycle' = 0 /\ pool' = {} /\ selected' = {} /\ signals' = {} /\ proposed' = {}
  /\ stop' = "none"
  /\ UNCHANGED <<config, ledger, todo>>

Finished ==
  /\ ~Running /\ stage # "dead"
  /\ UNCHANGED vars

Step ==
  \/ Append1 \/ Admit \/ Initialize \/ DesignFirst \/ PlanProbes \/ PlanNothing
  \/ ExecuteProbes \/ IntegrateCycle \/ NoSignalShape \/ ProjectAnswer
  \/ Advance \/ Result \/ RunAgain

Next == Step \/ Raises \/ DesignRaises \/ AppendFails \/ Dies \/ Finished

Spec == Init /\ [][Next]_vars

(* The thread of the run goes on; a case that died is run again.           *)
FairSpec == Spec /\ WF_vars(Step)

-----------------------------------------------------------------------------
(* Properties.                                                             *)

Kinds == CoreKinds \cup {"task_admission", "task_frame", "run",
                        "probe_planning", "probe_execution",
                        "answer_projection", "belief_state_projection",
                        "completed_run"}
StopReasons == {"none", "max_cycles", "no_probes", "confidence_reached",
                "posterior_stable", "no_signals", "fixed_rounds_completed"}
Names == Questions \cup {"context", "told"} \cup StopReasons
Line == [attempt: 1 .. MaxAttempts, kind: Kinds, cycle: 0 .. MaxCycles,
         names: SUBSET Names]

(* Every variable has its type; the core never passes max_cycles.          *)
TypeOK ==
  /\ config \in Configs
  /\ \A i \in DOMAIN ledger : ledger[i] \in Line
  /\ \A i \in DOMAIN todo : todo[i] \in Line
  /\ attempt \in 1 .. MaxAttempts
  /\ stage \in Ended \cup {"admit", "initialize", "design", "plan", "execute",
                          "integrate", "project", "advance", "result",
                          "begin", "round", "round_execute", "round_integrate",
                          "round_project", "collect", "loop_integrate",
                          "loop_project", "loop_stop"}
  /\ cycle \in 0 .. MaxCycles
  /\ pool \subseteq Candidates /\ selected \subseteq Candidates
  /\ proposed \subseteq Candidates
  /\ signals \subseteq Questions \cup {"context", "told"}
  /\ stop \in StopReasons

(* The lines of the running attempt.                                       *)
Mine(kind) ==
  {i \in DOMAIN ledger : ledger[i].attempt = attempt /\ ledger[i].kind = kind}

MineOf(kind, n) == {i \in Mine(kind) : ledger[i].cycle = n}

NamedIn(lines) == UNION {ledger[i].names : i \in lines}

(* A belief state in the ledger seals its cycle: what the executor listed, *)
(* the context and what others told were recorded as signals before it,    *)
(* each became an event before it, its probe set is there, and with the    *)
(* plan of its probes their execution.                                     *)
StateSealsCycle ==
  \A b \in Mine("belief_state") :
    LET n == ledger[b].cycle
        Before(kind) == {i \in MineOf(kind, n) : i < b}
    IN n > 0 =>
         /\ Before("cycle") # {} /\ Before("probe_set") # {}
         /\ Before("probe_planning") # {} <=> Before("probe_execution") # {}
         /\ config.regime = "question" => Before("probe_planning") # {}
         /\ NamedIn(Before("external_signal")) \ {"context", "told"}
              = NamedIn(Before("probe_execution"))
         /\ NamedIn(Before("evidence_event")) = NamedIn(Before("external_signal"))
         /\ Before("answer_projection") \cup Before("belief_state_projection") = {}

(* A cycle that raises, at whatever point, leaves no line of the core: as  *)
(* long as the process lives and the file can be written, a cycle is in    *)
(* the ledger with all its records or with none.                           *)
AllOrNothing ==
  todo = <<>> /\ stage \notin {"dead", "unwritten"} =>
    \A kind \in CoreKinds : \A i \in Mine(kind) :
      MineOf("belief_state", ledger[i].cycle) # {}

(* The initial context is evidence exactly once in a run that returns, in  *)
(* its first cycle, whether or not the planner had probes for that cycle.  *)
ContextOnce ==
  LET told == {i \in Mine("external_signal") : "context" \in ledger[i].names}
  IN /\ Cardinality(told) <= 1
     /\ \A i \in told : ledger[i].cycle = 1
     /\ config.context /\ Mine("completed_run") # {} => told # {}

(* The terminal run record names the last cycle of an unbroken chain of    *)
(* belief states, each with its projection, and comes last; a run stops    *)
(* for its cycles exactly when it used them all.                           *)
RunNamesLastCycle ==
  \A i \in Mine("completed_run") :
    /\ \A n \in 0 .. MaxCycles :
         Cardinality(MineOf("belief_state", n))
           = IF n <= ledger[i].cycle THEN 1 ELSE 0
    /\ \A n \in 1 .. ledger[i].cycle :
         MineOf("answer_projection", n) \cup MineOf("belief_state_projection", n) # {}
    /\ i = Len(ledger)
    /\ ledger[i].names \cap {"max_cycles", "fixed_rounds_completed"} # {}
         <=> ledger[i].cycle = MaxCycles

(* A candidate the planner passed over stays in the pool until it is asked *)
(* or a newer one asks the same question.                                  *)
UnaskedStaysAvailable ==
  [][\A c \in pool :
       \/ c \in pool' \/ c \in selected
       \/ c.asks \in Asks({d \in pool' : d.from > c.from})
       \/ attempt' # attempt]_vars

(* Every run ends: it is refused, returns or raises.                       *)
RunEnds == <>(stage \in Ended \ {"dead"} /\ todo = <<>>)

(* "A domain object identified by its ID must occur exactly once per       *)
(* lifecycle state" (kernel semantic freeze design): no record of the core *)
(* is in the ledger file twice.                                            *)
OncePerLedger ==
  \A i, j \in DOMAIN ledger :
    /\ ledger[i].kind \in CoreKinds /\ ledger[i].kind = ledger[j].kind
    /\ ledger[i].cycle = ledger[j].cycle /\ ledger[i].names = ledger[j].names
    => i = j

(* "the run continues while budget and executable probes remain" (open     *)
(* question design): a run that stops for want of probes has none left.    *)
NoProbesLeft == stage = "returned" /\ stop = "no_probes" => pool = {}
=============================================================================
