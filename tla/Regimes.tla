------------------------------- MODULE Regimes -------------------------------
(***************************************************************************)
(* The three regimes of a run over one core and one ledger: a question     *)
(* (QuestionRun), the autonomous loop over signals of a provider           *)
(* (runners.py, controllers.py), and synchronized rounds, whose passive    *)
(* signals come from others (synchronized_runner.py).  A signal that no    *)
(* probe of this run brought is "told".  max_cycles is the number of       *)
(* rounds; the loop starts from a belief that somebody else initialized.   *)
(***************************************************************************)
EXTENDS QuestionRun

RegimeInit ==
  \/ Init
  \/ /\ config = [regime |-> "rounds", context |-> FALSE, stopOnNoProbes |-> FALSE]
     /\ Starts("begin")
  \/ /\ config \in [regime: {"loop"}, context: {FALSE}, stopOnNoProbes: BOOLEAN]
     /\ Starts("collect")

Leaves(next) ==
  /\ stage' = next
  /\ UNCHANGED <<config, ledger, attempt, todo, cycle, cyclic, stop>>

-----------------------------------------------------------------------------
(* SynchronizedRoundRunner.                                                *)

(* The initializer admits the task itself.                                 *)
BeginRounds ==
  /\ At("begin")
  /\ \E first \in FirstCandidates : Initializes(first)
  /\ stage' = "round"

(* A passive round asks nothing.                                           *)
PassiveRound ==
  /\ At("round")
  /\ selected' = {} /\ signals' = {"told"}
  /\ stage' = "round_integrate"
  /\ UNCHANGED <<config, ledger, attempt, todo, cycle, pool, proposed, stop>>

(* The other shapes plan probes; a mixed round has its passive signals     *)
(* from the start.                                                         *)
PlanRound ==
  /\ At("round")
  /\ \E chosen \in SUBSET pool :
       /\ Plannable(chosen)
       /\ selected' = chosen
       /\ todo' = <<Record("probe_planning", cycle + 1, Asks(chosen))>>
  /\ signals' \in {{}, {"told"}}
  /\ stage' = "round_execute"
  /\ UNCHANGED <<config, ledger, attempt, cycle, pool, proposed, stop>>

(* The planner raises: its probe set must not be empty here.               *)
NothingToPlan == At("round") /\ pool = {} /\ Leaves("raised")

(* _round_signals.                                                         *)
ExecuteRound ==
  /\ At("round_execute")
  /\ \E active \in SUBSET Asks(selected) :
       /\ todo' = ExecutionRecords(active)
       /\ signals' = active \cup signals
  /\ stage' = "round_integrate"
  /\ UNCHANGED <<config, ledger, attempt, cycle, pool, selected, proposed, stop>>

(* The shape of the cycle is the one the round announced: when its probes  *)
(* bring nothing it is not legal, whatever the others told.                *)
ShapeKept == selected = {} \/ signals \ {"told"} # {}

IntegrateRound ==
  At("round_integrate") /\ ShapeKept /\ Integrates("round_project")

RoundShapeRaises == At("round_integrate") /\ ~ShapeKept /\ Leaves("raised")

(* _next_candidate_pool of the rounds: the condition of the projection     *)
(* proposes one candidate, what the core proposed is left aside.           *)
ProjectRound ==
  /\ At("round_project")
  /\ todo' = <<Record("belief_state_projection", cycle, {})>>
  /\ \E condition \in [asks: Questions, from: {cycle}] :
       pool' = {condition} \cup (pool \ selected)
  /\ selected' = {} /\ signals' = {} /\ proposed' = {}
  /\ IF cycle = MaxCycles
     THEN stage' = "result" /\ stop' = "fixed_rounds_completed"
     ELSE stage' = "round" /\ UNCHANGED stop
  /\ UNCHANGED <<config, ledger, attempt, cycle>>

-----------------------------------------------------------------------------
(* AutonomousLoopRunner.run.                                               *)

(* The provider brings signals or none; without any the loop stops or      *)
(* lets the core refuse the cycle.                                         *)
CollectSignals ==
  /\ At("collect")
  /\ \/ /\ signals' = {"told"} /\ stage' = "loop_integrate" /\ UNCHANGED stop
     \/ /\ signals' = {}
        /\ IF config.stopOnNoProbes
           THEN stage' = "returned" /\ stop' = "no_signals"
           ELSE stage' = "loop_integrate" /\ UNCHANGED stop
  /\ UNCHANGED <<config, ledger, attempt, todo, cycle, pool, selected, proposed>>

(* AutonomousController.run_once.                                          *)
IntegrateSignals ==
  At("loop_integrate") /\ signals # {} /\ Integrates("loop_project")

NoSignalRaises == At("loop_integrate") /\ signals = {} /\ Leaves("raised")

ProjectSignals ==
  /\ At("loop_project")
  /\ todo' = <<Record("answer_projection", cycle, {})>>
  /\ stage' = "loop_stop"
  /\ UNCHANGED <<config, ledger, attempt, cycle, cyclic, stop>>

(* The stop rules come after the cycle; the last cycle may also satisfy    *)
(* one.  No record says that the loop is over.                             *)
StopLoop ==
  /\ At("loop_stop")
  /\ stop' \in {"confidence_reached", "posterior_stable"}
                 \cup IF cycle = MaxCycles THEN {"max_cycles"} ELSE {"none"}
  /\ stage' = IF stop' = "none" THEN "collect" ELSE "returned"
  /\ signals' = {} /\ proposed' = {}
  /\ UNCHANGED <<config, ledger, attempt, todo, cycle, pool, selected>>

(* The rule asks the frame for its relation, which an exclusive-open frame *)
(* does not have.                                                          *)
StopRaises == At("loop_stop") /\ Leaves("raised")

-----------------------------------------------------------------------------
(* Anything that calls a provider, a gateway or a validator may raise.     *)
RegimeRaises ==
  /\ todo = <<>>
  /\ stage \in {"begin", "round", "round_execute", "round_integrate", "collect",
                "loop_integrate"}
  /\ Leaves("raised")

Others ==
  \/ BeginRounds \/ PassiveRound \/ PlanRound \/ NothingToPlan \/ ExecuteRound
  \/ IntegrateRound \/ RoundShapeRaises \/ ProjectRound
  \/ CollectSignals \/ IntegrateSignals \/ NoSignalRaises \/ ProjectSignals
  \/ StopLoop

RegimeNext == Next \/ Others \/ RegimeRaises \/ StopRaises

(* The thread of the run goes on.                                          *)
RegimeSpec == RegimeInit /\ [][RegimeNext]_vars /\ WF_vars(Step \/ Others)
=============================================================================
