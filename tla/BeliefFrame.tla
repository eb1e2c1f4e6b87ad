---------------------------- MODULE BeliefFrame ----------------------------
(***************************************************************************)
(* Belief masses and the hypothesis frame across cycles.                   *)
(*                                                                         *)
(* Between the evidence gate and the commit, BayesProbeCore.integrate_     *)
(* cycle (core.py) solves the accepted events one by one (belief.py),      *)
(* retires stale hypotheses and returns their mass (exclusive-open         *)
(* frames), assesses the frame (frame_policy.py), evolves the hypotheses   *)
(* (the other frames, hypothesis_evolution.py), expands the frame          *)
(* (hypothesis_expansion.py) and revalidates the whole state               *)
(* (schemas.py).  Every step works on copies: an exception drops them and  *)
(* the belief state stays what it was.                                     *)
(*                                                                         *)
(* A posterior is an integer number of grains.  The solver rounds to units *)
(* of Grain grains (the code rounds to four decimals); the expansion       *)
(* halves and divides without rounding, which the grains leave room for.   *)
(* A hypothesis is named by its position in the hypotheses list, which     *)
(* only grows.  Events that count move belief with full weight, and        *)
(* complexity penalties are left out.                                      *)
(***************************************************************************)
EXTENDS Integers, Sequences, FiniteSets, FiniteSetsExt, SequencesExt

CONSTANTS
  Setups,        (* the frames a run can start with                        *)
  Events,        (* the evidence events a cycle can bring                  *)
  Units,         (* units in probability one                               *)
  Grain,         (* grains in a unit                                       *)
  ReserveUnits,  (* minimum_unresolved_reserve, in units                   *)
  InitialOpen,   (* initial_unresolved_mass, in grains                     *)
  RetireBelow,   (* retire_posterior_threshold                             *)
  SpawnPrior,    (* spawn_prior                                            *)
  ReframeFrom,   (* reframe_min_previous_posterior                         *)
  ReframeDrop,   (* reframe_drop_threshold                                 *)
  ReframeFloor,  (* lower clamp of a reframed posterior (0.05)             *)
  MaxRevisions,  (* max_frame_revisions                                    *)
  MaxActive,     (* max_active_hypotheses                                  *)
  MaxProposals,  (* bound on the proposals of an expansion (3 in the code) *)
  MaxCycle,      (* bound on the cycles attempted                          *)
  MaxBatch,      (* bound on the events of a cycle                         *)
  MaxTargets     (* bound on the positions an event judges                 *)

Total   == Units * Grain
Reserve == ReserveUnits * Grain

Statuses  == {"active", "retired"}
Adequacy  == {"provisional", "adequate", "challenged", "inadequate",
              "expanding"}
Bands     == {"strongly_disconfirming", "moderately_disconfirming",
              "weakly_disconfirming", "neutral", "weakly_confirming",
              "moderately_confirming", "strongly_confirming"}
Disconfirming == {"strongly_disconfirming", "moderately_disconfirming",
                  "weakly_disconfirming"}
ModerateOrStrong == {"moderately_confirming", "strongly_confirming"}

Hypothesis == [status: Statuses, posterior: Nat]

Event ==
  [id: Nat,
   type: {"counterevidence", "anomaly", "other"},
   targets: SUBSET Nat,
   likelihoods: UNION {[S -> Bands] : S \in SUBSET (1 .. MaxTargets)},
   unresolved: Bands \cup {"none"},
   fit: {"supports_unresolved", "explained_by_named", "underdetermined"},
   independent: BOOLEAN,   (* independence >= 0.5                          *)
   verifiability: {"low", "moderate", "high"},
   external: BOOLEAN,      (* an origin other than model reasoning         *)
   root: Nat]

(* What a run starts from: the kind of frame, whether the core has an      *)
(* expander, and the priors of the hypotheses.                             *)
Setup ==
  [competition: {"exclusive", "independent"},
   coverage: {"open", "exhaustive"},
   expander: BOOLEAN,
   priors: Seq(0 .. Total)]

OpenSetup(s) == s.competition = "exclusive" /\ s.coverage = "open"

(* Framing gives an exclusive frame priors that share out what the         *)
(* unresolved alternatives leave.                                          *)
PriorsAddUp(s) ==
  s.competition = "exclusive" =>
    SumFunctionOnSet(s.priors, DOMAIN s.priors)
      + (IF OpenSetup(s) THEN InitialOpen ELSE 0) = Total

ASSUME BeliefAssumption ==
  /\ Events \subseteq Event
  /\ \A e, f \in Events : e.id = f.id => e = f
  /\ \A s \in Setups : s \in Setup /\ PriorsAddUp(s)
  /\ Units \in Nat \ {0} /\ Grain \in Nat \ {0}
  /\ ReserveUnits \in Nat /\ Reserve <= InitialOpen
  /\ InitialOpen \in 0 .. Total
  /\ SpawnPrior \in 0 .. Total /\ RetireBelow \in Nat
  /\ ReframeFrom \in Nat /\ ReframeDrop \in Nat
  /\ ReframeFloor \in 0 .. Total
  /\ MaxRevisions \in Nat /\ MaxActive \in Nat
  /\ MaxProposals \in Nat \ {0} /\ MaxCycle \in Nat /\ MaxBatch \in Nat
  /\ MaxTargets \in Nat

(* The expansion halves and divides without rounding in the code: the      *)
(* grains of a unit leave room for it.  They can be halved once for every  *)
(* revision, and each half shared out among the proposals.  The initial    *)
(* unresolved mass is a number of units.                                   *)
Halves(step) ==
  /\ step[0] = Grain
  /\ \A r \in 1 .. MaxRevisions :
       /\ step[r - 1] = 2 * step[r]
       /\ \A n \in 1 .. MaxProposals : step[r] % n = 0

ASSUME GrainAssumption ==
  /\ Total % 2 = 0 /\ InitialOpen % Grain = 0
  /\ \E step \in [0 .. MaxRevisions -> 1 .. Grain] : Halves(step)

VARIABLES
  setup,     (* what the run started from                                  *)
  belief,    (* the committed belief state                                 *)
  ledgered,  (* evidence event ids the belief state refers to              *)
  work,      (* the copies the cycle works on                              *)
  queue,     (* accepted events of the cycle                               *)
  next,      (* index of the event to solve                                *)
  phase,     (* where integrate_cycle stands                               *)
  expanding, (* should_expand of the frame adequacy decision               *)
  updates,   (* BeliefUpdates of the cycle, each with its event's index    *)
  audits,    (* FrameMassUpdates of the cycle                              *)
  cycle,     (* cycles attempted                                           *)
  outcome    (* how the last cycle ended                                   *)

vars == <<setup, belief, ledgered, work, queue, next, phase, expanding,
          updates, audits, cycle, outcome>>

Exclusive     == setup.competition = "exclusive"
ExclusiveOpen == Exclusive /\ setup.coverage = "open"

Participates(h) == h.status # "retired"
Participants(hs) == {i \in 1 .. Len(hs) : Participates(hs[i])}

(* Posteriors of the hypotheses at positions S.                            *)
NamedMass(hs, S) == SumFunctionOnSet([i \in DOMAIN hs |-> hs[i].posterior], S)

-----------------------------------------------------------------------------
(* Rounding a distribution.  A distribution gives slots integer weights    *)
(* over a common total; slot i is hypothesis i, slot 0 the unresolved      *)
(* mass.  round() goes to the nearest unit, ties to even.                  *)

UnresolvedSlot == 0

RoundUnits(weight, total) ==
  LET q == (weight * Units) \div total
      r == (weight * Units) % total
  IN IF 2 * r > total \/ (2 * r = total /\ q % 2 = 1) THEN q + 1 ELSE q

WeightOf(weights) == SumFunction(weights)

(* Minimum of a slot in units.                                             *)
MinimumUnits(slot) == IF slot = UnresolvedSlot THEN ReserveUnits ELSE 0

RoundedSlots(weights) ==
  [s \in DOMAIN weights |->
     LET u == RoundUnits(weights[s], WeightOf(weights))
     IN IF u >= MinimumUnits(s) THEN u ELSE MinimumUnits(s)]

(* What rounding left over goes to one slot.                               *)
Residual(rounded) == Units - SumFunction(rounded)

Anchors(rounded, residual) ==
  {s \in DOMAIN rounded : rounded[s] + residual >= MinimumUnits(s)}

(* max(anchors, key=distribution): the first of the largest, in the order  *)
(* of the hypotheses, the unresolved slot last.                            *)
Before(s, t) == t = UnresolvedSlot \/ (s # UnresolvedSlot /\ s < t)
IsAnchor(weights, anchors, s) ==
  /\ s \in anchors
  /\ \A t \in anchors :
       weights[t] < weights[s] \/ (weights[t] = weights[s]
                                    /\ (t = s \/ Before(s, t)))

(* The rounded distribution, in units, with the residual at slot anchor.   *)
Settle(rounded, residual, anchor) ==
  [s \in DOMAIN rounded |->
     IF s = anchor THEN rounded[s] + residual ELSE rounded[s]]

(* Shares are never negative.  A step that rounds asks for it; the         *)
(* deadlock check of the run shows that it never has to wait.              *)
Shares(units) == units \in [DOMAIN units -> Nat]

InGrains(units) == [s \in DOMAIN units |-> Grain * units[s]]

-----------------------------------------------------------------------------
(* CoverageAwareBeliefSolver: one event in an exclusive frame.             *)

(* LR_BY_BAND, in tenths.                                                  *)
LikelihoodRatio ==
  [strongly_disconfirming |-> 1, moderately_disconfirming |-> 3,
   weakly_disconfirming |-> 7, neutral |-> 10, weakly_confirming |-> 15,
   moderately_confirming |-> 30, strongly_confirming |-> 100]

BandOf(e, i) == IF i \in DOMAIN e.likelihoods THEN e.likelihoods[i] ELSE "neutral"

Scores(w, e) ==
  LET named == Participants(w.hyps)
  IN [s \in (IF ExclusiveOpen THEN named \cup {UnresolvedSlot} ELSE named) |->
        IF s = UnresolvedSlot
        THEN w.unresolved * LikelihoodRatio[e.unresolved]
        ELSE w.hyps[s].posterior * LikelihoodRatio[BandOf(e, s)]]

(* _preserve_unresolved_reserve: an unresolved share below the reserve is  *)
(* lifted to it, and the named shares are scaled to the rest.              *)
PreserveUnresolvedReserve(weights) ==
  LET total == WeightOf(weights)
      named == total - weights[UnresolvedSlot]
  IN IF UnresolvedSlot \notin DOMAIN weights THEN weights
     ELSE IF weights[UnresolvedSlot] * Total >= Reserve * total THEN weights
     ELSE [s \in DOMAIN weights |->
             IF s = UnresolvedSlot THEN Reserve * named
             ELSE weights[s] * (Total - Reserve)]

(* A zero posterior counts as 1e-12: it matters only when all are zero.    *)
Weights(scores) ==
  IF WeightOf(scores) = 0 THEN [s \in DOMAIN scores |-> 1] ELSE scores

WithPosteriors(hs, settled) ==
  [i \in DOMAIN hs |->
     IF i \in DOMAIN settled
     THEN [hs[i] EXCEPT !.posterior = settled[i]]
     ELSE hs[i]]

NearestUnit(mass) == Grain * RoundUnits(mass, Total)

Update(i, at, e, prior, posterior) ==
  [hyp |-> i, at |-> at, event |-> e.id, type |-> e.type, prior |-> prior,
   posterior |-> posterior]

(* Mutated form of UpdatesFor: rivals moved by normalization go unrecorded.*)
UpdatesForTargets(hs, at, e, settled) ==
  {Update(i, at, e, hs[i].posterior, settled[i]) :
      i \in e.targets \cap DOMAIN settled}

UpdatesFor(hs, at, e, settled) ==
  {Update(i, at, e, hs[i].posterior, settled[i]) :
      i \in DOMAIN settled \ {UnresolvedSlot}}

(* Mutated form of AuditUnresolved: only gains are recorded.               *)
AuditGain(prior, posterior) ==
  IF posterior <= NearestUnit(prior) THEN <<>>
  ELSE <<[prior |-> NearestUnit(prior), posterior |-> posterior]>>

(* A FrameMassUpdate is recorded only for a movement visible after         *)
(* rounding.                                                               *)
AuditUnresolved(prior, posterior) ==
  IF posterior = NearestUnit(prior) THEN <<>>
  ELSE <<[prior |-> NearestUnit(prior), posterior |-> posterior]>>

-----------------------------------------------------------------------------
(* Independent frames: each targeted credence moves on its own.            *)

IndependentPosterior(prior, band) ==
  LET up == prior * LikelihoodRatio[band]
  IN Grain * RoundUnits(up, up + (Total - prior) * 10)

(* Mutated form of Targeted: retired hypotheses are moved too.             *)
TargetedEver(hs, e) == e.targets \cap (1 .. Len(hs))

Targeted(hs, e) == e.targets \cap Participants(hs)

-----------------------------------------------------------------------------
(* Retirement (HypothesisEvolutionEngine.retire_stale_hypotheses).         *)

Counterevents(es, i) ==
  {k \in DOMAIN es : /\ es[k].type = "counterevidence"
                     /\ i \in es[k].targets
                     /\ es[k].independent}

Stale(hs, es) ==
  {i \in Participants(hs) : /\ hs[i].posterior < RetireBelow
                            /\ Cardinality(Counterevents(es, i)) >= 2}

Retire(hs, S) ==
  [i \in DOMAIN hs |->
     IF i \in S THEN [hs[i] EXCEPT !.status = "retired"] ELSE hs[i]]

-----------------------------------------------------------------------------
(* FrameAdequacyPolicy.assess, first match first.                          *)

SupportsUnresolved(es) ==
  {e \in ToSet(es) : e.fit = "supports_unresolved"}

HighEvent(es) ==
  \E e \in SupportsUnresolved(es) :
    /\ e.unresolved = "strongly_confirming"
    /\ e.verifiability = "high"
    /\ e.external

ModerateEvents(es) ==
  {e \in SupportsUnresolved(es) : /\ e.unresolved \in ModerateOrStrong
                                  /\ e.verifiability # "low"}

(* Mutated form of RootsSuffice: model reasoning alone suffices.           *)
RootsOfAnyOrigin(es) ==
  Cardinality({e.root : e \in ModerateEvents(es)}) >= 2

RootsSuffice(es) ==
  /\ Cardinality({e.root : e \in ModerateEvents(es)}) >= 2
  /\ \E e \in ModerateEvents(es) : e.external

UnresolvedDominates(w) ==
  LET active == Participants(w.hyps)
  IN /\ ExclusiveOpen
     /\ active # {}
     /\ \A i \in active : w.unresolved > w.hyps[i].posterior

AllNamedDisconfirmed(w, es) ==
  LET active == Participants(w.hyps)
  IN /\ active # {}
     /\ \A i \in active : \E e \in ToSet(es) : BandOf(e, i) \in Disconfirming

Challenged(w, es) ==
  \/ Participants(w.hyps) = {} /\ w.active = {}
  \/ SupportsUnresolved(es) # {}
  \/ UnresolvedDominates(w)
  \/ AllNamedDisconfirmed(w, es)
  \/ w.adequacy = "challenged"

AssessedAdequacy(w, es) ==
  IF setup.coverage = "exhaustive" THEN "adequate"
  ELSE IF w.adequacy \in {"inadequate", "expanding"} THEN "expanding"
  ELSE IF HighEvent(es) \/ RootsSuffice(es) THEN "inadequate"
  ELSE IF Challenged(w, es) THEN "challenged"
  ELSE w.adequacy

(* Every decision but "unchanged" and "exhaustive" asks for an expansion.  *)
ShouldExpand(adequacy) ==
  /\ setup.coverage = "open"
  /\ adequacy \in {"expanding", "inadequate", "challenged"}

-----------------------------------------------------------------------------
(* HypothesisEvolutionEngine.evolve, in frames that are not exclusive-open.*)

Named(posterior) == [status |-> "active", posterior |-> posterior]

Anomalies(es) == {k \in DOMAIN es : es[k].type = "anomaly"}
Spawned(es) == [k \in 1 .. Cardinality(Anomalies(es)) |-> Named(SpawnPrior)]

(* Hypotheses of the previous belief state that a single counterevent of   *)
(* the cycle brought down far enough from a high posterior.                *)
Reframed(hs) ==
  {i \in Participants(hs) \cap DOMAIN belief.hyps :
     /\ belief.hyps[i].posterior >= ReframeFrom
     /\ \E u \in updates :
          /\ u.hyp = i
          /\ u.type = "counterevidence"
          /\ u.prior - u.posterior >= ReframeDrop
          /\ 100 * (u.prior - u.posterior) > Total}

Clamp(posterior) ==
  IF posterior < ReframeFloor THEN ReframeFloor
  ELSE IF posterior > Total - ReframeFloor THEN Total - ReframeFloor
  ELSE posterior

(* One new hypothesis per reframed one.  Several can be reframed in an     *)
(* independent frame only; the code orders them by belief update, here any *)
(* order is taken.                                                         *)
Orders(S) ==
  {f \in [1 .. Cardinality(S) -> S] :
     \A j, k \in 1 .. Cardinality(S) : f[j] = f[k] => j = k}

Reframings(hs, order) ==
  [k \in DOMAIN order |-> Named(Clamp(hs[order[k]].posterior))]

SpawnedInto(hs, es) == hs \o Spawned(es)
RetiredFrom(hs, es) ==
  Retire(SpawnedInto(hs, es), Stale(SpawnedInto(hs, es), es))

Evolves(hs, es) ==
  \/ Anomalies(es) # {}
  \/ Stale(hs, es) # {}
  \/ Reframed(RetiredFrom(hs, es)) # {}

EvolvedFrom(hs, es, order) ==
  RetiredFrom(hs, es) \o Reframings(RetiredFrom(hs, es), order)

Posteriors(hs) == [i \in Participants(hs) |-> hs[i].posterior]

-----------------------------------------------------------------------------
(* Expansion (HypothesisExpansionService.expand).                          *)

(* Active ids of the request: those of the assessed frame state.           *)
StillActive(w) == w.active \cap Participants(w.hyps)

MinOf(x, y) == IF x <= y THEN x ELSE y

(* Mutated form of Transfer: half of the unresolved mass, reserve or not.  *)
HalfOfUnresolved(unresolved) == unresolved \div 2

Transfer(unresolved) ==
  MinOf(unresolved \div 2,
        IF unresolved >= Reserve THEN unresolved - Reserve ELSE 0)

ExpandedPosterior(unresolved, n) ==
  IF Exclusive THEN Transfer(unresolved) \div n ELSE Total \div 2

(* Mutated form of RevisionsLeft: revisions are not limited.               *)
AlwaysRevisable(w) == TRUE

RevisionsLeft(w) == w.revisions < MaxRevisions

(* Mutated form of WithinActiveLimit: the proposals are not counted.       *)
RoomForOneMore(w, n) == Cardinality(StillActive(w)) < MaxActive

WithinActiveLimit(w, n) == Cardinality(StillActive(w)) + n <= MaxActive

ExpandedBy(w, n) ==
  [w EXCEPT
     !.hyps = w.hyps \o [k \in 1 .. n |-> Named(ExpandedPosterior(w.unresolved, n))],
     !.unresolved = IF Exclusive THEN w.unresolved - Transfer(w.unresolved)
                    ELSE w.unresolved,
     !.adequacy = "provisional",
     !.version = w.version + 1,
     !.revisions = w.revisions + 1,
     !.active = StillActive(w) \cup (Len(w.hyps) + 1 .. Len(w.hyps) + n)]

-----------------------------------------------------------------------------
(* What the revalidation of the committed state accepts (FrameState and    *)
(* BeliefState validators).                                                *)

CommitAccepted(w) ==
  /\ w.unresolved <= Total
  /\ \A i \in DOMAIN w.hyps : w.hyps[i].posterior <= Total
  /\ w.active = {} => ExclusiveOpen /\ w.unresolved = Total
  /\ Exclusive => NamedMass(w.hyps, w.active) + w.unresolved = Total

-----------------------------------------------------------------------------
(* The steps of integrate_cycle.                                           *)

InitialBelief(s) ==
  [hyps |-> [i \in DOMAIN s.priors |-> Named(s.priors[i])],
   unresolved |-> IF OpenSetup(s) THEN InitialOpen ELSE 0,
   adequacy |-> IF s.coverage = "exhaustive" THEN "adequate" ELSE "provisional",
   version |-> 1, revisions |-> 0, active |-> DOMAIN s.priors]

Init ==
  /\ setup \in Setups
  /\ belief = InitialBelief(setup)
  /\ work = belief
  /\ ledgered = {}
  /\ queue = <<>> /\ next = 1
  /\ phase = "idle"
  /\ expanding = FALSE
  /\ updates = {} /\ audits = <<>>
  /\ cycle = 0
  /\ outcome = "none"

(* An event speaks of the unresolved mass exactly in exclusive-open frames.*)
Legal(e) == (e.unresolved # "none") = ExclusiveOpen

(* Mutated form of Fresh: an event comes again and counts again.           *)
FreshWithinCycle(es, k) == \A j \in 1 .. k - 1 : es[j].id # es[k].id

(* mark_replayed_evidence_events: an event id counts once.  A replayed     *)
(* event is marked discarded and skipped by every step: queue holds the    *)
(* events left.                                                            *)
Fresh(es, k) ==
  /\ es[k].id \notin ledgered
  /\ \A j \in 1 .. k - 1 : es[j].id # es[k].id

BeginCycle ==
  /\ phase = "idle"
  /\ cycle < MaxCycle
  /\ \E es \in BoundedSeq({e \in Events : Legal(e)}, MaxBatch) :
       /\ \A k \in DOMAIN es : Fresh(es, k)
       /\ queue' = es
  /\ work' = [belief EXCEPT !.active = Participants(belief.hyps)]
  /\ next' = 1
  /\ phase' = "solve"
  /\ updates' = {} /\ audits' = <<>>
  /\ expanding' = FALSE
  /\ cycle' = cycle + 1
  /\ outcome' = "none"
  /\ UNCHANGED <<setup, belief, ledgered>>

CanSolve == phase = "solve" /\ next <= Len(queue)

(* With no participant left an event of an exclusive frame moves nothing.  *)
SolveNothing ==
  /\ CanSolve
  /\ Exclusive /\ Participants(work.hyps) = {}
  /\ next' = next + 1
  /\ UNCHANGED <<setup, belief, ledgered, work, queue, phase, expanding,
                 updates, audits, cycle, outcome>>

(* The posteriors of an event take effect, and every one is recorded.      *)
SolvedTo(settled) ==
  /\ work' = [work EXCEPT
                !.hyps = WithPosteriors(@, settled),
                !.unresolved = IF ExclusiveOpen THEN settled[UnresolvedSlot]
                               ELSE @]
  /\ updates' =
       updates \cup UpdatesFor(work.hyps, next, queue[next], settled)

ScoredWeights ==
  LET scores == Weights(Scores(work, queue[next]))
  IN IF ExclusiveOpen THEN PreserveUnresolvedReserve(scores) ELSE scores

(* _solve_exclusive_event: named hypotheses and unresolved mass are        *)
(* normalized together and rounded once.                                   *)
SolveExclusive ==
  /\ CanSolve
  /\ Exclusive /\ Participants(work.hyps) # {}
  /\ LET rounded  == RoundedSlots(ScoredWeights)
         residual == Residual(rounded)
     IN \E anchor \in DOMAIN rounded :
          LET units   == Settle(rounded, residual, anchor)
              settled == InGrains(units)
          IN /\ IsAnchor(ScoredWeights, Anchors(rounded, residual), anchor)
             /\ Shares(units)
             /\ SolvedTo(settled)
             /\ audits' =
                  IF ExclusiveOpen
                  THEN audits \o AuditUnresolved(work.unresolved,
                                                 settled[UnresolvedSlot])
                  ELSE audits
  /\ next' = next + 1
  /\ UNCHANGED <<setup, belief, ledgered, queue, phase, expanding, cycle,
                 outcome>>

(* _solve_independent_event.                                               *)
SolveIndependent ==
  /\ CanSolve
  /\ ~Exclusive
  /\ LET settled == [i \in Targeted(work.hyps, queue[next]) |->
                       IndependentPosterior(work.hyps[i].posterior,
                                            BandOf(queue[next], i))]
     IN Shares(settled) /\ SolvedTo(settled)
  /\ next' = next + 1
  /\ UNCHANGED <<setup, belief, ledgered, queue, phase, expanding, audits,
                 cycle, outcome>>

SolveDone ==
  /\ phase = "solve" /\ next > Len(queue)
  /\ phase' = IF ExclusiveOpen THEN "retire" ELSE "assess"
  /\ UNCHANGED <<setup, belief, ledgered, work, queue, next, expanding,
                 updates, audits, cycle, outcome>>

(* Mutated form of ReturnedMass: the mass of the retired is dropped.       *)
MassLost(h) == 0

ReturnedMass(h) == h.posterior

(* Retirement in an exclusive-open frame, one stale hypothesis after the   *)
(* other: reconcile_retirements returns its posterior to the unresolved    *)
(* mass and records the movement.                                          *)
RetireAndReconcile(i) ==
  /\ phase = "retire"
  /\ i \in Stale(work.hyps, queue)
  /\ \A j \in Stale(work.hyps, queue) : i <= j
  /\ LET returned == work.unresolved + ReturnedMass(work.hyps[i])
     IN /\ work' = [work EXCEPT !.hyps = Retire(@, {i}),
                               !.active = @ \ {i},
                               !.unresolved = returned]
        /\ audits' = Append(audits,
                            [prior |-> work.unresolved, posterior |-> returned])
  /\ UNCHANGED <<setup, belief, ledgered, queue, next, phase, expanding,
                 updates, cycle, outcome>>

RetirementDone ==
  /\ phase = "retire"
  /\ Stale(work.hyps, queue) = {}
  /\ phase' = "assess"
  /\ UNCHANGED <<setup, belief, ledgered, work, queue, next, expanding,
                 updates, audits, cycle, outcome>>

Assess ==
  /\ phase = "assess"
  /\ work' = [work EXCEPT !.adequacy = AssessedAdequacy(work, queue)]
  /\ expanding' = ShouldExpand(AssessedAdequacy(work, queue))
  /\ phase' = IF ExclusiveOpen THEN "expand" ELSE "evolve"
  /\ UNCHANGED <<setup, belief, ledgered, queue, next, updates, audits,
                 cycle, outcome>>

(* Nothing evolves without an accepted event.  The frame state the         *)
(* expansion is asked with keeps the active ids it was assessed with.      *)
EvolveNothing ==
  /\ phase = "evolve"
  /\ ~Evolves(work.hyps, queue)
  /\ phase' = "expand"
  /\ UNCHANGED <<setup, belief, ledgered, work, queue, next, expanding,
                 updates, audits, cycle, outcome>>

EvolveIndependent ==
  /\ phase = "evolve"
  /\ ~Exclusive
  /\ Evolves(work.hyps, queue)
  /\ \E order \in Orders(Reframed(RetiredFrom(work.hyps, queue))) :
       work' = [work EXCEPT !.hyps = EvolvedFrom(@, queue, order)]
  /\ phase' = "expand"
  /\ UNCHANGED <<setup, belief, ledgered, queue, next, expanding, updates,
                 audits, cycle, outcome>>

(* An evolution that retired the last participant of an exclusive frame    *)
(* leaves normalize_hypotheses nothing to normalize: the hypotheses stay   *)
(* as they are, and the revalidation of the cycle's result refuses them.   *)
EvolveToNothing ==
  /\ phase = "evolve"
  /\ Exclusive
  /\ Evolves(work.hyps, queue)
  /\ \E order \in Orders(Reframed(RetiredFrom(work.hyps, queue))) :
       LET evolved == EvolvedFrom(work.hyps, queue, order)
       IN /\ Participants(evolved) = {}
          /\ work' = [work EXCEPT !.hyps = evolved]
  /\ phase' = "expand"
  /\ UNCHANGED <<setup, belief, ledgered, queue, next, expanding, updates,
                 audits, cycle, outcome>>

(* normalize_hypotheses after an evolution: the participants sum to one.   *)
(* The anchor is one of them, so there is at least one.                    *)
EvolveExclusive ==
  /\ phase = "evolve"
  /\ Exclusive
  /\ Evolves(work.hyps, queue)
  /\ \E order \in Orders(Reframed(RetiredFrom(work.hyps, queue))) :
       LET evolved  == EvolvedFrom(work.hyps, queue, order)
           rounded  == RoundedSlots(Weights(Posteriors(evolved)))
           residual == Residual(rounded)
       IN \E anchor \in DOMAIN rounded :
            LET units == Settle(rounded, residual, anchor)
            IN /\ IsAnchor(Weights(Posteriors(evolved)),
                           Anchors(rounded, residual), anchor)
               /\ Shares(units)
               /\ work' = [work EXCEPT
                    !.hyps = WithPosteriors(evolved, InGrains(units))]
  /\ phase' = "expand"
  /\ UNCHANGED <<setup, belief, ledgered, queue, next, expanding, updates,
                 audits, cycle, outcome>>

(* No expansion: the frame state takes the participants as active ids.     *)
SkipExpansion ==
  /\ phase = "expand"
  /\ ~(expanding /\ setup.expander)
  /\ work' = [work EXCEPT !.active = Participants(work.hyps)]
  /\ phase' = "commit"
  /\ UNCHANGED <<setup, belief, ledgered, queue, next, expanding, updates,
                 audits, cycle, outcome>>

Expand(n) ==
  /\ phase = "expand"
  /\ expanding /\ setup.expander
  /\ RevisionsLeft(work)
  /\ WithinActiveLimit(work, n)
  /\ work' = ExpandedBy(work, n)
  /\ audits' = IF Exclusive
               THEN Append(audits,
                           [prior |-> work.unresolved,
                            posterior |-> work.unresolved
                                            - Transfer(work.unresolved)])
               ELSE audits
  /\ phase' = "commit"
  /\ UNCHANGED <<setup, belief, ledgered, queue, next, expanding, updates,
                 cycle, outcome>>

(* A limit, a rejected proposal or a failing adapter raises out of the     *)
(* cycle: nothing of it is kept.                                           *)
ExpansionFails ==
  /\ phase = "expand"
  /\ expanding /\ setup.expander
  /\ phase' = "idle"
  /\ outcome' = "dropped"
  /\ UNCHANGED <<setup, belief, ledgered, work, queue, next, expanding,
                 updates, audits, cycle>>

Commit ==
  /\ phase = "commit"
  /\ CommitAccepted(work)
  /\ belief' = work
  /\ ledgered' = ledgered \cup {e.id : e \in ToSet(queue)}
  /\ phase' = "idle"
  /\ outcome' = "committed"
  /\ UNCHANGED <<setup, work, queue, next, expanding, updates, audits, cycle>>

(* The revalidation of the final state raises.                             *)
CommitRefused ==
  /\ phase = "commit"
  /\ ~CommitAccepted(work)
  /\ phase' = "idle"
  /\ outcome' = "refused"
  /\ UNCHANGED <<setup, belief, ledgered, work, queue, next, expanding,
                 updates, audits, cycle>>

(* The bound on cycles is reached.                                         *)
Done ==
  /\ phase = "idle" /\ cycle = MaxCycle
  /\ UNCHANGED vars

Next ==
  \/ BeginCycle
  \/ SolveNothing \/ SolveExclusive \/ SolveIndependent
  \/ SolveDone
  \/ (\E i \in DOMAIN work.hyps : RetireAndReconcile(i)) \/ RetirementDone
  \/ Assess
  \/ EvolveNothing \/ EvolveIndependent
  \/ EvolveExclusive \/ EvolveToNothing
  \/ SkipExpansion \/ (\E n \in 1 .. MaxProposals : Expand(n)) \/ ExpansionFails
  \/ Commit \/ CommitRefused
  \/ Done

Spec == Init /\ [][Next]_vars

-----------------------------------------------------------------------------
(* Properties.                                                             *)

Frame ==
  [hyps: Seq(Hypothesis), unresolved: Nat, adequacy: Adequacy,
   version: Nat, revisions: 0 .. MaxRevisions, active: SUBSET Nat]

Movement == [prior: Nat, posterior: Nat]

(* Every variable has its type, and an expansion never goes past the       *)
(* revision limit.                                                         *)
TypeOK ==
  /\ setup \in Setups
  /\ belief \in Frame /\ work \in Frame
  /\ ledgered \subseteq {e.id : e \in Events}
  /\ queue \in Seq(Events)
  /\ next \in Nat \ {0}
  /\ phase \in {"idle", "solve", "retire", "assess", "evolve", "expand",
                "commit"}
  /\ expanding \in BOOLEAN
  /\ audits \in Seq(Movement)
  /\ cycle \in 0 .. MaxCycle
  /\ outcome \in {"none", "committed", "dropped", "refused"}

(* The final revalidation of integrate_cycle never refuses what solver,    *)
(* retirement, evolution and expansion made of the masses: all are         *)
(* probabilities, and the named and unresolved mass of an exclusive frame  *)
(* sum to one after rounding, retirement, normalization and expansion.     *)
(* The one thing it refuses is a frame that lost its last hypothesis and   *)
(* has no unresolved mass to put in its place, an independent or an        *)
(* exhaustive one: there the whole cycle is lost.                          *)
RevalidationPasses ==
  phase = "commit" =>
    CommitAccepted(work) \/ (~ExclusiveOpen /\ Participants(work.hyps) = {})

(* An exclusive-open frame never gives away its unresolved reserve,        *)
(* neither in the rounding of an update nor in an expansion.               *)
ReserveHeld ==
  ExclusiveOpen => work.unresolved >= Reserve /\ belief.unresolved >= Reserve

(* A belief update comes from an event the belief state does not refer to  *)
(* yet, and no event updates a hypothesis twice: a replayed event counts   *)
(* once whatever cycle it comes back in.                                   *)
UpdatesAreFresh ==
  phase # "idle" =>
    /\ \A u \in updates : u.event \notin ledgered
    /\ \A u, v \in updates : u.hyp = v.hyp /\ u.event = v.event => u = v

(* The committed posterior of hypothesis i is the one its last belief      *)
(* update of the cycle recorded, or the one it had.                        *)
PosteriorAudited(i) ==
  \/ work.hyps[i].posterior = belief.hyps[i].posterior
  \/ \E u \in updates :
       /\ u.hyp = i
       /\ u.posterior = work.hyps[i].posterior
       /\ \A v \in updates : v.hyp = i => v.at <= u.at

(* "produce auditable BeliefUpdates for direct movement and, for exclusive *)
(* frames, normalization-induced rival movement" (ARCHITECTURE.md).        *)
PosteriorsAudited ==
  phase = "commit" => \A i \in DOMAIN belief.hyps : PosteriorAudited(i)

(* In exclusive-open and in independent frames no posterior of a known     *)
(* hypothesis moves without a belief update that ends where it stands.     *)
OpenPosteriorsAudited ==
  ExclusiveOpen \/ ~Exclusive => PosteriorsAudited

(* The FrameMassUpdates of a cycle are a chain from the unresolved mass    *)
(* before it (or that mass rounded) to the one after it, through updates,  *)
(* retirements and the expansion; without any, nothing but rounding moved. *)
UnresolvedAudited ==
  phase = "commit" /\ ExclusiveOpen =>
    IF audits = <<>>
    THEN work.unresolved \in {belief.unresolved, NearestUnit(belief.unresolved)}
    ELSE /\ audits[1].prior \in {belief.unresolved, NearestUnit(belief.unresolved)}
         /\ \A k \in 2 .. Len(audits) : audits[k].prior = audits[k - 1].posterior
         /\ work.unresolved = audits[Len(audits)].posterior

(* A frame is judged inadequate only if accepted evidence of an origin     *)
(* other than model reasoning supported an unresolved alternative, in this *)
(* cycle or an earlier one.                                                *)
ModelReasoningCannotCondemn ==
  belief.adequacy \in {"inadequate", "expanding"} =>
    \E e \in Events : /\ e.id \in ledgered
                      /\ e.external
                      /\ e.fit = "supports_unresolved"

(* Expansions keep an exclusive-open frame within its limit of active      *)
(* hypotheses, counting the ones proposed.                                 *)
ActiveWithinLimit ==
  ExclusiveOpen => Cardinality(belief.active) <= MaxActive

(* A retired hypothesis is out for good: no later event, normalization or  *)
(* expansion changes it, and no hypothesis leaves the list.                *)
RetiredStaysOut ==
  [][\A i \in DOMAIN belief.hyps :
       /\ i \in DOMAIN belief'.hyps
       /\ belief.hyps[i].status = "retired" => belief'.hyps[i] = belief.hyps[i]]_vars
=============================================================================
