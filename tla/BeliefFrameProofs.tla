------------------------- MODULE BeliefFrameProofs -------------------------
(***************************************************************************)
(* Theorems about BeliefFrame, for every grid of probabilities, every set  *)
(* of events and every limit.                                              *)
(***************************************************************************)
EXTENDS BeliefFrame, FiniteSetTheorems, SequenceTheorems, TLAPS

(* What every step of a cycle does to the hypotheses list: it only grows,  *)
(* and retired hypotheses stay what they are.                              *)
Preserves(hs, new) ==
  /\ Len(new) >= Len(hs)
  /\ \A i \in 1 .. Len(hs) : hs[i].status = "retired" => new[i] = hs[i]

Condemned == {"inadequate", "expanding"}

(* Evidence of the cycle that may condemn a frame.                         *)
OutsideSupport(es) ==
  \E e \in ToSet(es) : e.external /\ e.fit = "supports_unresolved"

(* The events of the cycle are new and come once.                          *)
QueueFresh ==
  \A j, k \in DOMAIN queue :
    /\ queue[j].id \notin ledgered
    /\ queue[j].id = queue[k].id => j = k

(* A belief update is of an event already solved, and there is one for a   *)
(* hypothesis and an event.                                                *)
UpdatesOfSolved ==
  /\ \A u \in updates : /\ u.at \in DOMAIN queue /\ u.at < next
                        /\ u.event = queue[u.at].id
  /\ \A u, v \in updates : u.hyp = v.hyp /\ u.at = v.at => u = v

Audited ==
  ExclusiveOpen \/ ~Exclusive =>
    \A i \in 1 .. Len(belief.hyps) : PosteriorAudited(i)

CycleInv ==
  /\ Preserves(belief.hyps, work.hyps)
  /\ QueueFresh
  /\ UpdatesOfSolved
  /\ Audited
  /\ work.adequacy \in Condemned =>
       belief.adequacy \in Condemned \/ OutsideSupport(queue)
  /\ phase = "evolve" => ~ExclusiveOpen

(* The inductive invariant.                                                *)
IInv ==
  /\ TypeOK
  /\ ReserveHeld
  /\ ModelReasoningCannotCondemn
  /\ phase # "idle" => CycleInv

-----------------------------------------------------------------------------
(* A function on 1 .. n is a sequence of length n.                         *)
LEMMA FunctionIsSeq ==
  ASSUME NEW S, NEW n \in Nat, NEW f \in [1 .. n -> S]
  PROVE  f \in Seq(S) /\ Len(f) = n
<1>1. f \in Seq(S)
  BY SeqDef
<1>2. DOMAIN f = 1 .. Len(f) /\ Len(f) \in Nat
  BY <1>1, LenProperties
<1> QED
  BY <1>1, <1>2

(* Total and the reserve are numbers of grains.                            *)
LEMMA Amounts == Total \in Nat \ {0} /\ Reserve \in Nat
  BY BeliefAssumption DEF Total, Reserve

(* Settled posteriors touch the hypotheses they name and no status.        *)
LEMMA WithPosteriorsKeeps ==
  ASSUME NEW hs \in Seq(Hypothesis), NEW settled,
         \A s \in DOMAIN settled : settled[s] \in Nat
  PROVE  LET new == WithPosteriors(hs, settled) IN
         /\ new \in Seq(Hypothesis)
         /\ Len(new) = Len(hs)
         /\ \A i \in 1 .. Len(hs) :
              /\ new[i].status = hs[i].status
              /\ i \in DOMAIN settled => new[i].posterior = settled[i]
              /\ i \notin DOMAIN settled => new[i] = hs[i]
<1> DEFINE new == WithPosteriors(hs, settled)
<1>1. Len(hs) \in Nat /\ DOMAIN hs = 1 .. Len(hs)
  BY LenProperties
<1>2. \A i \in 1 .. Len(hs) : hs[i] \in Hypothesis
  BY ElementOfSeq
<1>3. \A i \in 1 .. Len(hs) :
        /\ i \in DOMAIN settled =>
             new[i] = [hs[i] EXCEPT !.posterior = settled[i]]
        /\ i \notin DOMAIN settled => new[i] = hs[i]
  BY <1>1 DEF WithPosteriors
<1>4. \A i \in 1 .. Len(hs) :
        /\ new[i] \in Hypothesis
        /\ new[i].status = hs[i].status
        /\ i \in DOMAIN settled => new[i].posterior = settled[i]
  BY <1>2, <1>3 DEF Hypothesis
<1>5. new \in [1 .. Len(hs) -> Hypothesis]
  <2>1. DOMAIN new = 1 .. Len(hs) /\ new = [i \in DOMAIN new |-> new[i]]
    BY <1>1 DEF WithPosteriors
  <2> HIDE DEF new
  <2> QED
    BY <2>1, <1>4
<1>6. new \in Seq(Hypothesis) /\ Len(new) = Len(hs)
  <2> HIDE DEF new
  <2> QED
    BY <1>1, <1>5, FunctionIsSeq
<1> QED
  BY <1>3, <1>4, <1>6

(* Retirement changes statuses and nothing else.                           *)
LEMMA RetireKeeps ==
  ASSUME NEW hs \in Seq(Hypothesis), NEW S
  PROVE  LET new == Retire(hs, S) IN
         /\ new \in Seq(Hypothesis)
         /\ Len(new) = Len(hs)
         /\ \A i \in 1 .. Len(hs) :
              /\ new[i].posterior = hs[i].posterior
              /\ hs[i].status = "retired" => new[i] = hs[i]
<1> DEFINE new == Retire(hs, S)
<1>1. Len(hs) \in Nat /\ DOMAIN hs = 1 .. Len(hs)
  BY LenProperties
<1>2. \A i \in 1 .. Len(hs) : hs[i] \in Hypothesis
  BY ElementOfSeq
<1>3. \A i \in 1 .. Len(hs) :
        \/ new[i] = [hs[i] EXCEPT !.status = "retired"]
        \/ new[i] = hs[i]
  BY <1>1 DEF Retire
<1>4. \A i \in 1 .. Len(hs) :
        /\ new[i] \in Hypothesis
        /\ new[i].posterior = hs[i].posterior
        /\ hs[i].status = "retired" => new[i] = hs[i]
  BY <1>2, <1>3, ZenonT(40) DEF Hypothesis, Statuses
<1>5. new \in [1 .. Len(hs) -> Hypothesis]
  <2>1. DOMAIN new = 1 .. Len(hs) /\ new = [i \in DOMAIN new |-> new[i]]
    BY <1>1 DEF Retire
  <2> HIDE DEF new
  <2> QED
    BY <2>1, <1>4
<1>6. new \in Seq(Hypothesis) /\ Len(new) = Len(hs)
  <2> HIDE DEF new
  <2> QED
    BY <1>1, <1>5, FunctionIsSeq
<1> QED
  BY <1>4, <1>6

(* New hypotheses are appended: the ones before keep their place.          *)
LEMMA GrowKeeps ==
  ASSUME NEW hs \in Seq(Hypothesis), NEW more \in Seq(Hypothesis)
  PROVE  /\ hs \o more \in Seq(Hypothesis)
         /\ Len(hs \o more) >= Len(hs)
         /\ \A i \in 1 .. Len(hs) : (hs \o more)[i] = hs[i]
<1>1. Len(hs) \in Nat /\ Len(more) \in Nat
  BY LenProperties
<1>2. /\ hs \o more \in Seq(Hypothesis)
      /\ Len(hs \o more) = Len(hs) + Len(more)
      /\ \A i \in 1 .. Len(hs) + Len(more) :
           (hs \o more)[i] = IF i <= Len(hs) THEN hs[i] ELSE more[i - Len(hs)]
  BY ConcatProperties
<1> QED
  BY <1>1, <1>2

LEMMA PreservesTransitive ==
  ASSUME NEW a \in Seq(Hypothesis), NEW b \in Seq(Hypothesis),
         NEW c \in Seq(Hypothesis), Preserves(a, b), Preserves(b, c)
  PROVE  Preserves(a, c)
<1>1. Len(a) \in Nat /\ Len(b) \in Nat /\ Len(c) \in Nat
  BY LenProperties
<1> QED
  BY <1>1 DEF Preserves

-----------------------------------------------------------------------------
(* Rounding: with the residual at an anchor, no slot is negative and the   *)
(* unresolved slot keeps its reserve.                                      *)
LEMMA ProductMonotone ==
  ASSUME NEW a \in Nat, NEW b \in Nat, NEW c \in Nat, a <= b
  PROVE  a * c <= c * b
  OBVIOUS

LEMMA SettledShares ==
  ASSUME NEW weights, NEW anchor,
         anchor \in Anchors(RoundedSlots(weights),
                            Residual(RoundedSlots(weights))),
         Shares(Settle(RoundedSlots(weights),
                       Residual(RoundedSlots(weights)), anchor))
  PROVE  LET settled == InGrains(Settle(RoundedSlots(weights),
                                  Residual(RoundedSlots(weights)), anchor)) IN
         /\ DOMAIN settled = DOMAIN weights
         /\ \A s \in DOMAIN settled : settled[s] \in Nat
         /\ UnresolvedSlot \in DOMAIN weights =>
              settled[UnresolvedSlot] >= Reserve
<1> DEFINE rounded == RoundedSlots(weights)
           residual == Residual(rounded)
           units == Settle(rounded, residual, anchor)
           settled == InGrains(units)
<1>1. DOMAIN rounded = DOMAIN weights /\ DOMAIN units = DOMAIN weights
  BY DEF RoundedSlots, Settle
<1>2. \A s \in DOMAIN weights : units[s] \in Nat
  BY <1>1 DEF Shares
<1>3. DOMAIN settled = DOMAIN weights
  BY <1>1 DEF InGrains
<1>4. \A s \in DOMAIN weights : settled[s] = Grain * units[s]
  BY <1>1 DEF InGrains
<1>5. ASSUME UnresolvedSlot \in DOMAIN weights
      PROVE  units[UnresolvedSlot] >= ReserveUnits
  <2>1. rounded[UnresolvedSlot] >= ReserveUnits
    BY <1>5, BeliefAssumption DEF RoundedSlots, MinimumUnits
  <2>2. anchor = UnresolvedSlot =>
          rounded[UnresolvedSlot] + residual >= ReserveUnits
    BY DEF Anchors, MinimumUnits
  <2>3. units[UnresolvedSlot] =
          IF anchor = UnresolvedSlot THEN rounded[UnresolvedSlot] + residual
          ELSE rounded[UnresolvedSlot]
    BY <1>5, <1>1 DEF Settle
  <2> QED
    BY <2>1, <2>2, <2>3
<1> HIDE DEF settled, units
<1>6. \A s \in DOMAIN weights : settled[s] \in Nat
  BY <1>2, <1>4, BeliefAssumption
<1>7. ASSUME UnresolvedSlot \in DOMAIN weights
      PROVE  settled[UnresolvedSlot] >= Reserve
  <2>1. ReserveUnits * Grain <= Grain * units[UnresolvedSlot]
    BY <1>2, <1>5, <1>7, ProductMonotone, BeliefAssumption
  <2> QED
    BY <2>1, <1>4, <1>7, <1>6, Amounts DEF Reserve
<1> QED
  BY <1>3, <1>6, <1>7 DEF settled, units

(* The slots of an update are the participants, and the unresolved mass in *)
(* exclusive-open frames.                                                  *)
LEMMA ScoredSlots ==
  DOMAIN ScoredWeights =
    IF ExclusiveOpen THEN Participants(work.hyps) \cup {UnresolvedSlot}
    ELSE Participants(work.hyps)
<1> DEFINE scores == Scores(work, queue[next])
<1>1. DOMAIN scores =
        IF ExclusiveOpen THEN Participants(work.hyps) \cup {UnresolvedSlot}
        ELSE Participants(work.hyps)
  BY DEF Scores
<1>2. DOMAIN Weights(scores) = DOMAIN scores
  BY DEF Weights
<1>3. DOMAIN PreserveUnresolvedReserve(Weights(scores)) = DOMAIN Weights(scores)
  BY DEF PreserveUnresolvedReserve
<1> QED
  BY <1>1, <1>2, <1>3 DEF ScoredWeights

(* A mass rounded to its nearest unit is a number of grains.               *)
LEMMA NearestUnitType ==
  ASSUME NEW mass \in Nat PROVE NearestUnit(mass) \in Nat
<1>1. mass * Units \in Nat /\ Total \in Nat \ {0}
  BY Amounts, BeliefAssumption
<1>2. (mass * Units) \div Total \in Nat
  BY <1>1
<1>3. RoundUnits(mass, Total) \in Nat
  BY <1>2 DEF RoundUnits
<1> QED
  BY <1>3, BeliefAssumption DEF NearestUnit
-----------------------------------------------------------------------------
(* The priors of a setup make a list of hypotheses that all take part.     *)
LEMMA InitialHypotheses ==
  ASSUME Init
  PROVE  /\ setup \in Setup /\ belief = InitialBelief(setup) /\ work = belief
         /\ Len(setup.priors) \in Nat
         /\ DOMAIN setup.priors = 1 .. Len(setup.priors)
         /\ belief.hyps \in Seq(Hypothesis)
         /\ Len(belief.hyps) = Len(setup.priors)
         /\ \A i \in 1 .. Len(belief.hyps) :
              /\ belief.hyps[i].posterior = setup.priors[i]
              /\ setup.priors[i] \in 0 .. Total
         /\ Participants(belief.hyps) = 1 .. Len(belief.hyps)
         /\ belief.active = 1 .. Len(belief.hyps)
<1> DEFINE priors == setup.priors
           hs == [i \in 1 .. Len(priors) |-> Named(priors[i])]
<1>1. setup \in Setup /\ belief = InitialBelief(setup) /\ work = belief
  BY BeliefAssumption DEF Init
<1>2. priors \in Seq(0 .. Total)
  BY <1>1 DEF Setup
<1>3. /\ Len(priors) \in Nat /\ DOMAIN priors = 1 .. Len(priors)
      /\ \A i \in 1 .. Len(priors) : priors[i] \in 0 .. Total
  BY <1>2, LenProperties, ElementOfSeq
<1>4. belief.hyps = hs /\ belief.active = 1 .. Len(priors)
  BY <1>1, <1>3 DEF InitialBelief
<1>5. \A p \in 0 .. Total : /\ Named(p) \in Hypothesis
                            /\ Named(p).posterior = p
                            /\ Participates(Named(p))
  BY Amounts DEF Named, Hypothesis, Statuses, Participates
<1>6. hs \in [1 .. Len(priors) -> Hypothesis]
  BY <1>3, <1>5
<1>7. /\ \A i \in 1 .. Len(priors) : hs[i].posterior = priors[i]
      /\ \A i \in 1 .. Len(priors) : Participates(hs[i])
  BY <1>3, <1>5
<1> HIDE DEF hs, priors
<1>8. hs \in Seq(Hypothesis) /\ Len(hs) = Len(priors)
  BY <1>3, <1>6, FunctionIsSeq
<1>9. Participants(hs) = 1 .. Len(hs)
  BY <1>7, <1>8 DEF Participants
<1> QED
  BY <1>1, <1>3, <1>4, <1>7, <1>8, <1>9 DEF priors

LEMMA InitInv == Init => IInv
<1> SUFFICES ASSUME Init PROVE IInv
  OBVIOUS
<1>1. /\ setup \in Setups /\ belief = InitialBelief(setup) /\ work = belief
      /\ belief.hyps \in Seq(Hypothesis)
      /\ belief.active = 1 .. Len(belief.hyps)
      /\ Len(belief.hyps) \in Nat
  BY InitialHypotheses DEF Init
<1>4. belief \in Frame
  <2> DEFINE hs == [i \in DOMAIN setup.priors |-> Named(setup.priors[i])]
  <2>1. belief = [hyps |-> hs,
                  unresolved |-> IF OpenSetup(setup) THEN InitialOpen ELSE 0,
                  adequacy |-> IF setup.coverage = "exhaustive" THEN "adequate"
                               ELSE "provisional",
                  version |-> 1, revisions |-> 0, active |-> DOMAIN setup.priors]
    BY <1>1 DEF InitialBelief
  <2> HIDE DEF hs
  <2>2. (IF OpenSetup(setup) THEN InitialOpen ELSE 0) \in Nat
    BY Amounts, BeliefAssumption
  <2>3. (IF setup.coverage = "exhaustive" THEN "adequate" ELSE "provisional")
          \in Adequacy
    BY DEF Adequacy
  <2>4. 0 \in 0 .. MaxRevisions
    BY BeliefAssumption
  <2>5. hs \in Seq(Hypothesis) /\ DOMAIN setup.priors \in SUBSET Nat
    BY <1>1, <2>1
  <2> QED
    BY <2>1, <2>2, <2>3, <2>4, <2>5 DEF Frame
<1>5. TypeOK
  <2>1. queue \in Seq(Events) /\ audits \in Seq(Movement)
    BY EmptySeq DEF Init
  <2>2. cycle \in 0 .. MaxCycle /\ next \in Nat \ {0}
    BY BeliefAssumption DEF Init
  <2>3. ledgered \subseteq {e.id : e \in Events}
    BY DEF Init
  <2> QED
    BY <1>1, <1>4, <2>1, <2>2, <2>3 DEF TypeOK, Init
<1>6. ReserveHeld
  BY <1>1, Amounts, BeliefAssumption
     DEF ReserveHeld, ExclusiveOpen, Exclusive, InitialBelief, OpenSetup
<1>7. ModelReasoningCannotCondemn
  BY <1>1 DEF ModelReasoningCannotCondemn, InitialBelief
<1> QED
  BY <1>5, <1>6, <1>7 DEF IInv, Init

-----------------------------------------------------------------------------
(* Types of the copies a cycle works on.                                   *)
LEMMA WorkType ==
  ASSUME TypeOK
  PROVE  /\ work.hyps \in Seq(Hypothesis) /\ belief.hyps \in Seq(Hypothesis)
         /\ Len(work.hyps) \in Nat /\ DOMAIN work.hyps = 1 .. Len(work.hyps)
         /\ Len(belief.hyps) \in Nat
         /\ DOMAIN belief.hyps = 1 .. Len(belief.hyps)
         /\ \A i \in 1 .. Len(work.hyps) : work.hyps[i] \in Hypothesis
         /\ work.unresolved \in Nat
         /\ Len(queue) \in Nat /\ DOMAIN queue = 1 .. Len(queue)
         /\ \A k \in DOMAIN queue : queue[k] \in Events
<1>1. work.hyps \in Seq(Hypothesis) /\ belief.hyps \in Seq(Hypothesis)
  BY DEF TypeOK, Frame
<1>2. work.unresolved \in Nat /\ queue \in Seq(Events)
  BY DEF TypeOK, Frame
<1> QED
  BY <1>1, <1>2, LenProperties, ElementOfSeq

(* A step that changes nothing of the hypotheses, the queue or the updates *)
(* keeps their part of the invariant.                                      *)
LEMMA StageKeeps ==
  ASSUME IInv, phase # "idle",
         UNCHANGED <<setup, belief, ledgered, work, queue, updates>>,
         next' >= next, next' \in Nat,
         audits' = audits, cycle' = cycle, outcome' = outcome,
         expanding' \in BOOLEAN,
         phase' \in {"solve", "retire", "assess", "evolve", "expand", "commit"},
         phase' = "evolve" => ~ExclusiveOpen
  PROVE  IInv'
<1>1. TypeOK /\ ReserveHeld /\ ModelReasoningCannotCondemn /\ CycleInv
  BY DEF IInv
<1>2. TypeOK'
  BY <1>1 DEF TypeOK
<1>3. ReserveHeld' /\ ModelReasoningCannotCondemn'
  BY <1>1 DEF ReserveHeld, ExclusiveOpen, Exclusive, ModelReasoningCannotCondemn
<1>4. UpdatesOfSolved'
  <2>1. \A u \in updates : u.at \in Nat
    BY <1>1, WorkType DEF CycleInv, UpdatesOfSolved
  <2>2. next \in Nat
    BY <1>1 DEF TypeOK
  <2> QED
    BY <1>1, <2>1, <2>2 DEF CycleInv, UpdatesOfSolved
<1>5. Audited' /\ QueueFresh' /\ Preserves(belief.hyps, work.hyps)'
  BY <1>1 DEF CycleInv, Audited, PosteriorAudited, QueueFresh, ExclusiveOpen,
              Exclusive
<1>6. CycleInv'
  BY <1>1, <1>4, <1>5 DEF CycleInv, ExclusiveOpen, Exclusive
<1> QED
  BY <1>2, <1>3, <1>6 DEF IInv

(* The posteriors of the event at hand take effect.                        *)
LEMMA SolvedKeeps ==
  ASSUME IInv, CanSolve, NEW settled, SolvedTo(settled),
         DOMAIN settled \subseteq Participants(work.hyps) \cup {UnresolvedSlot},
         \A s \in DOMAIN settled : settled[s] \in Nat,
         ExclusiveOpen => /\ UnresolvedSlot \in DOMAIN settled
                          /\ settled[UnresolvedSlot] >= Reserve,
         next' = next + 1, audits' \in Seq(Movement),
         UNCHANGED <<setup, belief, ledgered, queue, phase, expanding, cycle,
                     outcome>>
  PROVE  IInv'
<1>1. TypeOK /\ ReserveHeld /\ ModelReasoningCannotCondemn /\ CycleInv
  BY DEF IInv, CanSolve
<1>2. next \in DOMAIN queue /\ next \in Nat /\ phase = "solve"
  <2>1. next \in Nat \ {0}
    BY <1>1 DEF TypeOK
  <2> QED
    BY <2>1, <1>1, WorkType DEF CanSolve
<1> DEFINE hs == WithPosteriors(work.hyps, settled)
           un == IF ExclusiveOpen THEN settled[UnresolvedSlot]
                 ELSE work.unresolved
<1>3. work' = [work EXCEPT !.hyps = hs, !.unresolved = un]
  BY DEF SolvedTo
<1>4. /\ hs \in Seq(Hypothesis)
      /\ Len(hs) = Len(work.hyps)
      /\ \A i \in 1 .. Len(work.hyps) :
           /\ hs[i].status = work.hyps[i].status
           /\ i \in DOMAIN settled => hs[i].posterior = settled[i]
           /\ i \notin DOMAIN settled => hs[i] = work.hyps[i]
  BY <1>1, WorkType, WithPosteriorsKeeps
<1>5. un \in Nat
  BY <1>1, WorkType
<1> HIDE DEF hs, un
<1>6. work' \in Frame /\ work'.hyps = hs /\ work'.unresolved = un
      /\ work'.adequacy = work.adequacy
  BY <1>1, <1>3, <1>4, <1>5 DEF TypeOK, Frame
<1>7. TypeOK'
  BY <1>1, <1>2, <1>6 DEF TypeOK
<1>8. ReserveHeld'
  BY <1>1, <1>6 DEF ReserveHeld, ExclusiveOpen, Exclusive, un
<1>9. ModelReasoningCannotCondemn'
  BY <1>1 DEF ModelReasoningCannotCondemn
<1>10. Preserves(belief.hyps, work.hyps)'
  <2>1. Preserves(work.hyps, hs)
    <3>1. ASSUME NEW i \in 1 .. Len(work.hyps),
                 work.hyps[i].status = "retired"
          PROVE  hs[i] = work.hyps[i]
      <4>1. i \notin DOMAIN settled
        BY <3>1, <1>1, WorkType DEF Participants, Participates, UnresolvedSlot
      <4> QED
        BY <4>1, <1>4
    <3> QED
      BY <3>1, <1>4, <1>1, WorkType DEF Preserves
  <2> QED
    BY <2>1, <1>1, <1>4, <1>6, WorkType, PreservesTransitive DEF CycleInv
<1>11. updates' = updates \cup UpdatesFor(work.hyps, next, queue[next], settled)
  BY DEF SolvedTo
<1> DEFINE made(i) == Update(i, next, queue[next], work.hyps[i].posterior,
                             settled[i])
<1>12. \A u \in updates' \ updates :
         \E i \in DOMAIN settled \ {UnresolvedSlot} : u = made(i)
  BY <1>11 DEF UpdatesFor
<1>13. \A i : /\ made(i).hyp = i /\ made(i).at = next
              /\ made(i).event = queue[next].id
              /\ made(i).posterior = settled[i]
  BY DEF Update
<1>14. \A i \in DOMAIN settled \ {UnresolvedSlot} : made(i) \in updates'
  BY <1>11 DEF UpdatesFor
<1>15. updates \subseteq updates'
  BY <1>11
<1> HIDE DEF made
<1>16. UpdatesOfSolved'
  <2>1. \A u \in updates : u.at \in DOMAIN queue /\ u.at < next /\ u.at \in Nat
                           /\ u.event = queue[u.at].id
    BY <1>1, WorkType DEF CycleInv, UpdatesOfSolved
  <2>2. \A u \in updates' \ updates : u.at = next /\ u.event = queue[next].id
    BY <1>12, <1>13
  <2>3. \A u \in updates' : /\ u.at \in DOMAIN queue /\ u.at < next + 1
                            /\ u.event = queue[u.at].id
    BY <2>1, <2>2, <1>2
  <2>4. ASSUME NEW u \in updates', NEW v \in updates', u.hyp = v.hyp,
               u.at = v.at
        PROVE  u = v
    <3>1. CASE u \in updates /\ v \in updates
      BY <3>1, <2>4, <1>1 DEF CycleInv, UpdatesOfSolved
    <3>2. CASE u \notin updates /\ v \notin updates
      BY <3>2, <2>4, <1>12, <1>13
    <3>3. CASE (u \in updates) # (v \in updates)
      BY <3>3, <2>4, <2>1, <2>2, <1>2
    <3> QED
      BY <3>1, <3>2, <3>3
  <2> QED
    BY <2>3, <2>4 DEF UpdatesOfSolved
<1>17. Audited'
  <2> SUFFICES ASSUME ExclusiveOpen \/ ~Exclusive,
                      NEW i \in 1 .. Len(belief.hyps)
               PROVE  PosteriorAudited(i)'
    BY DEF Audited, ExclusiveOpen, Exclusive
  <2>1. i \in 1 .. Len(work.hyps)
    BY <1>1, WorkType DEF CycleInv, Preserves
  <2>2. PosteriorAudited(i)
    BY <1>1 DEF CycleInv, Audited
  <2>3. CASE i \in DOMAIN settled
    <3>1. i # UnresolvedSlot
      BY <2>1, <1>1, WorkType DEF UnresolvedSlot
    <3>2. made(i) \in updates' /\ made(i).hyp = i
          /\ made(i).posterior = work'.hyps[i].posterior
      BY <3>1, <2>3, <2>1, <1>4, <1>6, <1>13, <1>14
    <3>3. \A v \in updates' : v.at <= made(i).at
      <4>1. \A v \in updates : v.at <= next
        BY <1>1, <1>2, WorkType DEF CycleInv, UpdatesOfSolved
      <4> QED
        BY <4>1, <1>2, <1>12, <1>13
    <3> QED
      BY <3>2, <3>3 DEF PosteriorAudited
  <2>4. CASE i \notin DOMAIN settled
    <3>1. work'.hyps[i] = work.hyps[i]
      BY <2>4, <2>1, <1>4, <1>6
    <3>2. \A v \in updates' : v.hyp = i => v \in updates
      BY <2>4, <1>12, <1>13
    <3> QED
      BY <3>1, <3>2, <2>2, <1>15 DEF PosteriorAudited
  <2> QED
    BY <2>3, <2>4
<1>18. CycleInv'
  BY <1>1, <1>2, <1>6, <1>10, <1>16, <1>17 DEF CycleInv, QueueFresh
<1> QED
  BY <1>7, <1>8, <1>9, <1>18 DEF IInv
(* A stage after the updates: hypotheses are retired or appended, and no   *)
(* posterior moves where audits are complete.                              *)
LEMMA HypothesesKeep ==
  ASSUME IInv, phase # "idle",
         work' \in Frame, Preserves(work.hyps, work'.hyps),
         ExclusiveOpen \/ ~Exclusive =>
           \A i \in 1 .. Len(work.hyps) :
             work'.hyps[i].posterior = work.hyps[i].posterior,
         ExclusiveOpen => work'.unresolved >= Reserve,
         work'.adequacy \in Condemned =>
           belief.adequacy \in Condemned \/ OutsideSupport(queue),
         UNCHANGED <<setup, belief, ledgered, queue, next, updates, cycle,
                     outcome>>,
         audits' \in Seq(Movement), expanding' \in BOOLEAN,
         phase' \in {"retire", "assess", "evolve", "expand", "commit"},
         phase' = "evolve" => ~ExclusiveOpen
  PROVE  IInv'
<1>1. TypeOK /\ ReserveHeld /\ ModelReasoningCannotCondemn /\ CycleInv
  BY DEF IInv
<1>2. TypeOK'
  BY <1>1 DEF TypeOK
<1>3. ReserveHeld' /\ ModelReasoningCannotCondemn'
  BY <1>1 DEF ReserveHeld, ExclusiveOpen, Exclusive, ModelReasoningCannotCondemn
<1>4. Preserves(belief.hyps, work.hyps)'
  <2>1. work'.hyps \in Seq(Hypothesis)
    BY DEF Frame
  <2> QED
    BY <1>1, <2>1, WorkType, PreservesTransitive DEF CycleInv
<1>5. Audited'
  <2> SUFFICES ASSUME ExclusiveOpen \/ ~Exclusive,
                      NEW i \in 1 .. Len(belief.hyps)
               PROVE  PosteriorAudited(i)'
    BY DEF Audited, ExclusiveOpen, Exclusive
  <2>1. i \in 1 .. Len(work.hyps)
    BY <1>1, WorkType DEF CycleInv, Preserves
  <2>2. work'.hyps[i].posterior = work.hyps[i].posterior
    BY <2>1
  <2>3. PosteriorAudited(i)
    BY <1>1 DEF CycleInv, Audited
  <2> QED
    BY <2>2, <2>3 DEF PosteriorAudited
<1>6. CycleInv'
  BY <1>1, <1>4, <1>5
     DEF CycleInv, QueueFresh, UpdatesOfSolved, ExclusiveOpen, Exclusive
<1> QED
  BY <1>2, <1>3, <1>6 DEF IInv

LEMMA BeginKeeps == ASSUME IInv, BeginCycle PROVE IInv'
<1>1. TypeOK /\ ReserveHeld /\ ModelReasoningCannotCondemn
  BY DEF IInv
<1>2. PICK es \in BoundedSeq({e \in Events : Legal(e)}, MaxBatch) :
        (\A k \in DOMAIN es : Fresh(es, k)) /\ queue' = es
  BY DEF BeginCycle
<1>3. es \in Seq(Events)
  <2>1. PICK m \in 0 .. MaxBatch : es \in [1 .. m -> {e \in Events : Legal(e)}]
    BY DEF BoundedSeq, SeqOf
  <2>2. m \in Nat /\ es \in [1 .. m -> Events]
    BY <2>1, BeliefAssumption
  <2> QED
    BY <2>2, FunctionIsSeq
<1>4. /\ work' = [belief EXCEPT !.active = Participants(belief.hyps)]
      /\ next' = 1 /\ phase' = "solve" /\ updates' = {} /\ audits' = <<>>
      /\ expanding' = FALSE /\ cycle' = cycle + 1 /\ cycle < MaxCycle
      /\ outcome' = "none"
      /\ UNCHANGED <<setup, belief, ledgered>>
  BY DEF BeginCycle
<1>5. work' \in Frame /\ work'.hyps = belief.hyps
      /\ work'.unresolved = belief.unresolved
      /\ work'.adequacy = belief.adequacy
  <2>1. Participants(belief.hyps) \in SUBSET Nat
    BY <1>1, WorkType DEF Participants
  <2> QED
    BY <1>1, <1>4, <2>1 DEF TypeOK, Frame
<1>6. cycle' \in 0 .. MaxCycle
  <2>1. cycle \in 0 .. MaxCycle /\ MaxCycle \in Nat
    BY <1>1, BeliefAssumption DEF TypeOK
  <2> QED
    BY <1>4, <2>1
<1>7. TypeOK'
  <2>1. audits' \in Seq(Movement) /\ queue' \in Seq(Events)
    BY <1>2, <1>3, <1>4, EmptySeq
  <2>2. setup' \in Setups /\ belief' \in Frame
        /\ ledgered' \subseteq {e.id : e \in Events}
    BY <1>1, <1>4 DEF TypeOK
  <2>3. /\ next' \in Nat \ {0}
        /\ phase' \in {"idle", "solve", "retire", "assess", "evolve", "expand",
                       "commit"}
        /\ outcome' \in {"none", "committed", "dropped", "refused"}
    BY <1>4
  <2>4. expanding' \in BOOLEAN
    BY <1>4
  <2> QED
    BY <1>5, <1>6, <2>1, <2>2, <2>3, <2>4 DEF TypeOK
<1>8. ReserveHeld' /\ ModelReasoningCannotCondemn'
  BY <1>1, <1>4, <1>5
     DEF ReserveHeld, ExclusiveOpen, Exclusive, ModelReasoningCannotCondemn
<1>9. QueueFresh'
  <2>1. DOMAIN es = 1 .. Len(es) /\ Len(es) \in Nat
    BY <1>3, LenProperties
  <2>2. \A j, k \in DOMAIN es : j < k => es[j].id # es[k].id
    BY <1>2, <2>1 DEF Fresh
  <2>3. \A j, k \in DOMAIN es : es[j].id = es[k].id => j = k
    BY <2>1, <2>2
  <2> QED
    BY <1>2, <1>4, <2>3 DEF QueueFresh, Fresh
<1>10. UpdatesOfSolved' /\ Audited' /\ Preserves(belief.hyps, work.hyps)'
  BY <1>1, <1>4, <1>5, WorkType
     DEF UpdatesOfSolved, Audited, PosteriorAudited, Preserves
<1>11. CycleInv'
  BY <1>4, <1>5, <1>9, <1>10 DEF CycleInv
<1> QED
  BY <1>7, <1>8, <1>11 DEF IInv

LEMMA SolveKeeps ==
  ASSUME IInv, SolveNothing \/ SolveExclusive \/ SolveIndependent
  PROVE  IInv'
<1>1. TypeOK /\ phase = "solve"
  BY DEF IInv, SolveNothing, SolveExclusive, SolveIndependent, CanSolve
<1>2. CASE SolveNothing
  <2>1. next \in Nat
    BY <1>1 DEF TypeOK
  <2> QED
    BY <1>1, <1>2, <2>1, StageKeeps DEF SolveNothing, TypeOK
<1>3. CASE SolveExclusive
  <2> DEFINE rounded == RoundedSlots(ScoredWeights)
             residual == Residual(rounded)
  <2>1. PICK anchor \in DOMAIN rounded :
          /\ IsAnchor(ScoredWeights, Anchors(rounded, residual), anchor)
          /\ Shares(Settle(rounded, residual, anchor))
          /\ SolvedTo(InGrains(Settle(rounded, residual, anchor)))
          /\ audits' =
               IF ExclusiveOpen
               THEN audits \o AuditUnresolved(work.unresolved,
                      InGrains(Settle(rounded, residual, anchor))[UnresolvedSlot])
               ELSE audits
    BY <1>3 DEF SolveExclusive
  <2> DEFINE settled == InGrains(Settle(rounded, residual, anchor))
  <2>2. /\ DOMAIN settled = DOMAIN ScoredWeights
        /\ \A s \in DOMAIN settled : settled[s] \in Nat
        /\ UnresolvedSlot \in DOMAIN ScoredWeights =>
             settled[UnresolvedSlot] >= Reserve
    BY <2>1, SettledShares DEF IsAnchor
  <2> HIDE DEF settled, rounded, residual
  <2>3. /\ DOMAIN settled \subseteq Participants(work.hyps) \cup {UnresolvedSlot}
        /\ ExclusiveOpen => /\ UnresolvedSlot \in DOMAIN settled
                            /\ settled[UnresolvedSlot] >= Reserve
    BY <2>2, ScoredSlots
  <2>4. audits' \in Seq(Movement)
    <3>1. audits \in Seq(Movement)
      BY <1>1 DEF TypeOK
    <3>2. CASE ExclusiveOpen
      <4> DEFINE more == AuditUnresolved(work.unresolved,
                                         settled[UnresolvedSlot])
      <4>1. NearestUnit(work.unresolved) \in Nat
            /\ settled[UnresolvedSlot] \in Nat
        BY <1>1, <2>2, <2>3, <3>2, WorkType, NearestUnitType
      <4>2. [prior |-> NearestUnit(work.unresolved),
             posterior |-> settled[UnresolvedSlot]] \in Movement
        BY <4>1 DEF Movement
      <4>3. more \in Seq(Movement)
        BY <4>2 DEF AuditUnresolved
      <4>4. audits' = audits \o more
        BY <2>1, <3>2 DEF settled
      <4> HIDE DEF more
      <4> QED
        BY <3>1, <4>3, <4>4, ConcatProperties
    <3>3. CASE ~ExclusiveOpen
      BY <3>1, <3>3, <2>1
    <3> QED
      BY <3>2, <3>3
  <2>5. SolvedTo(settled)
    BY <2>1 DEF settled
  <2>6. /\ CanSolve /\ next' = next + 1
        /\ UNCHANGED <<setup, belief, ledgered, queue, phase, expanding, cycle,
                       outcome>>
    BY <1>3 DEF SolveExclusive
  <2> QED
    BY <2>2, <2>3, <2>4, <2>5, <2>6, SolvedKeeps
<1>4. CASE SolveIndependent
  <2> DEFINE settled == [i \in Targeted(work.hyps, queue[next]) |->
                           IndependentPosterior(work.hyps[i].posterior,
                                                BandOf(queue[next], i))]
  <2>1. Shares(settled) /\ SolvedTo(settled) /\ CanSolve /\ ~ExclusiveOpen
    BY <1>4 DEF SolveIndependent, ExclusiveOpen
  <2>2. DOMAIN settled \subseteq Participants(work.hyps)
    BY DEF Targeted
  <2> HIDE DEF settled
  <2>3. \A s \in DOMAIN settled : settled[s] \in Nat
    BY <2>1 DEF Shares
  <2>4. /\ next' = next + 1 /\ audits' \in Seq(Movement)
        /\ UNCHANGED <<setup, belief, ledgered, queue, phase, expanding, cycle,
                       outcome>>
    BY <1>1, <1>4 DEF SolveIndependent, TypeOK
  <2> QED
    BY <2>1, <2>2, <2>3, <2>4, SolvedKeeps
<1> QED
  BY <1>2, <1>3, <1>4

LEMMA RetireStepKeeps ==
  ASSUME IInv, NEW i \in DOMAIN work.hyps, RetireAndReconcile(i)
  PROVE  IInv'
<1>1. TypeOK /\ ReserveHeld /\ CycleInv /\ phase = "retire"
  BY DEF IInv, RetireAndReconcile
<1> DEFINE hs == Retire(work.hyps, {i})
           returned == work.unresolved + ReturnedMass(work.hyps[i])
<1>2. /\ hs \in Seq(Hypothesis) /\ Len(hs) = Len(work.hyps)
      /\ \A j \in 1 .. Len(work.hyps) :
           /\ hs[j].posterior = work.hyps[j].posterior
           /\ work.hyps[j].status = "retired" => hs[j] = work.hyps[j]
  BY <1>1, WorkType, RetireKeeps
<1>3. returned \in Nat /\ returned >= work.unresolved
  <2>1. work.hyps[i] \in Hypothesis /\ work.unresolved \in Nat
    BY <1>1, WorkType
  <2>2. work.hyps[i].posterior \in Nat
    BY <2>1 DEF Hypothesis
  <2> QED
    BY <2>1, <2>2 DEF ReturnedMass
<1>4. work' = [work EXCEPT !.hyps = hs, !.active = @ \ {i},
                           !.unresolved = returned]
  BY DEF RetireAndReconcile
<1>5. audits' = Append(audits, [prior |-> work.unresolved,
                                posterior |-> returned])
  BY DEF RetireAndReconcile
<1> HIDE DEF hs, returned
<1>6. work' \in Frame /\ work'.hyps = hs /\ work'.unresolved = returned
      /\ work'.adequacy = work.adequacy
  BY <1>1, <1>2, <1>3, <1>4 DEF TypeOK, Frame
<1>7. audits' \in Seq(Movement)
  <2>1. [prior |-> work.unresolved, posterior |-> returned] \in Movement
    BY <1>1, <1>3, WorkType DEF Movement
  <2> QED
    BY <1>1, <1>5, <2>1, AppendProperties DEF TypeOK
<1>8. Preserves(work.hyps, work'.hyps)
  BY <1>1, <1>2, <1>6, WorkType DEF Preserves
<1>9. ExclusiveOpen => work'.unresolved >= Reserve
  BY <1>1, <1>3, <1>6, Amounts, WorkType DEF ReserveHeld
<1>10. /\ UNCHANGED <<setup, belief, ledgered, queue, next, updates, cycle,
                      outcome>>
       /\ expanding' \in BOOLEAN /\ phase' = "retire"
  BY <1>1 DEF RetireAndReconcile, TypeOK
<1> QED
  BY <1>1, <1>2, <1>6, <1>7, <1>8, <1>9, <1>10, HypothesesKeep DEF CycleInv

LEMMA AssessKeeps == ASSUME IInv, Assess PROVE IInv'
<1>1. TypeOK /\ ReserveHeld /\ CycleInv /\ phase = "assess"
  BY DEF IInv, Assess
<1> DEFINE assessed == AssessedAdequacy(work, queue)
<1>2. assessed \in Adequacy
  BY <1>1 DEF AssessedAdequacy, Adequacy, TypeOK, Frame
<1>3. ASSUME assessed \in Condemned
      PROVE  belief.adequacy \in Condemned \/ OutsideSupport(queue)
  <2>1. CASE work.adequacy \in Condemned
    BY <2>1, <1>1 DEF CycleInv
  <2>2. CASE work.adequacy \notin Condemned
    <3>1. HighEvent(queue) \/ RootsSuffice(queue)
      BY <1>3, <2>2 DEF AssessedAdequacy, Condemned
    <3> QED
      BY <3>1 DEF HighEvent, RootsSuffice, ModerateEvents, SupportsUnresolved,
                  OutsideSupport
  <2> QED
    BY <2>1, <2>2
<1>4. work' = [work EXCEPT !.adequacy = assessed]
      /\ expanding' = ShouldExpand(assessed)
  BY DEF Assess
<1> HIDE DEF assessed
<1>5. work' \in Frame /\ work'.hyps = work.hyps
      /\ work'.unresolved = work.unresolved /\ work'.adequacy = assessed
  BY <1>1, <1>2, <1>4 DEF TypeOK, Frame
<1>6. expanding' \in BOOLEAN
  BY <1>4 DEF ShouldExpand
<1>7. /\ UNCHANGED <<setup, belief, ledgered, queue, next, updates, cycle,
                     outcome>>
      /\ audits' \in Seq(Movement)
      /\ phase' = IF ExclusiveOpen THEN "expand" ELSE "evolve"
  BY <1>1 DEF Assess, TypeOK
<1>8. Preserves(work.hyps, work'.hyps)
  BY <1>1, <1>5, WorkType DEF Preserves
<1>9. ExclusiveOpen => work'.unresolved >= Reserve
  BY <1>1, <1>5 DEF ReserveHeld
<1> QED
  BY <1>1, <1>3, <1>5, <1>6, <1>7, <1>8, <1>9, HypothesesKeep
(* Everything the evolution engine makes of a list of hypotheses: the list *)
(* grows, retired hypotheses stay, posteriors are left to normalization.   *)
LEMMA EvolvedKeeps ==
  ASSUME TypeOK, NEW order \in Orders(Reframed(RetiredFrom(work.hyps, queue)))
  PROVE  LET evolved == EvolvedFrom(work.hyps, queue, order) IN
         /\ evolved \in Seq(Hypothesis)
         /\ Preserves(work.hyps, evolved)
         /\ \A i \in 1 .. Len(work.hyps) :
              evolved[i].posterior = work.hyps[i].posterior
<1> DEFINE hs == work.hyps
           more == Spawned(queue)
           grown == SpawnedInto(hs, queue)
           retired == RetiredFrom(hs, queue)
           reframed == Reframed(retired)
           scoped == Reframings(retired, order)
           evolved == EvolvedFrom(hs, queue, order)
<1>1. hs \in Seq(Hypothesis) /\ Len(hs) \in Nat
      /\ DOMAIN queue = 1 .. Len(queue) /\ Len(queue) \in Nat
  BY WorkType
<1>2. \A p \in Nat : Named(p) \in Hypothesis
  BY DEF Named, Hypothesis, Statuses
<1>3. more \in Seq(Hypothesis)
  <2> DEFINE n == Cardinality(Anomalies(queue))
  <2>1. IsFiniteSet(1 .. Len(queue))
    BY <1>1, FS_Interval
  <2>2. IsFiniteSet(Anomalies(queue))
    BY <1>1, <2>1, FS_Subset DEF Anomalies
  <2>3. n \in Nat
    BY <2>2, FS_CardinalityType
  <2>4. Named(SpawnPrior) \in Hypothesis
    BY <1>2, BeliefAssumption, Amounts
  <2>5. more = [k \in 1 .. n |-> Named(SpawnPrior)]
    BY DEF Spawned
  <2> HIDE DEF n
  <2>6. more \in [1 .. n -> Hypothesis]
    BY <2>4, <2>5
  <2> QED
    BY <2>3, <2>6, FunctionIsSeq
<1>4. /\ grown \in Seq(Hypothesis) /\ Len(grown) >= Len(hs)
      /\ \A i \in 1 .. Len(hs) : grown[i] = hs[i]
  <2>1. grown = hs \o more
    BY DEF SpawnedInto
  <2> HIDE DEF hs, more, grown
  <2> QED
    BY <1>1, <1>3, <2>1, GrowKeeps
<1>5. /\ retired \in Seq(Hypothesis) /\ Len(retired) = Len(grown)
      /\ \A i \in 1 .. Len(grown) :
           /\ retired[i].posterior = grown[i].posterior
           /\ grown[i].status = "retired" => retired[i] = grown[i]
  <2>1. retired = Retire(grown, Stale(grown, queue))
    BY DEF RetiredFrom
  <2> HIDE DEF hs, grown, retired
  <2> QED
    BY <1>4, <2>1, RetireKeeps
<1>6. scoped \in Seq(Hypothesis)
  <2> DEFINE n == Cardinality(reframed)
  <2>1. Len(retired) \in Nat
        /\ \A i \in 1 .. Len(retired) : retired[i] \in Hypothesis
    <3> HIDE DEF retired
    <3> QED
      BY <1>5, LenProperties, ElementOfSeq
  <2>2. reframed \subseteq 1 .. Len(retired)
    BY DEF Reframed, Participants
  <2>3. n \in Nat
    <3> HIDE DEF retired, reframed
    <3>1. IsFiniteSet(1 .. Len(retired))
      BY <2>1, FS_Interval
    <3>2. IsFiniteSet(reframed)
      BY <2>2, <3>1, FS_Subset
    <3> QED
      BY <3>2, FS_CardinalityType
  <2>4. order \in [1 .. n -> reframed]
    BY DEF Orders
  <2>5. \A i \in 1 .. Len(retired) : Clamp(retired[i].posterior) \in Nat
    <3>1. \A i \in 1 .. Len(retired) : retired[i].posterior \in Nat
      BY <2>1 DEF Hypothesis
    <3>2. ReframeFloor \in Nat /\ Total \in Nat /\ ReframeFloor <= Total
      BY BeliefAssumption, Amounts
    <3>3. \A p \in Nat : Clamp(p) \in Nat
      BY <3>2 DEF Clamp
    <3> HIDE DEF retired
    <3> QED
      BY <3>1, <3>3
  <2>6. \A k \in 1 .. n : Named(Clamp(retired[order[k]].posterior)) \in Hypothesis
    <3> HIDE DEF retired, reframed, n
    <3> QED
      BY <2>2, <2>4, <2>5, <1>2
  <2>7. scoped = [k \in 1 .. n |-> Named(Clamp(retired[order[k]].posterior))]
    BY <2>4 DEF Reframings
  <2>8. scoped \in [1 .. n -> Hypothesis]
    <3> HIDE DEF retired, reframed, n, scoped
    <3> QED
      BY <2>6, <2>7
  <2> HIDE DEF retired, reframed, n, scoped
  <2> QED
    BY <2>3, <2>8, FunctionIsSeq
<1>7. evolved = retired \o scoped
  BY DEF EvolvedFrom
<1> HIDE DEF hs, more, grown, retired, reframed, scoped, evolved
<1>8. /\ evolved \in Seq(Hypothesis) /\ Len(evolved) >= Len(retired)
      /\ \A i \in 1 .. Len(retired) : evolved[i] = retired[i]
  BY <1>5, <1>6, <1>7, GrowKeeps
<1>9. Len(retired) \in Nat /\ Len(evolved) \in Nat
  BY <1>5, <1>8, LenProperties
<1>10. Preserves(hs, evolved)
  BY <1>1, <1>4, <1>5, <1>8, <1>9 DEF Preserves
<1>11. \A i \in 1 .. Len(hs) : evolved[i].posterior = hs[i].posterior
  BY <1>1, <1>4, <1>5, <1>8, <1>9
<1> QED
  BY <1>8, <1>10, <1>11 DEF evolved, hs

LEMMA EvolveKeeps ==
  ASSUME IInv,
         \/ EvolveNothing \/ EvolveIndependent
         \/ EvolveExclusive \/ EvolveToNothing
  PROVE  IInv'
<1>1. TypeOK /\ ReserveHeld /\ CycleInv /\ phase = "evolve" /\ ~ExclusiveOpen
  BY DEF IInv, CycleInv, EvolveNothing, EvolveIndependent, EvolveExclusive,
         EvolveToNothing
<1>2. CASE EvolveNothing
  <2>1. next \in Nat
    BY <1>1 DEF TypeOK
  <2> QED
    BY <1>1, <1>2, <2>1, StageKeeps DEF EvolveNothing, TypeOK
<1>3. CASE EvolveIndependent \/ EvolveToNothing
  <2>1. PICK order \in Orders(Reframed(RetiredFrom(work.hyps, queue))) :
          work' = [work EXCEPT !.hyps = EvolvedFrom(work.hyps, queue, order)]
    BY <1>3 DEF EvolveIndependent, EvolveToNothing
  <2> DEFINE evolved == EvolvedFrom(work.hyps, queue, order)
  <2>2. /\ evolved \in Seq(Hypothesis)
        /\ Preserves(work.hyps, evolved)
        /\ \A i \in 1 .. Len(work.hyps) :
             evolved[i].posterior = work.hyps[i].posterior
    BY <1>1, EvolvedKeeps
  <2>3. work' = [work EXCEPT !.hyps = evolved]
    BY <2>1
  <2> HIDE DEF evolved
  <2>4. work' \in Frame /\ work'.hyps = evolved /\ work'.adequacy = work.adequacy
    BY <1>1, <2>2, <2>3 DEF TypeOK, Frame
  <2>5. /\ UNCHANGED <<setup, belief, ledgered, queue, next, updates, cycle,
                       outcome>>
        /\ audits' \in Seq(Movement) /\ expanding' \in BOOLEAN
        /\ phase' = "expand"
    BY <1>1, <1>3 DEF EvolveIndependent, EvolveToNothing, TypeOK
  <2> QED
    BY <1>1, <2>2, <2>4, <2>5, HypothesesKeep DEF CycleInv
<1>4. CASE EvolveExclusive
  <2>1. PICK order \in Orders(Reframed(RetiredFrom(work.hyps, queue))) :
          LET evolved  == EvolvedFrom(work.hyps, queue, order)
              rounded  == RoundedSlots(Weights(Posteriors(evolved)))
              residual == Residual(rounded)
          IN \E anchor \in DOMAIN rounded :
               LET units == Settle(rounded, residual, anchor)
               IN /\ IsAnchor(Weights(Posteriors(evolved)),
                              Anchors(rounded, residual), anchor)
                  /\ Shares(units)
                  /\ work' = [work EXCEPT
                       !.hyps = WithPosteriors(evolved, InGrains(units))]
    BY <1>4 DEF EvolveExclusive
  <2> DEFINE evolved == EvolvedFrom(work.hyps, queue, order)
             weights == Weights(Posteriors(evolved))
             rounded == RoundedSlots(weights)
             residual == Residual(rounded)
  <2>2. PICK anchor \in DOMAIN rounded :
          /\ anchor \in Anchors(rounded, residual)
          /\ Shares(Settle(rounded, residual, anchor))
          /\ work' = [work EXCEPT !.hyps = WithPosteriors(evolved,
                        InGrains(Settle(rounded, residual, anchor)))]
    BY <2>1 DEF IsAnchor
  <2> DEFINE settled == InGrains(Settle(rounded, residual, anchor))
             hs == WithPosteriors(evolved, settled)
  <2>3. evolved \in Seq(Hypothesis) /\ Preserves(work.hyps, evolved)
    BY <1>1, EvolvedKeeps
  <2>4. DOMAIN weights = Participants(evolved)
    BY DEF Weights, Posteriors
  <2>5. work' = [work EXCEPT !.hyps = hs]
    BY <2>2
  <2> HIDE DEF evolved, weights
  <2>6. DOMAIN settled = DOMAIN weights
        /\ \A s \in DOMAIN settled : settled[s] \in Nat
    BY <2>2, SettledShares
  <2> HIDE DEF rounded, residual, settled
  <2>7. /\ hs \in Seq(Hypothesis) /\ Len(hs) = Len(evolved)
        /\ \A i \in 1 .. Len(evolved) :
             i \notin DOMAIN settled => hs[i] = evolved[i]
    BY <2>3, <2>6, WithPosteriorsKeeps
  <2> HIDE DEF hs
  <2>8. Len(evolved) \in Nat
    BY <2>3, LenProperties
  <2>9. Preserves(evolved, hs)
    BY <2>4, <2>6, <2>7, <2>8 DEF Preserves, Participants, Participates
  <2>10. Preserves(work.hyps, hs)
    BY <1>1, <2>3, <2>7, <2>9, WorkType, PreservesTransitive
  <2>11. work' \in Frame /\ work'.hyps = hs /\ work'.adequacy = work.adequacy
    BY <1>1, <2>5, <2>7 DEF TypeOK, Frame
  <2>12. /\ UNCHANGED <<setup, belief, ledgered, queue, next, updates, cycle,
                        outcome>>
         /\ audits' \in Seq(Movement) /\ expanding' \in BOOLEAN
         /\ phase' = "expand" /\ Exclusive
    BY <1>1, <1>4 DEF EvolveExclusive, TypeOK
  <2> QED
    BY <1>1, <2>10, <2>11, <2>12, HypothesesKeep DEF CycleInv
<1> QED
  BY <1>2, <1>3, <1>4

-----------------------------------------------------------------------------
(* What an expansion transfers leaves the reserve alone.                   *)
LEMMA TransferLeavesReserve ==
  ASSUME NEW unresolved \in Nat
  PROVE  /\ Transfer(unresolved) \in Nat
         /\ unresolved - Transfer(unresolved) \in Nat
         /\ unresolved >= Reserve =>
              unresolved - Transfer(unresolved) >= Reserve
<1>1. Reserve \in Nat /\ unresolved \div 2 \in Nat /\ unresolved \div 2 <= unresolved
  BY Amounts
<1> QED
  BY <1>1 DEF Transfer, MinOf

LEMMA SkipKeeps == ASSUME IInv, SkipExpansion PROVE IInv'
<1>1. TypeOK /\ ReserveHeld /\ CycleInv /\ phase = "expand"
  BY DEF IInv, SkipExpansion
<1>2. work' = [work EXCEPT !.active = Participants(work.hyps)]
  BY DEF SkipExpansion
<1>3. Participants(work.hyps) \in SUBSET Nat
  BY <1>1, WorkType DEF Participants
<1>4. work' \in Frame /\ work'.hyps = work.hyps
      /\ work'.unresolved = work.unresolved /\ work'.adequacy = work.adequacy
  BY <1>1, <1>2, <1>3 DEF TypeOK, Frame
<1>5. Preserves(work.hyps, work'.hyps)
  BY <1>1, <1>4, WorkType DEF Preserves
<1>6. /\ UNCHANGED <<setup, belief, ledgered, queue, next, updates, cycle,
                     outcome>>
      /\ audits' \in Seq(Movement) /\ expanding' \in BOOLEAN
      /\ phase' = "commit"
  BY <1>1 DEF SkipExpansion, TypeOK
<1>7. ExclusiveOpen => work'.unresolved >= Reserve
  BY <1>1, <1>4 DEF ReserveHeld
<1> QED
  BY <1>1, <1>4, <1>5, <1>6, <1>7, HypothesesKeep DEF CycleInv

LEMMA ExpandKeeps ==
  ASSUME IInv, NEW n \in 1 .. MaxProposals, Expand(n) PROVE IInv'
<1>1. TypeOK /\ ReserveHeld /\ CycleInv /\ phase = "expand"
  BY DEF IInv, Expand
<1>2. n \in Nat \ {0} /\ MaxRevisions \in Nat
  BY BeliefAssumption
<1> DEFINE un == work.unresolved
           more == [k \in 1 .. n |-> Named(ExpandedPosterior(un, n))]
           left == IF Exclusive THEN un - Transfer(un) ELSE un
           active == StillActive(work)
                       \cup (Len(work.hyps) + 1 .. Len(work.hyps) + n)
           hs == work.hyps \o more
<1>3. un \in Nat /\ Transfer(un) \in Nat /\ un - Transfer(un) \in Nat
      /\ (un >= Reserve => un - Transfer(un) >= Reserve)
  BY <1>1, WorkType, TransferLeavesReserve
<1>4. more \in Seq(Hypothesis)
  <2>1. Transfer(un) \div n \in Nat /\ Total \div 2 \in Nat
    BY <1>2, <1>3, Amounts
  <2>2. ExpandedPosterior(un, n) \in Nat
    BY <2>1 DEF ExpandedPosterior
  <2>3. Named(ExpandedPosterior(un, n)) \in Hypothesis
    BY <2>2 DEF Named, Hypothesis, Statuses
  <2>4. more \in [1 .. n -> Hypothesis]
    BY <2>3
  <2> HIDE DEF more
  <2> QED
    BY <1>2, <2>4, FunctionIsSeq
<1>5. left \in Nat
  BY <1>3
<1>6. active \in SUBSET Nat
  BY <1>1, <1>2, WorkType DEF StillActive, Participants
<1>7. /\ hs \in Seq(Hypothesis) /\ Len(hs) >= Len(work.hyps)
      /\ \A i \in 1 .. Len(work.hyps) : hs[i] = work.hyps[i]
  <2> HIDE DEF more
  <2> QED
    BY <1>1, <1>4, WorkType, GrowKeeps
<1>8. work' = [work EXCEPT !.hyps = hs, !.unresolved = left,
                           !.adequacy = "provisional",
                           !.version = work.version + 1,
                           !.revisions = work.revisions + 1,
                           !.active = active]
  BY DEF Expand, ExpandedBy
<1>9. work.version + 1 \in Nat /\ work.revisions + 1 \in 0 .. MaxRevisions
  <2>1. work.version \in Nat /\ work.revisions \in 0 .. MaxRevisions
    BY <1>1 DEF TypeOK, Frame
  <2>2. work.revisions < MaxRevisions
    BY DEF Expand, RevisionsLeft
  <2> QED
    BY <1>2, <2>1, <2>2
<1> HIDE DEF hs, left, active, more
<1>10. /\ work' \in Frame /\ work'.hyps = hs /\ work'.unresolved = left
       /\ work'.adequacy = "provisional"
  BY <1>1, <1>5, <1>6, <1>7, <1>8, <1>9 DEF TypeOK, Frame, Adequacy
<1>11. audits' \in Seq(Movement)
  <2>1. [prior |-> un, posterior |-> un - Transfer(un)] \in Movement
    BY <1>3 DEF Movement
  <2>2. audits \in Seq(Movement)
    BY <1>1 DEF TypeOK
  <2>3. \/ audits' = audits
        \/ audits' = Append(audits, [prior |-> un,
                                     posterior |-> un - Transfer(un)])
    BY DEF Expand
  <2> QED
    BY <2>1, <2>2, <2>3, AppendProperties
<1>12. Preserves(work.hyps, work'.hyps)
       /\ \A i \in 1 .. Len(work.hyps) :
            work'.hyps[i].posterior = work.hyps[i].posterior
  BY <1>7, <1>10 DEF Preserves
<1>13. ExclusiveOpen => work'.unresolved >= Reserve
  BY <1>1, <1>3, <1>10 DEF ReserveHeld, ExclusiveOpen, left
<1>14. /\ UNCHANGED <<setup, belief, ledgered, queue, next, updates, cycle,
                      outcome>>
       /\ expanding' \in BOOLEAN /\ phase' = "commit"
  BY <1>1 DEF Expand, TypeOK
<1> QED
  BY <1>1, <1>10, <1>11, <1>12, <1>13, <1>14, HypothesesKeep DEF Condemned

(* A cycle that is dropped or refused leaves the belief state alone.       *)
LEMMA DropKeeps == ASSUME IInv, ExpansionFails \/ CommitRefused PROVE IInv'
<1>1. TypeOK /\ ReserveHeld /\ ModelReasoningCannotCondemn
  BY DEF IInv
<1>2. /\ phase' = "idle" /\ outcome' \in {"dropped", "refused"}
      /\ UNCHANGED <<setup, belief, ledgered, work, queue, next, expanding,
                     updates, audits, cycle>>
  BY DEF ExpansionFails, CommitRefused
<1>3. TypeOK'
  BY <1>1, <1>2 DEF TypeOK
<1> QED
  BY <1>1, <1>2, <1>3
     DEF IInv, ReserveHeld, ExclusiveOpen, Exclusive, ModelReasoningCannotCondemn

LEMMA CommitKeeps == ASSUME IInv, Commit PROVE IInv'
<1>1. TypeOK /\ ReserveHeld /\ ModelReasoningCannotCondemn /\ CycleInv
  BY DEF IInv, Commit
<1>2. /\ belief' = work /\ phase' = "idle" /\ outcome' = "committed"
      /\ ledgered' = ledgered \cup {e.id : e \in ToSet(queue)}
      /\ UNCHANGED <<setup, work, queue, next, expanding, updates, audits,
                     cycle>>
  BY DEF Commit
<1>3. ToSet(queue) \subseteq Events
  BY <1>1, WorkType DEF ToSet
<1>4. ledgered' \subseteq {e.id : e \in Events}
  BY <1>1, <1>2, <1>3 DEF TypeOK
<1>5. TypeOK'
  BY <1>1, <1>2, <1>4 DEF TypeOK
<1>6. ReserveHeld'
  BY <1>1, <1>2 DEF ReserveHeld, ExclusiveOpen, Exclusive
<1>7. ModelReasoningCannotCondemn'
  <2> SUFFICES ASSUME work.adequacy \in Condemned
               PROVE  \E e \in Events : /\ e.id \in ledgered'
                                        /\ e.external
                                        /\ e.fit = "supports_unresolved"
    BY <1>2 DEF ModelReasoningCannotCondemn, Condemned
  <2>1. CASE belief.adequacy \in Condemned
    BY <2>1, <1>1, <1>2 DEF ModelReasoningCannotCondemn, Condemned
  <2>2. CASE OutsideSupport(queue)
    BY <2>2, <1>2, <1>3 DEF OutsideSupport
  <2> QED
    BY <2>1, <2>2, <1>1 DEF CycleInv
<1> QED
  BY <1>2, <1>5, <1>6, <1>7 DEF IInv

LEMMA StutterKeeps == ASSUME IInv, UNCHANGED vars PROVE IInv'
<1>1. IInv
  OBVIOUS
<1> QED
  BY <1>1 DEF vars, IInv, TypeOK, ReserveHeld, ModelReasoningCannotCondemn,
     CycleInv, QueueFresh, UpdatesOfSolved, Audited, PosteriorAudited,
     ExclusiveOpen, Exclusive

LEMMA NextInv == IInv /\ [Next]_vars => IInv'
<1> SUFFICES ASSUME IInv, [Next]_vars PROVE IInv'
  OBVIOUS
<1>1. CASE BeginCycle
  BY <1>1, BeginKeeps
<1>2. CASE SolveNothing \/ SolveExclusive \/ SolveIndependent
  BY <1>2, SolveKeeps
<1>3. CASE SolveDone \/ RetirementDone
  <2>1. next \in Nat /\ phase # "idle" /\ expanding \in BOOLEAN
    BY <1>3 DEF IInv, TypeOK, SolveDone, RetirementDone
  <2> QED
    BY <1>3, <2>1, StageKeeps DEF SolveDone, RetirementDone
<1>4. CASE \E i \in DOMAIN work.hyps : RetireAndReconcile(i)
  BY <1>4, RetireStepKeeps
<1>5. CASE Assess
  BY <1>5, AssessKeeps
<1>6. CASE \/ EvolveNothing \/ EvolveIndependent
           \/ EvolveExclusive \/ EvolveToNothing
  BY <1>6, EvolveKeeps
<1>7. CASE SkipExpansion
  BY <1>7, SkipKeeps
<1>8. CASE \E n \in 1 .. MaxProposals : Expand(n)
  BY <1>8, ExpandKeeps
<1>9. CASE ExpansionFails \/ CommitRefused
  BY <1>9, DropKeeps
<1>10. CASE Commit
  BY <1>10, CommitKeeps
<1>11. CASE UNCHANGED vars
  BY <1>11, StutterKeeps
<1> QED
  BY <1>1, <1>2, <1>3, <1>4, <1>5, <1>6, <1>7, <1>8, <1>9, <1>10, <1>11
     DEF Next, Done

-----------------------------------------------------------------------------
(* The inductive invariant holds in every reachable state.                 *)
THEOREM Invariance == Spec => []IInv
<1> QED
  BY InitInv, NextInv, PTL DEF Spec

(* Every variable keeps its type, and revisions their limit, whatever the  *)
(* events and the grid of probabilities.                                   *)
THEOREM TypeCorrect == Spec => []TypeOK
<1>1. IInv => TypeOK
  BY DEF IInv
<1> QED
  BY <1>1, Invariance, PTL

(* Neither rounding nor an expansion ever takes the unresolved mass of an  *)
(* exclusive-open frame below the reserve (_round_distribution with        *)
(* minimums, _materialize_hypotheses).                                     *)
THEOREM ReserveIsHeld == Spec => []ReserveHeld
<1>1. IInv => ReserveHeld
  BY DEF IInv
<1> QED
  BY <1>1, Invariance, PTL

(* An event updates a hypothesis once, and never again once the belief     *)
(* state refers to it (mark_replayed_evidence_events).                     *)
THEOREM EventsCountOnce == Spec => []UpdatesAreFresh
<1>1. IInv => UpdatesAreFresh
  <2> SUFFICES ASSUME IInv, phase # "idle" PROVE UpdatesAreFresh
    BY DEF UpdatesAreFresh
  <2>1. QueueFresh /\ UpdatesOfSolved
    BY DEF IInv, CycleInv
  <2> QED
    BY <2>1 DEF QueueFresh, UpdatesOfSolved, UpdatesAreFresh
<1> QED
  BY <1>1, Invariance, PTL

(* A frame is condemned only on outside evidence (assess), however many    *)
(* cycles of model reasoning came before.                                  *)
THEOREM OutsideEvidenceCondemns == Spec => []ModelReasoningCannotCondemn
<1>1. IInv => ModelReasoningCannotCondemn
  BY DEF IInv
<1> QED
  BY <1>1, Invariance, PTL

(* In exclusive-open and independent frames every movement of a posterior  *)
(* ends where a belief update of the cycle says (solve, evolve, expand).   *)
THEOREM MovementsAudited == Spec => []OpenPosteriorsAudited
<1>1. IInv => OpenPosteriorsAudited
  <2> SUFFICES ASSUME IInv, ExclusiveOpen \/ ~Exclusive, phase = "commit",
                      NEW i \in DOMAIN belief.hyps
               PROVE  PosteriorAudited(i)
    BY DEF OpenPosteriorsAudited, PosteriorsAudited
  <2>1. TypeOK /\ Audited
    BY DEF IInv, CycleInv
  <2> QED
    BY <2>1, WorkType DEF Audited
<1> QED
  BY <1>1, Invariance, PTL

(* Whatever a cycle commits, the list of hypotheses only grows and its     *)
(* retired members never change.                                           *)
THEOREM RetiredForGood == Spec => RetiredStaysOut
<1> DEFINE Stays == \A i \in DOMAIN belief.hyps :
             /\ i \in DOMAIN belief'.hyps
             /\ belief.hyps[i].status = "retired" =>
                  belief'.hyps[i] = belief.hyps[i]
<1>1. IInv /\ [Next]_vars => [Stays]_vars
  <2> SUFFICES ASSUME IInv, Next PROVE Stays
    OBVIOUS
  <2>1. TypeOK
    BY DEF IInv
  <2>2. CASE Commit
    <3>1. belief' = work /\ Preserves(belief.hyps, work.hyps)
      BY <2>2 DEF Commit, IInv, CycleInv
    <3> QED
      BY <3>1, <2>1, WorkType DEF Preserves
  <2>3. CASE ~Commit
    <3>1. belief' = belief
      BY <2>3 DEF Next, BeginCycle, SolveNothing, SolveExclusive,
         SolveIndependent, SolveDone, RetireAndReconcile, RetirementDone,
         Assess, EvolveNothing, EvolveIndependent, EvolveExclusive,
         EvolveToNothing, SkipExpansion, Expand, ExpansionFails, CommitRefused, Done, vars
    <3> QED
      BY <3>1
  <2> QED
    BY <2>2, <2>3
<1>2. Spec => [][Stays]_vars
  <2> HIDE DEF Stays
  <2> QED
    BY <1>1, Invariance, PTL DEF Spec
<1> QED
  BY <1>2 DEF RetiredStaysOut
-----------------------------------------------------------------------------
(* The limit of active hypotheses.  In an exclusive-open frame nothing     *)
(* spawns, so the active ids are the participants all along, and only an   *)
(* expansion adds to them.                                                 *)
Limited(w) == w.active = Participants(w.hyps) /\ Cardinality(w.active) <= MaxActive

LimitInv ==
  ExclusiveOpen => Limited(belief) /\ (phase # "idle" => Limited(work))

LEMMA ActiveFinite ==
  ASSUME NEW hs \in Seq(Hypothesis)
  PROVE  IsFiniteSet(Participants(hs)) /\ Cardinality(Participants(hs)) \in Nat
<1>1. Len(hs) \in Nat
  BY LenProperties
<1>2. IsFiniteSet(1 .. Len(hs))
  BY <1>1, FS_Interval
<1>3. Participants(hs) \subseteq 1 .. Len(hs)
  BY DEF Participants
<1>4. IsFiniteSet(Participants(hs))
  BY <1>2, <1>3, FS_Subset
<1> QED
  BY <1>4, FS_CardinalityType

(* A run does not start with more hypotheses than may be active.           *)
RoomToStart ==
  \A s \in Setups : OpenSetup(s) => Len(s.priors) <= MaxActive

LEMMA InitLimited == ASSUME RoomToStart, Init PROVE LimitInv
<1> SUFFICES ASSUME ExclusiveOpen PROVE Limited(belief)
  BY DEF LimitInv, Init
<1>1. /\ setup \in Setups /\ OpenSetup(setup)
      /\ Len(setup.priors) \in Nat
      /\ Len(belief.hyps) = Len(setup.priors)
      /\ Participants(belief.hyps) = 1 .. Len(belief.hyps)
      /\ belief.active = 1 .. Len(belief.hyps)
  BY InitialHypotheses DEF Init, ExclusiveOpen, Exclusive, OpenSetup
<1>2. Cardinality(1 .. Len(belief.hyps)) = Len(belief.hyps)
  BY <1>1, FS_Interval
<1>3. Len(belief.hyps) <= MaxActive
  BY <1>1 DEF RoomToStart
<1> QED
  BY <1>1, <1>2, <1>3 DEF Limited

LEMMA SolvedLimited ==
  ASSUME TypeOK, Limited(work), NEW settled, SolvedTo(settled),
         \A s \in DOMAIN settled : settled[s] \in Nat
  PROVE  Limited(work)'
<1> DEFINE hs == WithPosteriors(work.hyps, settled)
<1>1. Len(hs) = Len(work.hyps)
      /\ \A i \in 1 .. Len(work.hyps) : hs[i].status = work.hyps[i].status
  BY WorkType, WithPosteriorsKeeps
<1>2. work'.hyps = hs /\ work'.active = work.active
  BY DEF SolvedTo, TypeOK, Frame
<1> HIDE DEF hs
<1>3. Participants(hs) = Participants(work.hyps)
  BY <1>1 DEF Participants, Participates
<1> QED
  BY <1>2, <1>3 DEF Limited

LEMMA RetireLimited ==
  ASSUME TypeOK, Limited(work), NEW i \in DOMAIN work.hyps,
         RetireAndReconcile(i)
  PROVE  Limited(work)'
<1> DEFINE hs == Retire(work.hyps, {i})
<1>1. work'.hyps = hs /\ work'.active = work.active \ {i}
  BY DEF RetireAndReconcile, TypeOK, Frame
<1>2. Len(hs) = Len(work.hyps)
  BY WorkType, RetireKeeps
<1>3. \A j \in 1 .. Len(work.hyps) :
        hs[j].status = IF j = i THEN "retired" ELSE work.hyps[j].status
  BY WorkType DEF Retire, Hypothesis
<1> HIDE DEF hs
<1>4. Participants(hs) = Participants(work.hyps) \ {i}
  BY <1>2, <1>3 DEF Participants, Participates
<1>5. IsFiniteSet(work.active) /\ Cardinality(work.active) \in Nat
  BY WorkType, ActiveFinite DEF Limited
<1>6. /\ IsFiniteSet(work.active \ {i})
      /\ Cardinality(work.active \ {i}) <= Cardinality(work.active)
  BY <1>5, FS_Subset
<1>7. Cardinality(work.active \ {i}) \in Nat
  BY <1>6, FS_CardinalityType
<1>8. Cardinality(work.active \ {i}) <= MaxActive
  BY <1>5, <1>6, <1>7, BeliefAssumption DEF Limited
<1> QED
  BY <1>1, <1>4, <1>8 DEF Limited

LEMMA ExpandLimited ==
  ASSUME TypeOK, Limited(work), NEW n \in 1 .. MaxProposals, Expand(n)
  PROVE  Limited(work)'
<1>1. n \in Nat
  BY BeliefAssumption
<1> DEFINE hs == work.hyps
           more == [k \in 1 .. n |-> Named(ExpandedPosterior(work.unresolved, n))]
           added == Len(hs) + 1 .. Len(hs) + n
<1>2. StillActive(work) = work.active
  BY DEF Limited, StillActive
<1>3. work'.hyps = hs \o more /\ work'.active = work.active \cup added
  BY <1>2 DEF Expand, ExpandedBy, TypeOK, Frame
<1>4. /\ Len(hs) \in Nat /\ hs \in Seq(Hypothesis)
      /\ Cardinality(work.active) \in Nat /\ IsFiniteSet(work.active)
  BY WorkType, ActiveFinite DEF Limited
<1>5. IsFiniteSet(added) /\ Cardinality(added) = n
  <2> DEFINE a == Len(hs) + 1
             b == Len(hs) + n
  <2>1. a \in Int /\ b \in Int /\ b - a + 1 = n /\ ~(a > b)
    BY <1>1, <1>4
  <2> HIDE DEF a, b
  <2>2. IsFiniteSet(a .. b) /\ Cardinality(a .. b) = IF a > b THEN 0 ELSE b - a + 1
    BY <2>1, FS_Interval
  <2>3. IsFiniteSet(a .. b) /\ Cardinality(a .. b) = n
    BY <2>1, <2>2
  <2> QED
    BY <2>3 DEF a, b
<1>6. /\ Len(hs \o more) = Len(hs) + n
      /\ \A i \in 1 .. Len(hs) : (hs \o more)[i] = hs[i]
      /\ \A i \in added : (hs \o more)[i].status = "active"
  <2> DEFINE any == {Named(ExpandedPosterior(work.unresolved, n))} \cup Hypothesis
  <2>1. more \in [1 .. n -> any]
    OBVIOUS
  <2>2. hs \in Seq(any)
    <3> HIDE DEF hs
    <3> QED
      BY <1>4, SeqMonotonic
  <2>3. \A k \in 1 .. n : more[k].status = "active"
    BY DEF Named
  <2> HIDE DEF any, more, hs
  <2>4. more \in Seq(any) /\ Len(more) = n
    BY <1>1, <2>1, FunctionIsSeq
  <2>5. /\ Len(hs \o more) = Len(hs) + Len(more)
        /\ \A i \in 1 .. Len(hs) + Len(more) :
             (hs \o more)[i] = IF i <= Len(hs) THEN hs[i] ELSE more[i - Len(hs)]
    BY <2>2, <2>4, ConcatProperties
  <2> QED
    BY <1>1, <1>4, <2>3, <2>4, <2>5
<1> HIDE DEF more
<1>7. Participants(hs \o more) = Participants(hs) \cup added
  <2>1. 1 .. Len(hs) + n = (1 .. Len(hs)) \cup added
    BY <1>1, <1>4
  <2>2. \A i \in added : Participates((hs \o more)[i])
    BY <1>6 DEF Participates
  <2> HIDE DEF hs, added
  <2> QED
    BY <1>6, <2>1, <2>2 DEF Participants
<1>8. Cardinality(work.active \cup added) <= Cardinality(work.active) + n
  <2> HIDE DEF added
  <2>1. /\ IsFiniteSet(work.active \cup added)
        /\ Cardinality(work.active \cup added)
             = Cardinality(work.active) + Cardinality(added)
                 - Cardinality(work.active \cap added)
    BY <1>4, <1>5, FS_Union
  <2>2. IsFiniteSet(work.active \cap added)
    BY <1>5, FS_Subset
  <2>3. Cardinality(work.active \cap added) \in Nat
    BY <2>2, FS_CardinalityType
  <2> QED
    BY <1>1, <1>4, <1>5, <2>1, <2>3
<1>9. Cardinality(work.active) + n <= MaxActive
  BY <1>2 DEF Expand, WithinActiveLimit
<1>10. Cardinality(work.active \cup added) \in Nat
  BY <1>4, <1>5, FS_Union, FS_CardinalityType
<1>11. Cardinality(work.active \cup added) <= MaxActive
  BY <1>1, <1>4, <1>8, <1>9, <1>10, BeliefAssumption
<1> HIDE DEF added, hs
<1> QED
  BY <1>3, <1>7, <1>11 DEF Limited, hs

LEMMA NextLimited == ASSUME IInv, LimitInv, [Next]_vars PROVE LimitInv'
<1> SUFFICES ASSUME ExclusiveOpen PROVE LimitInv'
  BY DEF LimitInv, ExclusiveOpen, Exclusive, Next, vars, BeginCycle,
     SolveNothing, SolveExclusive, SolveIndependent, SolveDone,
     RetireAndReconcile, RetirementDone, Assess, EvolveNothing,
     EvolveIndependent, EvolveExclusive, EvolveToNothing, SkipExpansion,
     Expand, ExpansionFails, Commit, CommitRefused, Done
<1>1. TypeOK /\ Limited(belief) /\ (phase # "idle" => Limited(work))
  BY DEF IInv, LimitInv
<1>2. phase # "evolve"
  BY DEF IInv, CycleInv
<1>3. CASE BeginCycle
  <2>1. work' = [belief EXCEPT !.active = Participants(belief.hyps)]
        /\ belief' = belief
    BY <1>3 DEF BeginCycle
  <2>2. work'.hyps = belief.hyps /\ work'.active = Participants(belief.hyps)
    BY <1>1, <2>1 DEF TypeOK, Frame
  <2> QED
    BY <1>1, <2>1, <2>2 DEF LimitInv, Limited
<1>4. CASE SolveNothing \/ SolveDone \/ RetirementDone
  BY <1>1, <1>4 DEF LimitInv, Limited, SolveNothing, SolveDone, RetirementDone,
                    CanSolve
<1>5. CASE SolveExclusive
  <2> DEFINE rounded == RoundedSlots(ScoredWeights)
             residual == Residual(rounded)
  <2>1. PICK anchor \in DOMAIN rounded :
          /\ anchor \in Anchors(rounded, residual)
          /\ Shares(Settle(rounded, residual, anchor))
          /\ SolvedTo(InGrains(Settle(rounded, residual, anchor)))
    BY <1>5 DEF SolveExclusive, IsAnchor
  <2> DEFINE settled == InGrains(Settle(rounded, residual, anchor))
  <2>2. \A s \in DOMAIN settled : settled[s] \in Nat
    BY <2>1, SettledShares
  <2>3. Limited(work)'
    <3> HIDE DEF settled, rounded, residual
    <3>1. SolvedTo(settled)
      BY <2>1 DEF settled
    <3> QED
      BY <1>1, <1>5, <2>2, <3>1, SolvedLimited DEF SolveExclusive, CanSolve
  <2> QED
    BY <1>1, <1>5, <2>3 DEF LimitInv, Limited, SolveExclusive
<1>6. CASE SolveIndependent
  BY <1>6 DEF SolveIndependent, ExclusiveOpen
<1>7. CASE \E i \in DOMAIN work.hyps : RetireAndReconcile(i)
  <2>1. Limited(work)'
    BY <1>1, <1>7, RetireLimited DEF RetireAndReconcile
  <2> QED
    BY <1>1, <1>7, <2>1 DEF LimitInv, Limited, RetireAndReconcile
<1>8. CASE Assess
  <2>1. work'.hyps = work.hyps /\ work'.active = work.active
        /\ belief' = belief /\ phase = "assess"
    BY <1>1, <1>8 DEF Assess, TypeOK, Frame
  <2> QED
    BY <1>1, <2>1 DEF LimitInv, Limited
<1>9. CASE SkipExpansion
  <2>1. work'.hyps = work.hyps /\ work'.active = Participants(work.hyps)
        /\ belief' = belief /\ phase = "expand"
    BY <1>1, <1>9 DEF SkipExpansion, TypeOK, Frame
  <2> QED
    BY <1>1, <2>1 DEF LimitInv, Limited
<1>10. CASE \E n \in 1 .. MaxProposals : Expand(n)
  <2>1. Limited(work)'
    BY <1>1, <1>10, ExpandLimited DEF Expand
  <2> QED
    BY <1>1, <1>10, <2>1 DEF LimitInv, Limited, Expand
<1>11. CASE Commit \/ CommitRefused \/ ExpansionFails
  BY <1>1, <1>11 DEF LimitInv, Limited, Commit, CommitRefused, ExpansionFails
<1>12. CASE \/ EvolveNothing \/ EvolveIndependent
            \/ EvolveExclusive \/ EvolveToNothing
  BY <1>2, <1>12 DEF EvolveNothing, EvolveIndependent, EvolveExclusive,
                     EvolveToNothing
<1>13. CASE UNCHANGED vars
  BY <1>1, <1>13 DEF LimitInv, Limited, vars
<1> QED
  BY <1>3, <1>4, <1>5, <1>6, <1>7, <1>8, <1>9, <1>10, <1>11, <1>12, <1>13
     DEF Next, Done

(* With room for the hypotheses it starts with, an exclusive-open frame    *)
(* stays within max_active_hypotheses (_validate_proposals).               *)
THEOREM LimitIsKept ==
  ASSUME RoomToStart PROVE Spec => []ActiveWithinLimit
<1>1. Init => LimitInv
  BY InitLimited
<1>2. IInv /\ LimitInv /\ [Next]_vars => LimitInv'
  BY NextLimited
<1>3. LimitInv => ActiveWithinLimit
  BY DEF LimitInv, Limited, ActiveWithinLimit
<1> QED
  BY <1>1, <1>2, <1>3, Invariance, PTL DEF Spec
=============================================================================
