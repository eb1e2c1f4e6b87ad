-------------------------- MODULE BeliefMassProofs --------------------------
(***************************************************************************)
(* Theorems about the masses of BeliefFrame: what is conserved, and what   *)
(* is recorded of the unresolved mass.                                     *)
(***************************************************************************)
EXTENDS BeliefFrameProofs, SumTheorems

(* The grains an expansion can leave unresolved masses in after r          *)
(* revisions: the halvings that GrainAssumption makes room for.            *)
Step == CHOOSE step \in [0 .. MaxRevisions -> 1 .. Grain] : Halves(step)

Multiple(m, d) == \E k \in Nat : m = k * d

(* A mass the solver has rounded is a number of units.                     *)
Whole(m) == Multiple(m, Grain)

(* The masses of the hypotheses that take part, and the mass no hypothesis *)
(* claims, are the whole probability.                                      *)
Balanced(w) == NamedMass(w.hyps, Participants(w.hyps)) + w.unresolved = Total

(* A frame with no hypothesis left and no unresolved mass to fall back on. *)
Emptied(w) == ~ExclusiveOpen /\ Participants(w.hyps) = {}

(* What every state of a run and every copy a cycle works on satisfies.    *)
Sound(w) ==
  /\ \A i \in 1 .. Len(w.hyps) : w.hyps[i].posterior <= Total
  /\ Exclusive => Balanced(w) \/ Emptied(w)
  /\ ~ExclusiveOpen => w.unresolved = 0
  /\ ExclusiveOpen => Multiple(w.unresolved, Step[w.revisions])

(* The solver has rounded every mass of this cycle's copy: a mutation has  *)
(* been solved for, or the cycle retires hypotheses.                       *)
Rounded ==
  \/ phase = "solve" /\ next > 1
  \/ phase = "retire" /\ queue # <<>>

(* What a cycle under way adds: the active set is the participants, the    *)
(* unresolved masses in the queue are bands, and after a solve every       *)
(* posterior is a number of units, so that closing a hypothesis keeps the  *)
(* unresolved mass on the grid.                                            *)
CycleMass ==
  /\ ExclusiveOpen =>
       /\ work.active = Participants(work.hyps)
       /\ \A k \in DOMAIN queue : queue[k].unresolved \in Bands
       /\ Rounded =>
            \A i \in Participants(work.hyps) : Whole(work.hyps[i].posterior)
  /\ phase = "retire" => ExclusiveOpen
  /\ expanding => setup.coverage = "open"
  /\ phase = "commit" =>
       /\ Exclusive => work.active = Participants(work.hyps)
       /\ work.active = {} => Participants(work.hyps) = {}

MassInv ==
  /\ Sound(belief)
  /\ phase # "idle" => Sound(work) /\ CycleMass

(* The prior the next unresolved record will name: the one the cycle       *)
(* started from, as it is or rounded to a unit, or the one the last record *)
(* ended with.                                                             *)
Onward(prior) ==
  \/ audits = <<>> /\ prior \in {belief.unresolved, NearestUnit(belief.unresolved)}
  \/ audits # <<>> /\ prior = audits[Len(audits)].posterior

(* The records of the cycle so far form one chain.                         *)
Chained ==
  audits # <<>> =>
    /\ audits[1].prior \in {belief.unresolved, NearestUnit(belief.unresolved)}
    /\ \A k \in 2 .. Len(audits) : audits[k].prior = audits[k - 1].posterior

(* The chain reaches the mass the cycle holds.  Until the first solve that *)
(* mass is the accepted one; afterwards rounding it changes nothing.       *)
AuditInv ==
  phase # "idle" /\ ExclusiveOpen =>
    /\ Chained
    /\ Onward(work.unresolved)
    /\ phase = "solve" =>
         \/ audits = <<>> /\ work.unresolved = belief.unresolved
         \/ NearestUnit(work.unresolved) = work.unresolved


-----------------------------------------------------------------------------
(* Arithmetic of rounding.                                                 *)

LEMMA DivisionUnique ==
  ASSUME NEW a \in Nat, NEW t \in Nat \ {0}, NEW q \in Nat, NEW r \in Nat,
         a = q * t + r, r < t
  PROVE  a \div t = q /\ a % t = r
  OBVIOUS

LEMMA DivisionExact ==
  ASSUME NEW q \in Nat, NEW t \in Nat \ {0}
  PROVE  (q * t) \div t = q /\ (q * t) % t = 0
<1>1. q * t \in Nat /\ q * t = q * t + 0
  OBVIOUS
<1> QED
  BY <1>1, DivisionUnique

LEMMA RoundUnitsBounds ==
  ASSUME NEW w \in Nat, NEW t \in Nat \ {0}
  PROVE  /\ RoundUnits(w, t) \in Nat
         /\ w <= t => RoundUnits(w, t) <= Units
<1> DEFINE a == w * Units
           q == a \div t
           r == a % t
<1>1. a \in Nat /\ Units \in Nat
  BY BeliefAssumption
<1> HIDE DEF a
<1>2. q \in Nat /\ r \in 0 .. t - 1 /\ a = q * t + r
  BY <1>1
<1> HIDE DEF q, r
<1>3. RoundUnits(w, t)
        = IF 2 * r > t \/ (2 * r = t /\ q % 2 = 1) THEN q + 1 ELSE q
  BY DEF RoundUnits, a, q, r
<1>4. RoundUnits(w, t) \in Nat
  BY <1>2, <1>3
<1>5. ASSUME w <= t PROVE RoundUnits(w, t) <= Units
  <2>1. a <= Units * t
    BY <1>5, <1>1, ProductMonotone DEF a
  <2>2. CASE q < Units
    BY <2>2, <1>1, <1>2, <1>3
  <2>3. CASE q = Units
    <3>1. q * t = Units * t /\ q * t \in Nat
      BY <2>3, <1>2
    <3>2. r = 0
      BY <3>1, <2>1, <1>1, <1>2
    <3> QED
      BY <3>2, <2>3, <1>1, <1>3
  <2>4. CASE q > Units
    <3> DEFINE d == q - Units
    <3>1. d \in Nat /\ d >= 1 /\ q = Units + d
      BY <2>4, <1>1, <1>2
    <3> HIDE DEF d
    <3>2. q * t = Units * t + d * t
      BY <3>1, <1>1
    <3>3. 1 * t <= t * d
      BY <3>1, ProductMonotone
    <3>4. d * t >= t /\ d * t \in Nat /\ Units * t \in Nat
      BY <3>1, <3>3, <1>1
    <3>5. q * t > a
      BY <2>1, <3>2, <3>4, <1>1
    <3> QED
      BY <3>5, <1>1, <1>2
  <2> QED
    BY <2>2, <2>3, <2>4, <1>1, <1>2
<1> QED
  BY <1>4, <1>5

(* Rounding leaves whole units alone.                                      *)
LEMMA NearestOfWhole ==
  ASSUME NEW u \in Nat PROVE NearestUnit(Grain * u) = Grain * u
<1>1. Units \in Nat /\ Grain \in Nat \ {0} /\ Total \in Nat \ {0}
      /\ Total = Units * Grain
  BY BeliefAssumption, Amounts DEF Total
<1>2. (Grain * u) * Units = u * Total
  BY <1>1
<1>3. (u * Total) \div Total = u /\ (u * Total) % Total = 0
  BY <1>1, DivisionExact
<1>4. RoundUnits(Grain * u, Total) = u
  BY <1>1, <1>2, <1>3 DEF RoundUnits
<1> QED
  BY <1>4 DEF NearestUnit

LEMMA NearestTwice ==
  ASSUME NEW m \in Nat
  PROVE  NearestUnit(NearestUnit(m)) = NearestUnit(m)
<1>1. Total \in Nat \ {0}
  BY Amounts
<1>2. RoundUnits(m, Total) \in Nat
  BY <1>1, RoundUnitsBounds
<1> QED
  BY <1>2, NearestOfWhole DEF NearestUnit

-----------------------------------------------------------------------------
(* The record of the unresolved mass.                                      *)

(* A movement that starts where the record stands is appended to it.       *)
LEMMA AppendsOnward ==
  ASSUME TypeOK, Chained, NEW prior \in Nat, NEW posterior \in Nat,
         Onward(prior), UNCHANGED belief,
         audits' = Append(audits, [prior |-> prior, posterior |-> posterior])
  PROVE  Chained' /\ Onward(posterior)' /\ audits' # <<>>
<1> DEFINE m == [prior |-> prior, posterior |-> posterior]
           log == Append(audits, m)
<1>1. audits \in Seq(Movement) /\ m \in Movement
  BY DEF TypeOK, Movement
<1>2. Len(audits) \in Nat
  BY <1>1, LenProperties
<1>3. /\ Len(log) = Len(audits) + 1 /\ log # <<>>
      /\ log[Len(audits) + 1] = m
      /\ \A k \in 1 .. Len(audits) : log[k] = audits[k]
  BY <1>1, AppendProperties
<1>4. audits = <<>> <=> Len(audits) = 0
  BY <1>1, EmptySeq
<1> HIDE DEF log, m
<1>5. m.prior = prior /\ m.posterior = posterior
  BY DEF m
<1>6. audits' = log
  BY DEF log, m
<1>7. CASE audits = <<>>
  <2>1. Len(log) = 1 /\ log[1] = m
    BY <1>3, <1>4, <1>7
  <2>2. \A k \in 2 .. Len(log) : log[k].prior = log[k - 1].posterior
    BY <2>1
  <2>3. log[1].prior \in {belief.unresolved, NearestUnit(belief.unresolved)}
    BY <1>5, <1>7, <2>1 DEF Onward
  <2>4. log[Len(log)].posterior = posterior
    BY <1>5, <2>1
  <2> QED
    BY <1>3, <1>6, <2>2, <2>3, <2>4 DEF Chained, Onward, NearestUnit
<1>8. CASE audits # <<>>
  <2>1. Len(audits) >= 1
    BY <1>2, <1>4, <1>8
  <2>2. log[1] = audits[1]
    BY <1>2, <1>3, <2>1
  <2>3. ASSUME NEW k \in 2 .. Len(log)
        PROVE  log[k].prior = log[k - 1].posterior
    <3>1. CASE k <= Len(audits)
      <4>1. k \in 2 .. Len(audits) /\ k - 1 \in 1 .. Len(audits)
            /\ k \in 1 .. Len(audits)
        BY <1>2, <3>1
      <4> QED
        BY <1>3, <1>8, <4>1 DEF Chained
    <3>2. CASE k = Len(audits) + 1
      <4>1. k - 1 = Len(audits) /\ Len(audits) \in 1 .. Len(audits)
        BY <1>2, <2>1, <3>2
      <4>2. prior = audits[Len(audits)].posterior
        BY <1>8 DEF Onward
      <4> QED
        BY <1>3, <1>5, <3>2, <4>1, <4>2
    <3> QED
      BY <1>2, <1>3, <3>1, <3>2
  <2>4. log[1].prior \in {belief.unresolved, NearestUnit(belief.unresolved)}
    BY <1>8, <2>2 DEF Chained
  <2>5. log[Len(log)].posterior = posterior
    BY <1>3, <1>5
  <2> QED
    BY <1>3, <1>6, <2>3, <2>4, <2>5 DEF Chained, Onward, NearestUnit
<1> QED
  BY <1>7, <1>8

LEMMA InitAudit == Init => AuditInv
  BY DEF Init, AuditInv

(* An event of an exclusive-open frame leaves a whole unresolved mass, and *)
(* records its movement from where the record stands.                      *)
LEMMA SolveAudits ==
  ASSUME IInv, AuditInv, ExclusiveOpen, SolveExclusive
  PROVE  AuditInv'
<1>1. /\ TypeOK /\ phase = "solve" /\ Chained /\ Onward(work.unresolved)
      /\ \/ audits = <<>> /\ work.unresolved = belief.unresolved
         \/ NearestUnit(work.unresolved) = work.unresolved
  BY DEF IInv, AuditInv, SolveExclusive, CanSolve
<1> DEFINE rounded == RoundedSlots(ScoredWeights)
           residual == Residual(rounded)
<1>2. PICK anchor \in DOMAIN rounded :
        /\ anchor \in Anchors(rounded, residual)
        /\ Shares(Settle(rounded, residual, anchor))
        /\ SolvedTo(InGrains(Settle(rounded, residual, anchor)))
        /\ audits' = audits \o AuditUnresolved(work.unresolved,
                       InGrains(Settle(rounded, residual, anchor))[UnresolvedSlot])
  BY DEF SolveExclusive, IsAnchor
<1> DEFINE units == Settle(rounded, residual, anchor)
           settled == InGrains(units)
<1>3. UnresolvedSlot \in DOMAIN units
  BY ScoredSlots DEF Settle, RoundedSlots
<1>4. PICK u \in Nat : units[UnresolvedSlot] = u
  BY <1>2, <1>3 DEF Shares
<1>5. PICK after : after = settled[UnresolvedSlot]
  OBVIOUS
<1>6. after = Grain * u
  BY <1>3, <1>4, <1>5 DEF InGrains
<1>7. NearestUnit(after) = after /\ after \in Nat
  <2>1. Grain \in Nat
    BY BeliefAssumption
  <2> QED
    BY <1>6, <2>1, NearestOfWhole
<1>8. SolvedTo(settled) /\ audits' = audits \o AuditUnresolved(work.unresolved, after)
  BY <1>2, <1>5
<1> HIDE DEF settled, units, rounded, residual
<1>9. work'.unresolved = after
  <2>1. work' = [work EXCEPT !.hyps = WithPosteriors(@, settled),
                             !.unresolved = after]
    BY <1>5, <1>8 DEF SolvedTo
  <2> QED
    BY <1>1, <2>1 DEF TypeOK, Frame
<1>10. UNCHANGED <<belief, setup, phase>>
  BY DEF SolveExclusive
<1>11. PICK prior : prior = NearestUnit(work.unresolved)
  OBVIOUS
<1>12. prior \in Nat /\ audits \in Seq(Movement)
  BY <1>1, <1>11, WorkType, NearestUnitType DEF TypeOK
<1>13. Onward(prior)
  BY <1>1, <1>11 DEF Onward
<1>14. Chained' /\ Onward(after)'
  <2>1. CASE after = prior
    <3>1. audits' = audits \o <<>>
      BY <1>8, <1>11, <2>1 DEF AuditUnresolved
    <3>2. audits' = audits
      BY <1>12, <3>1, ConcatEmptySeq
    <3> QED
      BY <1>1, <1>10, <1>13, <2>1, <3>2 DEF Chained, Onward, NearestUnit
  <2>2. CASE after # prior
    <3> DEFINE m == [prior |-> prior, posterior |-> after]
    <3>1. audits' = audits \o <<m>>
      BY <1>8, <1>11, <2>2 DEF AuditUnresolved
    <3>2. m \in Movement
      BY <1>7, <1>12 DEF Movement
    <3>3. audits' = Append(audits, m)
      <4> HIDE DEF m
      <4> QED
        BY <1>12, <3>1, <3>2, AppendIsConcat
    <3> QED
      BY <1>1, <1>7, <1>10, <1>12, <1>13, <3>3, AppendsOnward
  <2> QED
    BY <2>1, <2>2
<1>15. Onward(work.unresolved)'
  BY <1>9, <1>14 DEF Onward
<1>16. NearestUnit(work.unresolved)' = work'.unresolved
  BY <1>7, <1>9 DEF NearestUnit
<1> QED
  BY <1>14, <1>15, <1>16 DEF AuditInv

LEMMA NextAudit == ASSUME IInv, AuditInv, [Next]_vars PROVE AuditInv'
<1> SUFFICES ASSUME phase' # "idle", ExclusiveOpen PROVE AuditInv'
  BY DEF AuditInv, ExclusiveOpen, Exclusive, Next, vars, BeginCycle,
     SolveNothing, SolveExclusive, SolveIndependent, SolveDone,
     RetireAndReconcile, RetirementDone, Assess, EvolveNothing,
     EvolveIndependent, EvolveExclusive, EvolveToNothing, SkipExpansion,
     Expand, ExpansionFails, Commit, CommitRefused, Done
<1>1. TypeOK /\ phase # "evolve"
  BY DEF IInv, CycleInv
<1>2. phase # "idle" => Chained /\ Onward(work.unresolved)
  BY DEF AuditInv
<1>3. CASE BeginCycle
  <2>1. /\ work' = [belief EXCEPT !.active = Participants(belief.hyps)]
        /\ belief' = belief /\ audits' = <<>>
    BY <1>3 DEF BeginCycle
  <2>2. work'.unresolved = belief'.unresolved
    BY <1>1, <2>1 DEF TypeOK, Frame
  <2> QED
    BY <2>1, <2>2 DEF AuditInv, Chained, Onward
<1>4. CASE SolveNothing \/ SolveDone \/ RetirementDone
  <2>1. /\ UNCHANGED <<belief, work, audits>> /\ phase # "idle"
        /\ phase' = "solve" => phase = "solve"
    BY <1>4 DEF SolveNothing, SolveDone, RetirementDone, CanSolve
  <2> QED
    BY <1>2, <2>1 DEF AuditInv, Chained, Onward, NearestUnit
<1>5. CASE SolveExclusive
  BY <1>5, SolveAudits
<1>6. CASE SolveIndependent
  BY <1>6 DEF SolveIndependent, ExclusiveOpen
<1>7. CASE \E i \in DOMAIN work.hyps : RetireAndReconcile(i)
  <2>1. PICK i \in DOMAIN work.hyps : RetireAndReconcile(i)
    BY <1>7
  <2>0. PICK prior, returned :
          /\ prior = work.unresolved
          /\ returned = work.unresolved + ReturnedMass(work.hyps[i])
    OBVIOUS
  <2>2. /\ work'.unresolved = returned /\ belief' = belief
        /\ phase = "retire" /\ phase' = "retire"
        /\ audits' = Append(audits, [prior |-> prior,
                                     posterior |-> returned])
    BY <1>1, <2>0, <2>1 DEF RetireAndReconcile, TypeOK, Frame
  <2>3. prior \in Nat /\ returned \in Nat
    <3>1. work.hyps[i] \in Hypothesis /\ work.unresolved \in Nat
      BY <1>1, WorkType
    <3>2. work.hyps[i].posterior \in Nat
      BY <3>1 DEF Hypothesis
    <3> QED
      BY <2>0, <3>1, <3>2 DEF ReturnedMass
  <2>4. Chained' /\ Onward(returned)'
    BY <1>1, <1>2, <2>0, <2>2, <2>3, AppendsOnward
  <2> QED
    BY <2>2, <2>4 DEF AuditInv, Onward
<1>8. CASE Assess
  <2>1. work'.unresolved = work.unresolved /\ phase = "assess"
        /\ phase' = "expand" /\ UNCHANGED <<belief, audits>>
    BY <1>1, <1>8 DEF Assess, TypeOK, Frame
  <2> QED
    BY <1>2, <2>1 DEF AuditInv, Chained, Onward, NearestUnit
<1>9. CASE SkipExpansion
  <2>1. work'.unresolved = work.unresolved /\ phase = "expand"
        /\ phase' = "commit" /\ UNCHANGED <<belief, audits>>
    BY <1>1, <1>9 DEF SkipExpansion, TypeOK, Frame
  <2> QED
    BY <1>2, <2>1 DEF AuditInv, Chained, Onward, NearestUnit
<1>10. CASE \E n \in 1 .. MaxProposals : Expand(n)
  <2>1. PICK n \in 1 .. MaxProposals : Expand(n)
    BY <1>10
  <2>0. PICK prior, left :
          /\ prior = work.unresolved
          /\ left = work.unresolved - Transfer(work.unresolved)
    OBVIOUS
  <2>2. /\ work'.unresolved = left /\ belief' = belief
        /\ phase = "expand" /\ phase' = "commit"
        /\ audits' = Append(audits, [prior |-> prior, posterior |-> left])
    <3>1. Exclusive
      BY DEF ExclusiveOpen
    <3> QED
      BY <1>1, <2>0, <2>1, <3>1 DEF Expand, ExpandedBy, TypeOK, Frame
  <2>3. prior \in Nat /\ left \in Nat
    BY <1>1, <2>0, WorkType, TransferLeavesReserve
  <2>4. Chained' /\ Onward(left)'
    BY <1>1, <1>2, <2>0, <2>2, <2>3, AppendsOnward
  <2> QED
    BY <2>2, <2>4 DEF AuditInv, Onward
<1>11. CASE Commit \/ CommitRefused \/ ExpansionFails
  BY <1>11 DEF Commit, CommitRefused, ExpansionFails
<1>12. CASE \/ EvolveNothing \/ EvolveIndependent
            \/ EvolveExclusive \/ EvolveToNothing
  BY <1>1, <1>12 DEF EvolveNothing, EvolveIndependent, EvolveExclusive,
                     EvolveToNothing
<1>13. CASE UNCHANGED vars
  <2>1. UNCHANGED <<belief, work, audits, phase>>
    BY <1>13 DEF vars
  <2> QED
    BY <2>1 DEF AuditInv, Chained, Onward, NearestUnit, ExclusiveOpen,
                Exclusive
<1> QED
  BY <1>3, <1>4, <1>5, <1>6, <1>7, <1>8, <1>9, <1>10, <1>11, <1>12, <1>13
     DEF Next, Done

(* The FrameMassUpdates of a cycle account for the unresolved mass without *)
(* a gap, from the committed state before it to the state committed: each  *)
(* starts where the one before ended, across events, retirements and an    *)
(* expansion (_unresolved_mass_update, reconcile_retirements, expand).     *)
THEOREM UnresolvedMassAudited == Spec => []UnresolvedAudited
<1>1. Init => AuditInv
  BY InitAudit
<1>2. IInv /\ AuditInv /\ [Next]_vars => AuditInv'
  BY NextAudit
<1>3. AuditInv => UnresolvedAudited
  BY DEF AuditInv, Chained, Onward, UnresolvedAudited
<1> QED
  BY <1>1, <1>2, <1>3, Invariance, PTL DEF Spec

-----------------------------------------------------------------------------
(* Named mass.                                                             *)

LEMMA MassType ==
  ASSUME NEW hs \in Seq(Hypothesis), NEW S, S \subseteq 1 .. Len(hs)
  PROVE  /\ IsFiniteSet(S)
         /\ NamedMass(hs, S) \in Nat
         /\ \A i \in S : /\ hs[i].posterior \in Nat
                         /\ hs[i].posterior <= NamedMass(hs, S)
<1> DEFINE f == [i \in DOMAIN hs |-> hs[i].posterior]
<1>1. Len(hs) \in Nat /\ DOMAIN hs = 1 .. Len(hs)
  BY LenProperties
<1>2. \A i \in 1 .. Len(hs) : hs[i] \in Hypothesis
  BY ElementOfSeq
<1>3. IsFiniteSet(S)
  <2>1. IsFiniteSet(1 .. Len(hs))
    BY <1>1, FS_Interval
  <2> QED
    BY <2>1, FS_Subset
<1>4. \A i \in S : f[i] \in Nat /\ f[i] = hs[i].posterior
  BY <1>1, <1>2 DEF Hypothesis
<1>5. NamedMass(hs, S) = SumFunctionOnSet(f, S)
  BY DEF NamedMass
<1> HIDE DEF f
<1> QED
  BY <1>3, <1>4, <1>5, SumNat, SumBounds

LEMMA MassAgrees ==
  ASSUME NEW hs \in Seq(Hypothesis), NEW new \in Seq(Hypothesis), NEW S,
         S \subseteq 1 .. Len(hs), S \subseteq 1 .. Len(new),
         \A i \in S : new[i].posterior = hs[i].posterior
  PROVE  NamedMass(new, S) = NamedMass(hs, S)
<1> DEFINE f == [i \in DOMAIN hs |-> hs[i].posterior]
           g == [i \in DOMAIN new |-> new[i].posterior]
<1>1. DOMAIN hs = 1 .. Len(hs) /\ DOMAIN new = 1 .. Len(new)
  BY LenProperties
<1>2. IsFiniteSet(S) /\ \A i \in S : hs[i].posterior \in Nat
  BY MassType
<1>3. \A i \in S : f[i] \in Int /\ f[i] = g[i]
  BY <1>1, <1>2
<1>4. NamedMass(hs, S) = SumFunctionOnSet(f, S)
      /\ NamedMass(new, S) = SumFunctionOnSet(g, S)
  BY DEF NamedMass
<1> HIDE DEF f, g
<1>5. SumFunctionOnSet(f, S) = SumFunctionOnSet(g, S)
  BY <1>2, <1>3, SumAgrees
<1> QED
  BY <1>4, <1>5

LEMMA MassOfUnion ==
  ASSUME NEW hs \in Seq(Hypothesis), NEW S, NEW T,
         S \subseteq 1 .. Len(hs), T \subseteq 1 .. Len(hs), S \cap T = {}
  PROVE  NamedMass(hs, S \cup T) = NamedMass(hs, S) + NamedMass(hs, T)
<1> DEFINE f == [i \in DOMAIN hs |-> hs[i].posterior]
<1>1. DOMAIN hs = 1 .. Len(hs)
  BY LenProperties
<1>2. /\ IsFiniteSet(S) /\ IsFiniteSet(T)
      /\ \A i \in S \cup T : hs[i].posterior \in Nat
  BY MassType
<1>3. \A i \in S \cup T : f[i] \in Int
  BY <1>1, <1>2
<1>4. /\ NamedMass(hs, S) = SumFunctionOnSet(f, S)
      /\ NamedMass(hs, T) = SumFunctionOnSet(f, T)
      /\ NamedMass(hs, S \cup T) = SumFunctionOnSet(f, S \cup T)
  BY DEF NamedMass
<1> HIDE DEF f
<1>5. SumFunctionOnSet(f, S \cup T)
        = SumFunctionOnSet(f, S) + SumFunctionOnSet(f, T)
  BY <1>2, <1>3, SumUnion
<1> QED
  BY <1>4, <1>5

LEMMA MassWithout ==
  ASSUME NEW hs \in Seq(Hypothesis), NEW S, S \subseteq 1 .. Len(hs),
         NEW i \in S
  PROVE  NamedMass(hs, S) = hs[i].posterior + NamedMass(hs, S \ {i})
<1> DEFINE f == [j \in DOMAIN hs |-> hs[j].posterior]
<1>1. DOMAIN hs = 1 .. Len(hs)
  BY LenProperties
<1>2. IsFiniteSet(S) /\ \A j \in S : hs[j].posterior \in Nat
  BY MassType
<1>3. \A j \in S : f[j] \in Int /\ f[j] = hs[j].posterior
  BY <1>1, <1>2
<1>4. /\ NamedMass(hs, S) = SumFunctionOnSet(f, S)
      /\ NamedMass(hs, S \ {i}) = SumFunctionOnSet(f, S \ {i})
  BY DEF NamedMass
<1> HIDE DEF f
<1>5. SumFunctionOnSet(f, S) = f[i] + SumFunctionOnSet(f, S \ {i})
  BY <1>2, <1>3, SumRemove
<1> QED
  BY <1>3, <1>4, <1>5

(* Several hypotheses of the same posterior.                               *)
LEMMA MassOfEqual ==
  ASSUME NEW hs \in Seq(Hypothesis), NEW S, S \subseteq 1 .. Len(hs),
         NEW p \in Nat, \A i \in S : hs[i].posterior = p
  PROVE  NamedMass(hs, S) = p * Cardinality(S)
<1> DEFINE f == [j \in DOMAIN hs |-> hs[j].posterior]
<1>1. DOMAIN hs = 1 .. Len(hs)
  BY LenProperties
<1>2. IsFiniteSet(S)
  BY MassType
<1>3. p \in Int /\ \A j \in S : f[j] = p
  <2>1. \A j \in S : f[j] = p
    BY <1>1
  <2>2. p \in Int
    OBVIOUS
  <2> QED
    BY <2>1, <2>2
<1>4. NamedMass(hs, S) = SumFunctionOnSet(f, S)
  BY DEF NamedMass
<1> HIDE DEF f
<1>5. SumFunctionOnSet(f, S) = p * Cardinality(S)
  BY <1>2, <1>3, SumConstant
<1> QED
  BY <1>4, <1>5

(* The participants are positions of the list.                             *)
LEMMA ParticipantsIn ==
  ASSUME NEW hs \in Seq(Hypothesis)
  PROVE  /\ Participants(hs) \subseteq 1 .. Len(hs)
         /\ IsFiniteSet(Participants(hs))
         /\ UnresolvedSlot \notin Participants(hs)
  BY MassType DEF Participants, UnresolvedSlot

-----------------------------------------------------------------------------
(* A settled distribution sums to one, and none of its shares exceeds one. *)
LEMMA SettledTotal ==
  ASSUME NEW weights, NEW anchor, IsFiniteSet(DOMAIN weights),
         \A s \in DOMAIN weights : weights[s] \in Nat,
         WeightOf(weights) \in Nat \ {0},
         anchor \in Anchors(RoundedSlots(weights),
                            Residual(RoundedSlots(weights))),
         Shares(Settle(RoundedSlots(weights),
                       Residual(RoundedSlots(weights)), anchor))
  PROVE  LET settled == InGrains(Settle(RoundedSlots(weights),
                                  Residual(RoundedSlots(weights)), anchor)) IN
         /\ SumFunctionOnSet(settled, DOMAIN weights) = Total
         /\ \A s \in DOMAIN weights : Whole(settled[s]) /\ settled[s] <= Total
<1> DEFINE D == DOMAIN weights
           rounded == RoundedSlots(weights)
           residual == Residual(rounded)
           units == Settle(rounded, residual, anchor)
           settled == InGrains(units)
<1>1. DOMAIN rounded = D /\ DOMAIN units = D /\ DOMAIN settled = D
  BY DEF RoundedSlots, Settle, InGrains
<1>2. \A s \in D : rounded[s] \in Nat
  <2> TAKE s \in D
  <2>1. RoundUnits(weights[s], WeightOf(weights)) \in Nat
    BY RoundUnitsBounds
  <2>2. MinimumUnits(s) \in Nat
    BY BeliefAssumption DEF MinimumUnits
  <2> QED
    BY <2>1, <2>2 DEF RoundedSlots
<1>3. \A s \in D : units[s] \in Nat /\ settled[s] = Grain * units[s]
  BY <1>1 DEF Shares, InGrains
<1>4. anchor \in D /\ units[anchor] = rounded[anchor] + residual
      /\ \A s \in D \ {anchor} : units[s] = rounded[s]
  BY <1>1 DEF Anchors, Settle
<1>5. residual = Units - SumFunctionOnSet(rounded, D)
  BY <1>1 DEF Residual, SumFunction
<1> HIDE DEF D, rounded, residual, units, settled
<1>6. IsFiniteSet(D) /\ IsFiniteSet(D \ {anchor})
  BY FS_Subset DEF D
<1>7. SumFunctionOnSet(units, D) = Units
  <2>1. SumFunctionOnSet(units, D)
          = units[anchor] + SumFunctionOnSet(units, D \ {anchor})
    BY <1>3, <1>4, <1>6, SumRemove
  <2>2. SumFunctionOnSet(rounded, D)
          = rounded[anchor] + SumFunctionOnSet(rounded, D \ {anchor})
    BY <1>2, <1>4, <1>6, SumRemove
  <2>3. SumFunctionOnSet(units, D \ {anchor})
          = SumFunctionOnSet(rounded, D \ {anchor})
    BY <1>3, <1>4, <1>6, SumAgrees
  <2>4. SumFunctionOnSet(rounded, D \ {anchor}) \in Int
        /\ rounded[anchor] \in Nat /\ Units \in Nat
    BY <1>2, <1>4, <1>6, SumInt, BeliefAssumption
  <2> QED
    BY <1>4, <1>5, <2>1, <2>2, <2>3, <2>4
<1>8. Grain \in Nat /\ Units \in Nat
  BY BeliefAssumption
<1>9. SumFunctionOnSet(settled, D) = Grain * SumFunctionOnSet(units, D)
  BY <1>3, <1>6, <1>8, SumScales
<1>10. SumFunctionOnSet(settled, D) = Total
  BY <1>7, <1>8, <1>9 DEF Total
<1>11. \A s \in D : settled[s] \in Nat
  BY <1>3, <1>8
<1>12. \A s \in D : settled[s] <= Total
  BY <1>6, <1>10, <1>11, SumBounds
<1>13. \A s \in D : Whole(settled[s])
  <2> TAKE s \in D
  <2>1. units[s] \in Nat /\ settled[s] = units[s] * Grain
    BY <1>3, <1>8
  <2> QED
    BY <2>1 DEF Whole, Multiple
<1> QED
  BY <1>10, <1>12, <1>13 DEF D, rounded, residual, units, settled

(* Scores become weights that do not all vanish.                           *)
LEMMA WeightsPositive ==
  ASSUME NEW scores, IsFiniteSet(DOMAIN scores), DOMAIN scores # {},
         \A s \in DOMAIN scores : scores[s] \in Nat
  PROVE  /\ DOMAIN Weights(scores) = DOMAIN scores
         /\ \A s \in DOMAIN scores : Weights(scores)[s] \in Nat
         /\ WeightOf(Weights(scores)) \in Nat \ {0}
<1> DEFINE D == DOMAIN scores
<1>1. WeightOf(scores) = SumFunctionOnSet(scores, D)
  BY DEF WeightOf, SumFunction
<1>2. WeightOf(scores) \in Nat
  BY <1>1, SumNat
<1>3. CASE WeightOf(scores) # 0
  BY <1>2, <1>3 DEF Weights
<1>4. CASE WeightOf(scores) = 0
  <2> DEFINE one == [s \in D |-> 1]
  <2>1. Weights(scores) = one
    BY <1>4 DEF Weights
  <2>2. DOMAIN one = D /\ \A s \in D : one[s] = 1
    OBVIOUS
  <2> HIDE DEF one
  <2>3. SumFunctionOnSet(one, D) = 1 * Cardinality(D)
    BY <2>2, SumConstant
  <2>4. Cardinality(D) \in Nat /\ Cardinality(D) # 0
    BY FS_CardinalityType, FS_EmptySet
  <2>5. WeightOf(one) \in Nat \ {0}
    BY <2>2, <2>3, <2>4 DEF WeightOf, SumFunction
  <2> QED
    BY <2>1, <2>2, <2>5
<1> QED
  BY <1>3, <1>4

(* Lifting the unresolved share to the reserve keeps that.                 *)
LEMMA PreservedPositive ==
  ASSUME NEW weights, IsFiniteSet(DOMAIN weights),
         \A s \in DOMAIN weights : weights[s] \in Nat,
         WeightOf(weights) \in Nat \ {0},
         UnresolvedSlot \in DOMAIN weights
  PROVE  LET lifted == PreserveUnresolvedReserve(weights) IN
         /\ DOMAIN lifted = DOMAIN weights
         /\ \A s \in DOMAIN weights : lifted[s] \in Nat
         /\ WeightOf(lifted) \in Nat \ {0}
<1> DEFINE D == DOMAIN weights
           w0 == weights[UnresolvedSlot]
           total == WeightOf(weights)
           named == total - w0
           lifted == PreserveUnresolvedReserve(weights)
<1>1. CASE w0 * Total >= Reserve * total
  BY <1>1 DEF PreserveUnresolvedReserve
<1>2. CASE ~(w0 * Total >= Reserve * total)
  <2>1. lifted = [s \in D |-> IF s = UnresolvedSlot THEN Reserve * named
                              ELSE weights[s] * (Total - Reserve)]
    BY <1>2 DEF PreserveUnresolvedReserve
  <2>2. total = SumFunctionOnSet(weights, D)
    BY DEF WeightOf, SumFunction
  <2>3. w0 \in Nat /\ total \in Nat /\ w0 <= total
    BY <2>2, SumBounds
  <2>4. Reserve \in Nat /\ Total \in Nat /\ Reserve <= Total
    BY Amounts, BeliefAssumption
  <2>5. named \in Nat /\ named # 0
    <3>1. CASE w0 = total
      <4>1. total * Reserve <= Total * total
        BY <2>3, <2>4, ProductMonotone
      <4>2. Reserve * total <= w0 * Total
        BY <2>3, <2>4, <3>1, <4>1
      <4> QED
        BY <1>2, <2>3, <2>4, <4>2
    <3> QED
      BY <2>3, <3>1
  <2>6. Reserve # 0
    <3>1. CASE Reserve = 0
      <4>1. Reserve * total = 0 /\ w0 * Total \in Nat
        BY <2>3, <2>4, <3>1
      <4> QED
        BY <1>2, <4>1
    <3> QED
      BY <3>1
  <2> HIDE DEF named
  <2>7. Reserve * named \in Nat /\ Reserve * named # 0
    BY <2>4, <2>5, <2>6
  <2>8. \A s \in D : weights[s] * (Total - Reserve) \in Nat
    BY <2>4
  <2>9. DOMAIN lifted = D /\ \A s \in D : lifted[s] \in Nat
    BY <2>1, <2>7, <2>8
  <2>10. lifted[UnresolvedSlot] # 0
    BY <2>1, <2>7
  <2> HIDE DEF lifted
  <2>11. /\ SumFunctionOnSet(lifted, D) \in Nat
         /\ lifted[UnresolvedSlot] <= SumFunctionOnSet(lifted, D)
    BY <2>9, SumNat, SumBounds
  <2>12. lifted[UnresolvedSlot] \in Nat
    BY <2>9
  <2>13. WeightOf(lifted) \in Nat \ {0}
    BY <2>9, <2>10, <2>11, <2>12 DEF WeightOf, SumFunction
  <2> QED
    BY <2>9, <2>13 DEF lifted
<1> QED
  BY <1>1, <1>2

-----------------------------------------------------------------------------
(* Multiples of the step a revision halves.                                *)

LEMMA Steps ==
  /\ Step[0] = Grain
  /\ \A r \in 0 .. MaxRevisions : Step[r] \in Nat \ {0}
  /\ \A r \in 1 .. MaxRevisions :
       /\ Step[r - 1] = 2 * Step[r]
       /\ \A n \in 1 .. MaxProposals : Step[r] % n = 0
<1>1. Step \in [0 .. MaxRevisions -> 1 .. Grain] /\ Halves(Step)
  BY GrainAssumption DEF Step
<1> HIDE DEF Step
<1>2. \A r \in 0 .. MaxRevisions : Step[r] \in 1 .. Grain
  BY <1>1
<1>3. Grain \in Nat
  BY BeliefAssumption
<1> QED
  BY <1>1, <1>2, <1>3 DEF Halves

LEMMA MultipleType ==
  ASSUME NEW d \in Nat, NEW m, Multiple(m, d) PROVE m \in Nat
  BY DEF Multiple

LEMMA MultipleAdds ==
  ASSUME NEW d \in Nat, NEW a, NEW b, Multiple(a, d), Multiple(b, d)
  PROVE  Multiple(a + b, d)
<1>1. PICK j \in Nat : a = j * d
  BY DEF Multiple
<1>2. PICK k \in Nat : b = k * d
  BY DEF Multiple
<1>3. j + k \in Nat /\ a + b = (j + k) * d
  BY <1>1, <1>2
<1> QED
  BY <1>3 DEF Multiple

LEMMA MultipleSubtracts ==
  ASSUME NEW d \in Nat \ {0}, NEW a, NEW b, Multiple(a, d), Multiple(b, d),
         b <= a
  PROVE  Multiple(a - b, d)
<1>1. PICK j \in Nat : a = j * d
  BY DEF Multiple
<1>2. PICK k \in Nat : b = k * d
  BY DEF Multiple
<1>3. k <= j
  <2> SUFFICES ASSUME k > j PROVE FALSE
    BY <1>1, <1>2
  <2> DEFINE e == k - j
  <2>1. e \in Nat /\ e >= 1 /\ k = j + e
    OBVIOUS
  <2> HIDE DEF e
  <2>2. k * d = j * d + e * d
    BY <2>1
  <2>3. 1 * d <= d * e
    BY <2>1, ProductMonotone
  <2>4. e * d > 0
    BY <2>1, <2>3
  <2> QED
    BY <1>1, <1>2, <2>1, <2>2, <2>4
<1>4. j - k \in Nat /\ a - b = (j - k) * d
  BY <1>1, <1>2, <1>3
<1> QED
  BY <1>4 DEF Multiple

LEMMA MultipleOfMultiple ==
  ASSUME NEW d \in Nat, NEW c \in Nat, NEW m, Multiple(m, c), Multiple(c, d)
  PROVE  Multiple(m, d)
<1>1. PICK j \in Nat : m = j * c
  BY DEF Multiple
<1>2. PICK k \in Nat : c = k * d
  BY DEF Multiple
<1>3. j * k \in Nat /\ m = (j * k) * d
  BY <1>1, <1>2
<1> QED
  BY <1>3 DEF Multiple

(* A unit is a multiple of every step, by as many halvings.                *)
LEMMA UnitIsFine ==
  ASSUME NEW r \in 0 .. MaxRevisions PROVE Multiple(Grain, Step[r])
<1> DEFINE T == {n \in Nat : n <= MaxRevisions => Multiple(Grain, Step[n])}
<1>1. Grain \in Nat /\ MaxRevisions \in Nat
  BY BeliefAssumption
<1>2. 0 \in T
  <2>1. Grain = 1 * Step[0]
    BY <1>1, Steps
  <2> QED
    BY <2>1 DEF Multiple
<1>3. ASSUME NEW n \in Nat, n \in T PROVE n + 1 \in T
  <2> SUFFICES ASSUME n + 1 <= MaxRevisions PROVE Multiple(Grain, Step[n + 1])
    OBVIOUS
  <2>1. n + 1 \in 1 .. MaxRevisions /\ (n + 1) - 1 = n
        /\ n + 1 \in 0 .. MaxRevisions
    BY <1>1
  <2>2. Step[n] = 2 * Step[n + 1] /\ Step[n + 1] \in Nat
    BY <2>1, Steps
  <2>3. Multiple(Step[n], Step[n + 1])
    BY <2>2 DEF Multiple
  <2>4. Multiple(Grain, Step[n])
    BY <1>1, <1>3
  <2> QED
    BY <2>2, <2>3, <2>4, MultipleOfMultiple
<1> HIDE DEF T
<1>4. r \in T
  BY <1>1, <1>2, <1>3, NatSetInduction
<1> QED
  BY <1>1, <1>4 DEF T

LEMMA WholeIsFine ==
  ASSUME NEW r \in 0 .. MaxRevisions, NEW m, Whole(m)
  PROVE  Multiple(m, Step[r])
<1>1. Step[r] \in Nat /\ Grain \in Nat
  BY Steps, BeliefAssumption
<1> QED
  BY <1>1, UnitIsFine, MultipleOfMultiple DEF Whole

(* What an expansion takes is a multiple of the next step, and so is what  *)
(* it leaves.                                                              *)
LEMMA TransferIsFine ==
  ASSUME NEW r \in 0 .. MaxRevisions, r < MaxRevisions, NEW m,
         Multiple(m, Step[r]), m >= Reserve
  PROVE  /\ Multiple(Transfer(m), Step[r + 1])
         /\ Multiple(m - Transfer(m), Step[r + 1])
<1> DEFINE d == Step[r + 1]
<1>1. r + 1 \in 1 .. MaxRevisions /\ (r + 1) - 1 = r
      /\ r + 1 \in 0 .. MaxRevisions
  BY BeliefAssumption
<1>2. d \in Nat \ {0} /\ Step[r] = 2 * d
  BY <1>1, Steps
<1> HIDE DEF d
<1>3. PICK k \in Nat : m = k * (2 * d)
  BY <1>2 DEF Multiple
<1>4. m = (k * d) * 2 /\ k * d \in Nat /\ m \in Nat
  BY <1>2, <1>3
<1>5. m \div 2 = k * d
  BY <1>4
<1>6. Multiple(m \div 2, d)
  BY <1>5 DEF Multiple
<1>7. Multiple(m, d)
  <2>1. 2 * k \in Nat /\ m = (2 * k) * d
    BY <1>2, <1>3
  <2> QED
    BY <2>1 DEF Multiple
<1>8. Multiple(Reserve, d)
  <2>1. Whole(Reserve)
    BY BeliefAssumption DEF Whole, Multiple, Reserve
  <2> QED
    BY <1>1, <2>1, WholeIsFine DEF d
<1>9. Multiple(m - Reserve, d)
  BY <1>2, <1>7, <1>8, MultipleSubtracts
<1>10. Transfer(m) = IF m \div 2 <= m - Reserve THEN m \div 2 ELSE m - Reserve
  BY DEF Transfer, MinOf
<1>11. Multiple(Transfer(m), d)
  BY <1>6, <1>9, <1>10
<1>12. Transfer(m) \in Nat /\ m - Transfer(m) \in Nat
  BY <1>4, TransferLeavesReserve
<1>13. Multiple(m - Transfer(m), d)
  BY <1>2, <1>4, <1>7, <1>11, <1>12, MultipleSubtracts
<1> QED
  BY <1>11, <1>13 DEF d

(* It can be shared out among the proposals without a rest.                *)
LEMMA TransferDivides ==
  ASSUME NEW r \in 1 .. MaxRevisions, NEW m, Multiple(m, Step[r]),
         NEW n \in 1 .. MaxProposals
  PROVE  (m \div n) * n = m
<1>1. n \in Nat \ {0} /\ r \in 0 .. MaxRevisions
  BY BeliefAssumption
<1>2. Step[r] \in Nat /\ Step[r] % n = 0
  BY <1>1, Steps
<1> DEFINE q == Step[r] \div n
<1>3. q \in Nat /\ Step[r] = q * n
  BY <1>1, <1>2
<1> HIDE DEF q
<1>4. PICK k \in Nat : m = k * Step[r]
  BY DEF Multiple
<1>5. k * q \in Nat /\ m = (k * q) * n
  BY <1>1, <1>3, <1>4
<1>6. m \div n = k * q
  BY <1>1, <1>5, DivisionExact
<1> QED
  BY <1>5, <1>6

-----------------------------------------------------------------------------
(* The events.                                                             *)

(* Posteriors that settle on all of some hypotheses give them their sum.   *)
LEMMA MassOfSettled ==
  ASSUME NEW hs \in Seq(Hypothesis), NEW settled,
         \A s \in DOMAIN settled : settled[s] \in Nat,
         Participants(hs) \subseteq DOMAIN settled
  PROVE  LET new == WithPosteriors(hs, settled) IN
         /\ Participants(new) = Participants(hs)
         /\ NamedMass(new, Participants(hs))
              = SumFunctionOnSet(settled, Participants(hs))
<1> DEFINE new == WithPosteriors(hs, settled)
           P == Participants(hs)
           f == [i \in DOMAIN new |-> new[i].posterior]
<1>1. /\ new \in Seq(Hypothesis) /\ Len(new) = Len(hs)
      /\ \A i \in 1 .. Len(hs) :
           /\ new[i].status = hs[i].status
           /\ i \in DOMAIN settled => new[i].posterior = settled[i]
  BY WithPosteriorsKeeps
<1>2. P \subseteq 1 .. Len(hs) /\ IsFiniteSet(P)
  BY ParticipantsIn
<1> HIDE DEF new
<1>3. Participants(new) = P
  BY <1>1 DEF Participants, Participates
<1>4. DOMAIN new = 1 .. Len(hs)
  BY <1>1, LenProperties
<1>5. \A i \in P : settled[i] \in Int /\ settled[i] = f[i]
  BY <1>1, <1>2, <1>4
<1>6. NamedMass(new, P) = SumFunctionOnSet(f, P)
  BY DEF NamedMass
<1> HIDE DEF f, P
<1>7. SumFunctionOnSet(settled, P) = SumFunctionOnSet(f, P)
  BY <1>2, <1>5, SumAgrees
<1> QED
  BY <1>3, <1>6, <1>7 DEF new, P

LEMMA BandsType ==
  /\ \A b \in Bands : LikelihoodRatio[b] \in Nat \ {0}
  /\ \A e \in Events, i \in Nat : BandOf(e, i) \in Bands
<1>1. \A b \in Bands : LikelihoodRatio[b] \in Nat \ {0}
  BY DEF Bands, LikelihoodRatio
<1>2. ASSUME NEW e \in Events, NEW i \in Nat PROVE BandOf(e, i) \in Bands
  <2>1. e \in Event
    BY BeliefAssumption
  <2>2. e.likelihoods \in UNION {[S -> Bands] : S \in SUBSET (1 .. MaxTargets)}
    BY <2>1 DEF Event
  <2>3. PICK S \in SUBSET (1 .. MaxTargets) : e.likelihoods \in [S -> Bands]
    BY <2>2
  <2>4. CASE i \in DOMAIN e.likelihoods
    BY <2>3, <2>4 DEF BandOf
  <2>5. CASE i \notin DOMAIN e.likelihoods
    BY <2>5 DEF BandOf, Bands
  <2> QED
    BY <2>4, <2>5
<1> QED
  BY <1>1, <1>2

LEMMA ScoredPositive ==
  ASSUME TypeOK, next \in DOMAIN queue, Participants(work.hyps) # {},
         ExclusiveOpen => queue[next].unresolved \in Bands
  PROVE  /\ IsFiniteSet(DOMAIN ScoredWeights)
         /\ \A s \in DOMAIN ScoredWeights : ScoredWeights[s] \in Nat
         /\ WeightOf(ScoredWeights) \in Nat \ {0}
<1> DEFINE e == queue[next]
           P == Participants(work.hyps)
           scores == Scores(work, e)
<1>1. e \in Events /\ work.hyps \in Seq(Hypothesis) /\ work.unresolved \in Nat
      /\ \A i \in 1 .. Len(work.hyps) : work.hyps[i] \in Hypothesis
      /\ Len(work.hyps) \in Nat
  BY WorkType
<1>2. P \subseteq 1 .. Len(work.hyps) /\ IsFiniteSet(P) /\ UnresolvedSlot \notin P
  BY <1>1, ParticipantsIn
<1>3. DOMAIN scores = IF ExclusiveOpen THEN P \cup {UnresolvedSlot} ELSE P
  BY DEF Scores
<1>4. IsFiniteSet(DOMAIN scores)
  BY <1>2, <1>3, FS_AddElement
<1>5. DOMAIN scores # {}
  BY <1>3
<1>6. \A s \in P : scores[s] \in Nat
  <2> TAKE s \in P
  <2>1. scores[s] = work.hyps[s].posterior * LikelihoodRatio[BandOf(e, s)]
    BY <1>2, <1>3 DEF Scores
  <2>2. work.hyps[s].posterior \in Nat /\ s \in Nat
    BY <1>1, <1>2 DEF Hypothesis
  <2>3. LikelihoodRatio[BandOf(e, s)] \in Nat
    BY <1>1, <2>2, BandsType
  <2> HIDE DEF scores, e
  <2> QED
    BY <2>1, <2>2, <2>3
<1>7. ExclusiveOpen => scores[UnresolvedSlot] \in Nat
  <2> SUFFICES ASSUME ExclusiveOpen PROVE scores[UnresolvedSlot] \in Nat
    OBVIOUS
  <2>1. scores[UnresolvedSlot] = work.unresolved * LikelihoodRatio[e.unresolved]
    BY <1>3 DEF Scores
  <2>2. LikelihoodRatio[e.unresolved] \in Nat
    BY BandsType
  <2> HIDE DEF scores, e
  <2> QED
    BY <1>1, <2>1, <2>2
<1>8. \A s \in DOMAIN scores : scores[s] \in Nat
  BY <1>3, <1>6, <1>7
<1> DEFINE weights == Weights(scores)
<1>9. ScoredWeights = IF ExclusiveOpen THEN PreserveUnresolvedReserve(weights)
                      ELSE weights
  BY DEF ScoredWeights
<1> HIDE DEF scores
<1>10. /\ DOMAIN weights = DOMAIN scores
       /\ \A s \in DOMAIN weights : weights[s] \in Nat
       /\ WeightOf(weights) \in Nat \ {0}
  BY <1>4, <1>5, <1>8, WeightsPositive
<1> HIDE DEF weights
<1>11. CASE ExclusiveOpen
  <2>1. UnresolvedSlot \in DOMAIN weights
    BY <1>3, <1>10, <1>11
  <2>2. IsFiniteSet(DOMAIN weights)
    BY <1>4, <1>10
  <2> DEFINE lifted == PreserveUnresolvedReserve(weights)
  <2>3. /\ DOMAIN lifted = DOMAIN weights
        /\ \A s \in DOMAIN weights : lifted[s] \in Nat
        /\ WeightOf(lifted) \in Nat \ {0}
    BY <1>10, <2>1, <2>2, PreservedPositive
  <2>4. ScoredWeights = lifted
    BY <1>9, <1>11
  <2> QED
    BY <2>2, <2>3, <2>4
<1>12. CASE ~ExclusiveOpen
  BY <1>4, <1>9, <1>10, <1>12
<1> QED
  BY <1>11, <1>12

(* What holds of the copies under the primed name of them.                 *)
LEMMA SoundPrimed ==
  ASSUME UNCHANGED setup
  PROVE  /\ Sound(work') => Sound(work)'
         /\ Sound(belief') => Sound(belief)'
  BY DEF Sound, Balanced, Emptied, ExclusiveOpen, Exclusive

(* An event of an exclusive frame: the shares settle on a sum of one.      *)
LEMMA SolveExclusiveSound ==
  ASSUME IInv, Sound(work), SolveExclusive,
         ExclusiveOpen => \A k \in DOMAIN queue : queue[k].unresolved \in Bands
  PROVE  /\ Sound(work')
         /\ \A i \in Participants(work'.hyps) : Whole(work'.hyps[i].posterior)
         /\ Participants(work'.hyps) = Participants(work.hyps)
         /\ work'.active = work.active
<1>1. TypeOK /\ CanSolve /\ Exclusive /\ Participants(work.hyps) # {}
  BY DEF IInv, SolveExclusive
<1>2. next \in DOMAIN queue
  <2>1. next \in Nat \ {0} /\ Len(queue) \in Nat /\ DOMAIN queue = 1 .. Len(queue)
    BY <1>1, WorkType DEF TypeOK
  <2> QED
    BY <1>1, <2>1 DEF CanSolve
<1> DEFINE weights == ScoredWeights
           rounded == RoundedSlots(weights)
           residual == Residual(rounded)
           P == Participants(work.hyps)
<1>3. PICK anchor \in DOMAIN rounded :
        /\ anchor \in Anchors(rounded, residual)
        /\ Shares(Settle(rounded, residual, anchor))
        /\ SolvedTo(InGrains(Settle(rounded, residual, anchor)))
  BY DEF SolveExclusive, IsAnchor
<1> DEFINE settled == InGrains(Settle(rounded, residual, anchor))
           hs == WithPosteriors(work.hyps, settled)
           un == IF ExclusiveOpen THEN settled[UnresolvedSlot]
                 ELSE work.unresolved
<1>4. /\ IsFiniteSet(DOMAIN weights)
      /\ \A s \in DOMAIN weights : weights[s] \in Nat
      /\ WeightOf(weights) \in Nat \ {0}
  BY <1>1, <1>2, ScoredPositive
<1>5. DOMAIN weights = IF ExclusiveOpen THEN P \cup {UnresolvedSlot} ELSE P
  BY ScoredSlots
<1> HIDE DEF weights
<1>6. /\ DOMAIN settled = DOMAIN weights
      /\ \A s \in DOMAIN settled : settled[s] \in Nat
  BY <1>3, SettledShares
<1>7. /\ SumFunctionOnSet(settled, DOMAIN weights) = Total
      /\ \A s \in DOMAIN weights : Whole(settled[s]) /\ settled[s] <= Total
  BY <1>3, <1>4, SettledTotal
<1>8. work' = [work EXCEPT !.hyps = hs, !.unresolved = un]
  BY <1>3 DEF SolvedTo
<1> HIDE DEF settled, rounded, residual
<1>9. /\ work'.hyps = hs /\ work'.unresolved = un
      /\ work'.revisions = work.revisions /\ work'.active = work.active
  BY <1>1, <1>8 DEF TypeOK, Frame
<1>10. work.hyps \in Seq(Hypothesis) /\ work.unresolved \in Nat
       /\ Len(work.hyps) \in Nat
  BY <1>1, WorkType
<1>11. /\ P \subseteq 1 .. Len(work.hyps) /\ IsFiniteSet(P)
       /\ UnresolvedSlot \notin P
  BY <1>10, ParticipantsIn
<1>12. Participants(hs) = P /\ NamedMass(hs, P) = SumFunctionOnSet(settled, P)
  BY <1>5, <1>6, <1>10, MassOfSettled
<1>13. /\ Len(hs) = Len(work.hyps)
       /\ \A i \in 1 .. Len(work.hyps) :
            /\ i \in DOMAIN settled => hs[i].posterior = settled[i]
            /\ i \notin DOMAIN settled => hs[i] = work.hyps[i]
  BY <1>6, <1>10, WithPosteriorsKeeps
<1> HIDE DEF hs, un
<1>14. \A i \in 1 .. Len(hs) : hs[i].posterior <= Total
  BY <1>6, <1>7, <1>13 DEF Sound
<1>15. NamedMass(hs, P) + un = Total
  <2>1. CASE ExclusiveOpen
    <3>1. DOMAIN weights = P \cup {UnresolvedSlot} /\ un = settled[UnresolvedSlot]
      BY <1>5, <2>1 DEF un
    <3>2. \A s \in P \cup {UnresolvedSlot} : settled[s] \in Int
      BY <1>6, <3>1
    <3>3. SumFunctionOnSet(settled, P \cup {UnresolvedSlot})
            = settled[UnresolvedSlot] + SumFunctionOnSet(settled, P)
      BY <1>11, <3>2, SumAdd
    <3>4. SumFunctionOnSet(settled, P) \in Int /\ un \in Int
      BY <1>11, <3>1, <3>2, SumInt
    <3> QED
      BY <1>7, <1>12, <3>1, <3>3, <3>4
  <2>2. CASE ~ExclusiveOpen
    <3>1. DOMAIN weights = P /\ un = 0
      BY <1>5, <2>2 DEF un, Sound
    <3> QED
      BY <1>7, <1>12, <3>1, Amounts
  <2> QED
    BY <2>1, <2>2
<1>16. ExclusiveOpen => Multiple(un, Step[work.revisions])
  <2> SUFFICES ASSUME ExclusiveOpen PROVE Multiple(un, Step[work.revisions])
    OBVIOUS
  <2>1. work.revisions \in 0 .. MaxRevisions
    BY <1>1 DEF TypeOK, Frame
  <2>2. Whole(un)
    BY <1>5, <1>7 DEF un
  <2> QED
    BY <2>1, <2>2, WholeIsFine
<1>17. ~ExclusiveOpen => un = 0
  BY DEF un, Sound
<1>18. \A i \in P : Whole(hs[i].posterior)
  BY <1>5, <1>6, <1>7, <1>11, <1>13
<1>19. Sound(work')
  BY <1>9, <1>12, <1>14, <1>15, <1>16, <1>17 DEF Sound, Balanced, Emptied
<1> QED
  BY <1>9, <1>12, <1>18, <1>19

(* An event of an independent frame: a credence stays a probability.       *)
LEMMA IndependentBounded ==
  ASSUME NEW prior \in Nat, prior <= Total, NEW band \in Bands
  PROVE  IndependentPosterior(prior, band) <= Total
<1> DEFINE up == prior * LikelihoodRatio[band]
           t == up + (Total - prior) * 10
<1>1. LikelihoodRatio[band] \in Nat \ {0} /\ Total \in Nat \ {0}
  BY BandsType, Amounts
<1>2. up \in Nat /\ (prior # 0 => up # 0)
  BY <1>1
<1> HIDE DEF up
<1>3. (Total - prior) * 10 \in Nat /\ (prior = 0 => (Total - prior) * 10 > 0)
  BY <1>1
<1>4. t \in Nat \ {0} /\ up <= t
  BY <1>2, <1>3
<1> DEFINE u == RoundUnits(up, t)
<1>5. IndependentPosterior(prior, band) = Grain * u
  BY DEF IndependentPosterior, up
<1> HIDE DEF t
<1>6. u \in Nat /\ u <= Units
  BY <1>2, <1>4, RoundUnitsBounds
<1> HIDE DEF u
<1>7. Grain \in Nat /\ Units \in Nat
  BY BeliefAssumption
<1>8. u * Grain <= Grain * Units
  BY <1>6, <1>7, ProductMonotone
<1> QED
  BY <1>5, <1>6, <1>7, <1>8 DEF Total

LEMMA SolveIndependentSound ==
  ASSUME IInv, Sound(work), SolveIndependent
  PROVE  Sound(work')
<1>1. TypeOK /\ CanSolve /\ ~Exclusive
  BY DEF IInv, SolveIndependent
<1>2. next \in DOMAIN queue
  <2>1. next \in Nat \ {0} /\ Len(queue) \in Nat /\ DOMAIN queue = 1 .. Len(queue)
    BY <1>1, WorkType DEF TypeOK
  <2> QED
    BY <1>1, <2>1 DEF CanSolve
<1> DEFINE settled == [i \in Targeted(work.hyps, queue[next]) |->
                         IndependentPosterior(work.hyps[i].posterior,
                                              BandOf(queue[next], i))]
           hs == WithPosteriors(work.hyps, settled)
<1>3. Shares(settled) /\ SolvedTo(settled)
  BY DEF SolveIndependent
<1>4. \A i \in DOMAIN settled : settled[i] \in Nat /\ settled[i] <= Total
  <2>1. \A i \in DOMAIN settled : settled[i] \in Nat
    <3> HIDE DEF settled
    <3> QED
      BY <1>3 DEF Shares
  <2>2. ASSUME NEW i \in DOMAIN settled PROVE settled[i] <= Total
    <3>1. i \in 1 .. Len(work.hyps) /\ i \in Nat
      BY <1>1, WorkType DEF Targeted, Participants
    <3>2. work.hyps[i].posterior \in Nat /\ work.hyps[i].posterior <= Total
      <4>1. work.hyps[i] \in Hypothesis
        BY <1>1, <3>1, WorkType
      <4> QED
        BY <3>1, <4>1 DEF Sound, Hypothesis
    <3>3. BandOf(queue[next], i) \in Bands
      BY <1>1, <1>2, <3>1, WorkType, BandsType
    <3>4. settled[i] = IndependentPosterior(work.hyps[i].posterior,
                                            BandOf(queue[next], i))
      OBVIOUS
    <3> HIDE DEF settled
    <3> QED
      BY <3>2, <3>3, <3>4, IndependentBounded
  <2> QED
    BY <2>1, <2>2
<1>5. work' = [work EXCEPT !.hyps = hs, !.unresolved = work.unresolved]
  BY <1>1, <1>3 DEF SolvedTo, ExclusiveOpen
<1> HIDE DEF settled
<1>6. work.hyps \in Seq(Hypothesis)
  BY <1>1, WorkType
<1>7. /\ Len(hs) = Len(work.hyps)
      /\ \A i \in 1 .. Len(work.hyps) :
           /\ i \in DOMAIN settled => hs[i].posterior = settled[i]
           /\ i \notin DOMAIN settled => hs[i] = work.hyps[i]
  BY <1>4, <1>6, WithPosteriorsKeeps
<1> HIDE DEF hs
<1>8. work'.hyps = hs /\ work'.unresolved = work.unresolved
  BY <1>1, <1>5 DEF TypeOK, Frame
<1>9. \A i \in 1 .. Len(hs) : hs[i].posterior <= Total
  BY <1>4, <1>7 DEF Sound
<1> QED
  BY <1>1, <1>8, <1>9 DEF Sound, ExclusiveOpen

-----------------------------------------------------------------------------
(* Retirement returns what it takes.                                       *)
LEMMA RetireSound ==
  ASSUME IInv, Sound(work), ExclusiveOpen, NEW i \in DOMAIN work.hyps,
         RetireAndReconcile(i), work.active = Participants(work.hyps),
         \A j \in Participants(work.hyps) : Whole(work.hyps[j].posterior)
  PROVE  /\ Sound(work')
         /\ work'.active = Participants(work'.hyps)
         /\ \A j \in Participants(work'.hyps) : Whole(work'.hyps[j].posterior)
<1>1. TypeOK /\ Exclusive
  BY DEF IInv, ExclusiveOpen
<1> DEFINE hs == Retire(work.hyps, {i})
           P == Participants(work.hyps)
           returned == work.unresolved + work.hyps[i].posterior
<1>2. i \in P
  BY DEF RetireAndReconcile, Stale
<1>3. work' = [work EXCEPT !.hyps = hs, !.active = @ \ {i},
                           !.unresolved = returned]
  BY DEF RetireAndReconcile, ReturnedMass
<1>4. /\ work'.hyps = hs /\ work'.unresolved = returned
      /\ work'.revisions = work.revisions /\ work'.active = work.active \ {i}
  BY <1>1, <1>3 DEF TypeOK, Frame
<1>5. /\ work.hyps \in Seq(Hypothesis) /\ Len(work.hyps) \in Nat
      /\ \A j \in 1 .. Len(work.hyps) : work.hyps[j] \in Hypothesis
      /\ work.unresolved \in Nat
  BY <1>1, WorkType
<1>6. /\ hs \in Seq(Hypothesis) /\ Len(hs) = Len(work.hyps)
      /\ \A j \in 1 .. Len(work.hyps) : hs[j].posterior = work.hyps[j].posterior
  BY <1>5, RetireKeeps
<1>7. \A j \in 1 .. Len(work.hyps) :
        hs[j].status = IF j = i THEN "retired" ELSE work.hyps[j].status
  BY <1>1, <1>5, WorkType DEF Retire, Hypothesis
<1> HIDE DEF hs
<1>8. Participants(hs) = P \ {i}
  BY <1>6, <1>7 DEF Participants, Participates
<1>9. P \subseteq 1 .. Len(work.hyps)
  BY <1>5, ParticipantsIn
<1>10. NamedMass(work.hyps, P)
         = work.hyps[i].posterior + NamedMass(work.hyps, P \ {i})
  BY <1>2, <1>5, <1>9, MassWithout
<1>11. NamedMass(hs, P \ {i}) = NamedMass(work.hyps, P \ {i})
  BY <1>5, <1>6, <1>9, MassAgrees
<1>12. NamedMass(work.hyps, P \ {i}) \in Nat /\ work.hyps[i].posterior \in Nat
  BY <1>2, <1>5, <1>9, MassType
<1>13. NamedMass(work.hyps, P) + work.unresolved = Total
  BY <1>1 DEF Sound, Balanced, Emptied
<1>14. NamedMass(hs, P \ {i}) + returned = Total
  BY <1>5, <1>10, <1>11, <1>12, <1>13
<1>15. Multiple(returned, Step[work.revisions])
  <2>1. work.revisions \in 0 .. MaxRevisions
    BY <1>1 DEF TypeOK, Frame
  <2>2. Multiple(work.unresolved, Step[work.revisions])
    BY DEF Sound
  <2>3. Multiple(work.hyps[i].posterior, Step[work.revisions])
    BY <1>2, <2>1, WholeIsFine
  <2>4. Step[work.revisions] \in Nat
    BY <2>1, Steps
  <2> QED
    BY <2>2, <2>3, <2>4, MultipleAdds
<1> HIDE DEF returned
<1>16. \A j \in 1 .. Len(hs) : hs[j].posterior <= Total
  BY <1>6 DEF Sound
<1>17. \A j \in P \ {i} : Whole(hs[j].posterior)
  BY <1>6, <1>9
<1>18. Sound(work')
  BY <1>4, <1>8, <1>14, <1>15, <1>16 DEF Sound, Balanced, Emptied
<1> QED
  BY <1>4, <1>8, <1>17, <1>18

-----------------------------------------------------------------------------
(* An expansion gives the new hypotheses what the unresolved mass loses.   *)
LEMMA ExpandSound ==
  ASSUME IInv, Sound(work), NEW n \in 1 .. MaxProposals, Expand(n),
         setup.coverage = "open",
         ExclusiveOpen => work.active = Participants(work.hyps)
  PROVE  /\ Sound(work')
         /\ work'.active # {}
         /\ ExclusiveOpen => work'.active = Participants(work'.hyps)
<1>1. TypeOK /\ ReserveHeld
  BY DEF IInv
<1>2. n \in Nat \ {0} /\ (Exclusive <=> ExclusiveOpen)
  BY BeliefAssumption DEF ExclusiveOpen
<1> DEFINE hs == work.hyps
           un == work.unresolved
           share == ExpandedPosterior(un, n)
           more == [k \in 1 .. n |-> Named(share)]
           added == Len(hs) + 1 .. Len(hs) + n
           new == hs \o more
           P == Participants(hs)
           left == IF Exclusive THEN un - Transfer(un) ELSE un
<1>3. /\ hs \in Seq(Hypothesis) /\ Len(hs) \in Nat /\ un \in Nat
      /\ P \subseteq 1 .. Len(hs)
  BY <1>1, WorkType, ParticipantsIn
<1>4. /\ work'.hyps = new /\ work'.unresolved = left
      /\ work'.revisions = work.revisions + 1
      /\ work'.active = StillActive(work) \cup added
  BY <1>1 DEF Expand, ExpandedBy, TypeOK, Frame
<1>5. Transfer(un) \in Nat /\ un - Transfer(un) \in Nat /\ Total \in Nat
  BY <1>3, TransferLeavesReserve, Amounts
<1>6. share \in Nat
  <2>1. Transfer(un) \div n \in Nat /\ Total \div 2 \in Nat
    BY <1>2, <1>5
  <2> QED
    BY <2>1 DEF ExpandedPosterior
<1>7. share <= Total
  <2>1. CASE Exclusive
    <3>1. share = Transfer(un) \div n
      BY <2>1 DEF ExpandedPosterior
    <3>2. Transfer(un) \div n <= Transfer(un)
      <4> DEFINE t == Transfer(un)
                 q == t \div n
                 r == t % n
      <4>0. t \in Nat
        BY <1>5
      <4> HIDE DEF t
      <4>1. q \in Nat /\ r \in Nat /\ t = q * n + r
        BY <1>2, <4>0
      <4> HIDE DEF q, r
      <4>2. 1 * q <= q * n
        BY <1>2, <4>1, ProductMonotone
      <4> QED
        BY <1>2, <4>0, <4>1, <4>2 DEF q, t
    <3>3. un <= Total
      <4>1. NamedMass(hs, P) \in Nat
        BY <1>3, MassType
      <4> QED
        BY <1>3, <1>5, <2>1, <4>1 DEF Sound, Balanced, Emptied
    <3> QED
      BY <1>3, <1>5, <1>6, <3>1, <3>2, <3>3
  <2>2. CASE ~Exclusive
    BY <1>5, <2>2 DEF ExpandedPosterior
  <2> QED
    BY <2>1, <2>2
<1> HIDE DEF share
<1>8. Named(share) \in Hypothesis /\ Named(share).posterior = share
      /\ Named(share).status = "active"
  BY <1>6 DEF Named, Hypothesis, Statuses
<1>9. more \in Seq(Hypothesis) /\ Len(more) = n
  <2>1. more \in [1 .. n -> Hypothesis]
    BY <1>8
  <2> HIDE DEF more
  <2> QED
    BY <1>2, <2>1, FunctionIsSeq
<1>10. \A k \in 1 .. n : more[k] = Named(share)
  OBVIOUS
<1> HIDE DEF more, hs
<1>11. /\ new \in Seq(Hypothesis) /\ Len(new) = Len(hs) + n
       /\ \A i \in 1 .. Len(hs) : new[i] = hs[i]
       /\ \A i \in added : new[i] = Named(share)
  <2>1. /\ new \in Seq(Hypothesis) /\ Len(new) = Len(hs) + Len(more)
        /\ \A i \in 1 .. Len(hs) + Len(more) :
             new[i] = IF i <= Len(hs) THEN hs[i] ELSE more[i - Len(hs)]
    BY <1>3, <1>9, ConcatProperties
  <2> HIDE DEF new
  <2> QED
    BY <1>2, <1>3, <1>9, <1>10, <2>1
<1> HIDE DEF new
<1>12. 1 .. Len(hs) + n = (1 .. Len(hs)) \cup added
       /\ P \cap added = {} /\ added \subseteq 1 .. Len(new)
       /\ P \subseteq 1 .. Len(new)
  BY <1>2, <1>3, <1>11
<1>13. Participants(new) = P \cup added
  <2>1. \A i \in added : Participates(new[i])
    BY <1>8, <1>11 DEF Participates
  <2>2. \A i \in 1 .. Len(hs) : Participates(new[i]) <=> Participates(hs[i])
    BY <1>11
  <2> HIDE DEF added
  <2> QED
    BY <1>11, <1>12, <2>1, <2>2 DEF Participants
<1>14. added # {} /\ IsFiniteSet(added) /\ Cardinality(added) = n
  <2> DEFINE a == Len(hs) + 1
             b == Len(hs) + n
  <2>1. a \in Int /\ b \in Int /\ b - a + 1 = n /\ ~(a > b) /\ a \in a .. b
    BY <1>2, <1>3
  <2> HIDE DEF a, b
  <2>2. IsFiniteSet(a .. b) /\ Cardinality(a .. b) = IF a > b THEN 0 ELSE b - a + 1
    BY <2>1, FS_Interval
  <2>3. IsFiniteSet(a .. b) /\ Cardinality(a .. b) = n /\ a .. b # {}
    BY <2>1, <2>2
  <2> QED
    BY <2>3 DEF a, b
<1> HIDE DEF added
<1>15. \A i \in 1 .. Len(new) : new[i].posterior <= Total
  <2>1. \A i \in 1 .. Len(hs) : hs[i].posterior <= Total
    BY DEF Sound, hs
  <2> QED
    BY <1>7, <1>8, <1>11, <1>12, <2>1
<1>16. ASSUME Exclusive
       PROVE  /\ NamedMass(new, P \cup added) + left = Total
              /\ Multiple(left, Step[work.revisions + 1])
  <2>1. /\ work.revisions \in 0 .. MaxRevisions
        /\ work.revisions < MaxRevisions
    BY <1>1 DEF TypeOK, Frame, Expand, RevisionsLeft
  <2>2. work.revisions + 1 \in 1 .. MaxRevisions
    BY <2>1, BeliefAssumption
  <2>3. un >= Reserve /\ Multiple(un, Step[work.revisions])
    BY <1>1, <1>2, <1>16 DEF ReserveHeld, Sound
  <2>4. /\ Multiple(Transfer(un), Step[work.revisions + 1])
        /\ Multiple(un - Transfer(un), Step[work.revisions + 1])
    BY <2>1, <2>3, TransferIsFine
  <2>5. share * n = Transfer(un)
    <3>1. share = Transfer(un) \div n
      BY <1>16 DEF share, ExpandedPosterior
    <3> QED
      BY <2>2, <2>4, <3>1, TransferDivides
  <2>6. NamedMass(new, P \cup added)
          = NamedMass(new, P) + NamedMass(new, added)
    BY <1>11, <1>12, MassOfUnion
  <2>7. NamedMass(new, P) = NamedMass(hs, P)
    <3>1. P \subseteq 1 .. Len(hs) /\ P \subseteq 1 .. Len(new)
      BY <1>3, <1>12
    <3>2. \A i \in P : new[i].posterior = hs[i].posterior
      BY <1>11, <3>1
    <3> HIDE DEF P
    <3> QED
      BY <1>3, <1>11, <3>1, <3>2, MassAgrees
  <2>8. NamedMass(new, added) = share * n
    <3>1. \A i \in added : new[i].posterior = share
      BY <1>8, <1>11
    <3> QED
      BY <1>6, <1>11, <1>12, <1>14, <3>1, MassOfEqual
  <2>9. NamedMass(hs, P) + un = Total /\ NamedMass(hs, P) \in Nat
    BY <1>2, <1>3, <1>16, MassType DEF Sound, Balanced, Emptied, hs
  <2>10. left = un - Transfer(un)
    BY <1>16
  <2> QED
    BY <1>3, <1>5, <2>4, <2>5, <2>6, <2>7, <2>8, <2>9, <2>10
<1>17. ~ExclusiveOpen => left = 0
  BY <1>2 DEF Sound
<1> HIDE DEF left, P
<1>18. Sound(work')
  BY <1>2, <1>4, <1>13, <1>15, <1>16, <1>17 DEF Sound, Balanced, Emptied
<1>19. ASSUME ExclusiveOpen PROVE work'.active = Participants(work'.hyps)
  <2>1. StillActive(work) = P
    BY <1>19 DEF StillActive, P, hs
  <2> QED
    BY <1>4, <1>13, <2>1
<1> QED
  BY <1>4, <1>14, <1>18, <1>19

-----------------------------------------------------------------------------
(* Evolution, in frames that are not exclusive-open.                       *)

(* Whatever is spawned, retired or reframed, posteriors stay probabilities.*)
LEMMA EvolvedBounded ==
  ASSUME TypeOK, Sound(work),
         NEW order \in Orders(Reframed(RetiredFrom(work.hyps, queue)))
  PROVE  LET evolved == EvolvedFrom(work.hyps, queue, order) IN
         \A i \in 1 .. Len(evolved) : evolved[i].posterior <= Total
<1> DEFINE Credence == [status: Statuses, posterior: 0 .. Total]
           hs == work.hyps
           more == Spawned(queue)
           grown == SpawnedInto(hs, queue)
           retired == RetiredFrom(hs, queue)
           reframed == Reframed(retired)
           scoped == Reframings(retired, order)
           evolved == EvolvedFrom(hs, queue, order)
<1>1. /\ hs \in Seq(Hypothesis) /\ Len(hs) \in Nat /\ DOMAIN hs = 1 .. Len(hs)
      /\ \A i \in 1 .. Len(hs) : hs[i] \in Hypothesis
      /\ DOMAIN queue = 1 .. Len(queue) /\ Len(queue) \in Nat
  BY WorkType
<1>2. Total \in Nat /\ Credence \subseteq Hypothesis
  BY Amounts DEF Hypothesis
<1>3. \A p \in 0 .. Total : Named(p) \in Credence
  BY DEF Named, Statuses
<1>4. hs \in Seq(Credence)
  <2>1. \A i \in 1 .. Len(hs) : hs[i] \in Credence
    <3> TAKE i \in 1 .. Len(hs)
    <3>1. hs[i].posterior <= Total /\ hs[i] \in Hypothesis
      BY <1>1 DEF Sound
    <3> QED
      BY <1>2, <3>1 DEF Hypothesis
  <2> HIDE DEF hs, Credence
  <2>2. hs = [i \in 1 .. Len(hs) |-> hs[i]]
    BY <1>1, SeqDef
  <2>3. hs \in [1 .. Len(hs) -> Credence]
    BY <2>1, <2>2
  <2> QED
    BY <1>1, <2>3, FunctionIsSeq
<1>5. more \in Seq(Credence)
  <2> DEFINE n == Cardinality(Anomalies(queue))
  <2>1. IsFiniteSet(1 .. Len(queue))
    <3> DEFINE last == Len(queue)
    <3>1. 1 \in Int /\ last \in Int
      BY <1>1
    <3> HIDE DEF last
    <3> QED
      BY <3>1, FS_Interval
  <2>2. IsFiniteSet(Anomalies(queue))
    BY <1>1, <2>1, FS_Subset DEF Anomalies
  <2>3. n \in Nat
    BY <2>2, FS_CardinalityType
  <2>4. Named(SpawnPrior) \in Credence
    BY <1>3, BeliefAssumption
  <2>5. more = [k \in 1 .. n |-> Named(SpawnPrior)]
    BY DEF Spawned
  <2> HIDE DEF n, Credence
  <2>6. more \in [1 .. n -> Credence]
    BY <2>4, <2>5
  <2> QED
    BY <2>3, <2>6, FunctionIsSeq
<1> HIDE DEF Credence
<1>6. grown \in Seq(Credence)
  <2>1. grown = hs \o more
    BY DEF SpawnedInto
  <2> HIDE DEF hs, more, grown
  <2> QED
    BY <1>4, <1>5, <2>1, ConcatProperties
<1>7. retired \in Seq(Credence)
  <2>1. retired = Retire(grown, Stale(grown, queue))
    BY DEF RetiredFrom
  <2> HIDE DEF hs, grown, retired
  <2>2. grown \in Seq(Hypothesis)
    BY <1>2, <1>6, SeqMonotonic
  <2>3. /\ retired \in Seq(Hypothesis) /\ Len(retired) = Len(grown)
        /\ \A i \in 1 .. Len(grown) : retired[i].posterior = grown[i].posterior
    BY <2>1, <2>2, RetireKeeps
  <2>4. /\ Len(grown) \in Nat /\ DOMAIN retired = 1 .. Len(grown)
        /\ \A i \in 1 .. Len(grown) :
             grown[i] \in Credence /\ retired[i] \in Hypothesis
    BY <1>6, <2>3, LenProperties, ElementOfSeq
  <2>5. \A i \in 1 .. Len(grown) : retired[i] \in Credence
    <3> TAKE i \in 1 .. Len(grown)
    <3>1. /\ retired[i].posterior = grown[i].posterior
          /\ grown[i] \in Credence /\ retired[i] \in Hypothesis
      BY <2>3, <2>4
    <3> QED
      BY <1>2, <3>1 DEF Credence, Hypothesis
  <2>6. retired = [i \in 1 .. Len(grown) |-> retired[i]]
    BY <2>3, <2>4, SeqDef
  <2>7. retired \in [1 .. Len(grown) -> Credence]
    BY <2>5, <2>6
  <2> QED
    BY <2>4, <2>7, FunctionIsSeq
<1>8. scoped \in Seq(Credence)
  <2> DEFINE n == Cardinality(reframed)
  <2>1. Len(retired) \in Nat
        /\ \A i \in 1 .. Len(retired) : retired[i] \in Credence
    <3> HIDE DEF retired
    <3> QED
      BY <1>7, LenProperties, ElementOfSeq
  <2>2. reframed \subseteq 1 .. Len(retired)
    BY DEF Reframed, Participants
  <2>3. n \in Nat
    <3> HIDE DEF retired, reframed
    <3>1. IsFiniteSet(1 .. Len(retired))
      BY <2>1, FS_Interval
    <3>2. IsFiniteSet(reframed)
      BY <2>2, <3>1, FS_Subset
    <3> QED
      BY <3>2, FS_CardinalityType
  <2>4. order \in [1 .. n -> reframed]
    BY DEF Orders
  <2>5. \A i \in 1 .. Len(retired) : Clamp(retired[i].posterior) \in 0 .. Total
    <3>1. \A i \in 1 .. Len(retired) : retired[i].posterior \in 0 .. Total
      BY <2>1 DEF Credence
    <3>2. ReframeFloor \in Nat /\ Total \in Nat /\ ReframeFloor <= Total
      BY BeliefAssumption, Amounts
    <3>3. \A p \in 0 .. Total : Clamp(p) \in 0 .. Total
      BY <3>2 DEF Clamp
    <3> HIDE DEF retired
    <3> QED
      BY <3>1, <3>3
  <2>6. \A k \in 1 .. n : Named(Clamp(retired[order[k]].posterior)) \in Credence
    <3> HIDE DEF retired, reframed, n
    <3> QED
      BY <2>2, <2>4, <2>5, <1>3
  <2>7. scoped = [k \in 1 .. n |-> Named(Clamp(retired[order[k]].posterior))]
    BY <2>4 DEF Reframings
  <2>8. scoped \in [1 .. n -> Credence]
    <3> HIDE DEF retired, reframed, n, scoped
    <3> QED
      BY <2>6, <2>7
  <2> HIDE DEF retired, reframed, n, scoped
  <2> QED
    BY <2>3, <2>8, FunctionIsSeq
<1>9. evolved = retired \o scoped
  BY DEF EvolvedFrom
<1> HIDE DEF hs, more, grown, retired, reframed, scoped, evolved
<1>10. evolved \in Seq(Credence)
  BY <1>7, <1>8, <1>9, ConcatProperties
<1>11. \A i \in 1 .. Len(evolved) : evolved[i] \in Credence
  BY <1>10, ElementOfSeq
<1>12. \A i \in 1 .. Len(evolved) : evolved[i].posterior <= Total
  BY <1>2, <1>11 DEF Credence
<1> QED
  BY <1>12 DEF evolved, hs

LEMMA EvolveIndependentSound ==
  ASSUME IInv, Sound(work), EvolveIndependent
  PROVE  Sound(work')
<1>1. TypeOK /\ ~Exclusive
  BY DEF IInv, EvolveIndependent
<1>2. PICK order \in Orders(Reframed(RetiredFrom(work.hyps, queue))) :
        work' = [work EXCEPT !.hyps = EvolvedFrom(work.hyps, queue, order)]
  BY DEF EvolveIndependent
<1> DEFINE evolved == EvolvedFrom(work.hyps, queue, order)
<1>3. \A i \in 1 .. Len(evolved) : evolved[i].posterior <= Total
  BY <1>1, EvolvedBounded
<1>4. work' = [work EXCEPT !.hyps = evolved]
  BY <1>2
<1> HIDE DEF evolved
<1>5. work'.hyps = evolved /\ work'.unresolved = work.unresolved
  BY <1>1, <1>4 DEF TypeOK, Frame
<1> QED
  BY <1>1, <1>3, <1>5 DEF Sound, ExclusiveOpen

(* The last hypothesis retired: nothing is left to balance.                *)
LEMMA EvolveToNothingSound ==
  ASSUME IInv, Sound(work), EvolveToNothing, ~ExclusiveOpen
  PROVE  Sound(work')
<1>1. TypeOK
  BY DEF IInv
<1>2. PICK order \in Orders(Reframed(RetiredFrom(work.hyps, queue))) :
        LET evolved == EvolvedFrom(work.hyps, queue, order)
        IN /\ Participants(evolved) = {}
           /\ work' = [work EXCEPT !.hyps = evolved]
  BY DEF EvolveToNothing
<1> DEFINE evolved == EvolvedFrom(work.hyps, queue, order)
<1>3. \A i \in 1 .. Len(evolved) : evolved[i].posterior <= Total
  BY <1>1, EvolvedBounded
<1>4. Participants(evolved) = {} /\ work' = [work EXCEPT !.hyps = evolved]
  BY <1>2
<1> HIDE DEF evolved
<1>5. work'.hyps = evolved /\ work'.unresolved = work.unresolved
  BY <1>1, <1>4 DEF TypeOK, Frame
<1> QED
  BY <1>3, <1>4, <1>5 DEF Sound, Emptied

(* normalize_hypotheses: the participants of an exhaustive frame sum to    *)
(* one again, however many were spawned, reframed or retired.              *)
LEMMA EvolveExclusiveSound ==
  ASSUME IInv, Sound(work), EvolveExclusive, ~ExclusiveOpen
  PROVE  Sound(work')
<1>1. TypeOK /\ Exclusive
  BY DEF IInv, EvolveExclusive
<1>2. PICK order \in Orders(Reframed(RetiredFrom(work.hyps, queue))) :
        LET evolved  == EvolvedFrom(work.hyps, queue, order)
            rounded  == RoundedSlots(Weights(Posteriors(evolved)))
            residual == Residual(rounded)
        IN \E anchor \in DOMAIN rounded :
             LET units == Settle(rounded, residual, anchor)
             IN /\ IsAnchor(Weights(Posteriors(evolved)),
                            Anchors(rounded, residual), anchor)
                /\ Shares(units)
                /\ work' = [work EXCEPT
                     !.hyps = WithPosteriors(evolved, InGrains(units))]
  BY DEF EvolveExclusive
<1> DEFINE evolved == EvolvedFrom(work.hyps, queue, order)
           scores == Posteriors(evolved)
           weights == Weights(scores)
           rounded == RoundedSlots(weights)
           residual == Residual(rounded)
<1>3. PICK anchor \in DOMAIN rounded :
        /\ anchor \in Anchors(rounded, residual)
        /\ Shares(Settle(rounded, residual, anchor))
        /\ work' = [work EXCEPT !.hyps = WithPosteriors(evolved,
                      InGrains(Settle(rounded, residual, anchor)))]
  BY <1>2 DEF IsAnchor
<1> DEFINE settled == InGrains(Settle(rounded, residual, anchor))
           hs == WithPosteriors(evolved, settled)
           P == Participants(evolved)
<1>4. evolved \in Seq(Hypothesis)
      /\ \A i \in 1 .. Len(evolved) : evolved[i].posterior <= Total
  BY <1>1, EvolvedKeeps, EvolvedBounded
<1>5. work' = [work EXCEPT !.hyps = hs]
  BY <1>3
<1>6. anchor \in DOMAIN weights
  BY <1>3 DEF RoundedSlots
<1> HIDE DEF evolved
<1>7. DOMAIN scores = P /\ \A i \in P : scores[i] = evolved[i].posterior
  BY DEF Posteriors
<1>8. P \subseteq 1 .. Len(evolved) /\ IsFiniteSet(P)
      /\ \A i \in P : evolved[i].posterior \in Nat
  BY <1>4, ParticipantsIn, MassType
<1> HIDE DEF scores, P
<1>9. DOMAIN weights = P
  BY <1>7 DEF Weights
<1>10. P # {}
  BY <1>6, <1>9
<1>11. /\ \A s \in P : weights[s] \in Nat
       /\ WeightOf(weights) \in Nat \ {0}
  BY <1>7, <1>8, <1>10, WeightsPositive
<1> HIDE DEF weights
<1>12. DOMAIN settled = P /\ \A s \in P : settled[s] \in Nat
  BY <1>3, <1>9, SettledShares
<1>13. SumFunctionOnSet(settled, P) = Total
       /\ \A s \in P : settled[s] <= Total
  BY <1>3, <1>8, <1>9, <1>11, SettledTotal
<1> HIDE DEF settled, rounded, residual
<1>14. Participants(hs) = P /\ NamedMass(hs, P) = SumFunctionOnSet(settled, P)
  BY <1>4, <1>12, MassOfSettled DEF P
<1>15. /\ Len(hs) = Len(evolved)
       /\ \A i \in 1 .. Len(evolved) :
            /\ i \in DOMAIN settled => hs[i].posterior = settled[i]
            /\ i \notin DOMAIN settled => hs[i] = evolved[i]
  BY <1>4, <1>12, WithPosteriorsKeeps
<1> HIDE DEF hs
<1>16. \A i \in 1 .. Len(hs) : hs[i].posterior <= Total
  BY <1>4, <1>12, <1>13, <1>15
<1>17. work'.hyps = hs /\ work'.unresolved = work.unresolved
  BY <1>1, <1>5 DEF TypeOK, Frame
<1>18. work.unresolved = 0
  BY DEF Sound
<1>19. NamedMass(hs, P) + 0 = Total
  BY <1>13, <1>14, Amounts
<1> QED
  BY <1>14, <1>16, <1>17, <1>18, <1>19 DEF Sound, Balanced, Emptied

-----------------------------------------------------------------------------
(* The mass invariant.                                                     *)

LEMMA InitMass == Init => MassInv
<1> SUFFICES ASSUME Init PROVE Sound(belief)
  BY DEF MassInv, Init
<1> DEFINE hs == belief.hyps
           priors == setup.priors
           un == IF OpenSetup(setup) THEN InitialOpen ELSE 0
           P == 1 .. Len(hs)
<1>1. /\ setup \in Setups /\ setup \in Setup /\ belief = InitialBelief(setup)
      /\ Len(priors) \in Nat /\ DOMAIN priors = P
      /\ hs \in Seq(Hypothesis) /\ Len(hs) = Len(priors)
      /\ \A i \in P : hs[i].posterior = priors[i] /\ priors[i] \in 0 .. Total
      /\ Participants(hs) = P
  BY InitialHypotheses DEF Init
<1>2. belief.unresolved = un /\ belief.revisions = 0
  BY <1>1 DEF InitialBelief
<1>3. Total \in Nat \ {0} /\ InitialOpen \in Nat
  BY Amounts, BeliefAssumption
<1>4. ExclusiveOpen <=> OpenSetup(setup)
  BY DEF ExclusiveOpen, Exclusive, OpenSetup
<1>5. NamedMass(hs, P) = SumFunctionOnSet(priors, P)
  <2> DEFINE posteriors == [i \in DOMAIN hs |-> hs[i].posterior]
  <2>1. DOMAIN hs = P
    BY <1>1, LenProperties
  <2>2. priors = [i \in P |-> priors[i]]
    BY <1>1 DEF Setup
  <2>3. posteriors = priors
    BY <1>1, <2>1, <2>2
  <2> QED
    BY <2>3 DEF NamedMass
<1> HIDE DEF hs, priors, P
<1>6. Exclusive => Balanced(belief)
  <2> SUFFICES ASSUME Exclusive PROVE NamedMass(hs, P) + un = Total
    BY <1>1, <1>2 DEF Balanced, hs
  <2>1. PriorsAddUp(setup) /\ setup.competition = "exclusive"
    BY <1>1, BeliefAssumption DEF Exclusive
  <2>2. SumFunctionOnSet(priors, P) + un = Total
    BY <1>1, <2>1 DEF PriorsAddUp, priors
  <2> QED
    BY <1>5, <2>2
<1>7. \A i \in 1 .. Len(hs) : hs[i].posterior <= Total
  BY <1>1, <1>3 DEF P
<1>8. ExclusiveOpen => Multiple(un, Step[0])
  <2> SUFFICES ASSUME OpenSetup(setup) PROVE Whole(InitialOpen)
    BY <1>4, Steps DEF Whole
  <2> DEFINE k == InitialOpen \div Grain
  <2>1. Grain \in Nat \ {0} /\ InitialOpen % Grain = 0
    BY BeliefAssumption, GrainAssumption
  <2>2. k \in Nat /\ InitialOpen = k * Grain
    BY <1>3, <2>1
  <2> QED
    BY <2>2 DEF Whole, Multiple
<1> HIDE DEF un
<1>9. ~ExclusiveOpen => un = 0
  BY <1>4 DEF un
<1> QED
  BY <1>2, <1>6, <1>7, <1>8, <1>9 DEF Sound, hs

(* Two copies with the same masses are sound together.                     *)
LEMMA SameSound ==
  ASSUME NEW v, NEW w, Sound(v), w.hyps = v.hyps,
         w.unresolved = v.unresolved, w.revisions = v.revisions
  PROVE  Sound(w)
  BY DEF Sound, Balanced, Emptied

LEMMA MassKept ==
  ASSUME MassInv, UNCHANGED <<setup, belief>>,
         phase' # "idle" => Sound(work') /\ CycleMass'
  PROVE  MassInv'
  BY SoundPrimed DEF MassInv

LEMMA SolveMass ==
  ASSUME IInv, MassInv, SolveNothing \/ SolveExclusive \/ SolveIndependent
  PROVE  MassInv'
<1>1. /\ TypeOK /\ phase = "solve" /\ phase' = "solve"
      /\ next \in Nat /\ next' = next + 1
      /\ UNCHANGED <<setup, belief, queue, expanding>>
  BY DEF IInv, TypeOK, SolveNothing, SolveExclusive, SolveIndependent, CanSolve
<1>2. Sound(work) /\ CycleMass
  BY <1>1 DEF MassInv
<1>3. CASE SolveNothing
  <2>1. work' = work /\ Participants(work.hyps) = {}
    BY <1>3 DEF SolveNothing
  <2>2. CycleMass'
    BY <1>1, <1>2, <2>1 DEF CycleMass, ExclusiveOpen, Exclusive
  <2> QED
    BY <1>1, <1>2, <2>1, <2>2, MassKept
<1>4. CASE SolveExclusive
  <2>1. /\ Sound(work')
        /\ \A i \in Participants(work'.hyps) : Whole(work'.hyps[i].posterior)
        /\ Participants(work'.hyps) = Participants(work.hyps)
        /\ work'.active = work.active
    BY <1>2, <1>4, SolveExclusiveSound DEF CycleMass
  <2>2. CycleMass'
    BY <1>1, <1>2, <2>1 DEF CycleMass, ExclusiveOpen, Exclusive
  <2> QED
    BY <1>1, <2>1, <2>2, MassKept
<1>5. CASE SolveIndependent
  <2>1. Sound(work') /\ ~ExclusiveOpen
    BY <1>2, <1>5, SolveIndependentSound DEF SolveIndependent, ExclusiveOpen
  <2>2. CycleMass'
    BY <1>1, <1>2, <2>1 DEF CycleMass, ExclusiveOpen, Exclusive
  <2> QED
    BY <1>1, <2>1, <2>2, MassKept
<1> QED
  BY <1>3, <1>4, <1>5

LEMMA RetireMass ==
  ASSUME IInv, MassInv, NEW i \in DOMAIN work.hyps, RetireAndReconcile(i)
  PROVE  MassInv'
<1>1. /\ TypeOK /\ phase = "retire" /\ phase' = "retire"
      /\ UNCHANGED <<setup, belief, queue, expanding>>
  BY DEF IInv, RetireAndReconcile
<1>2. Sound(work) /\ CycleMass
  BY <1>1 DEF MassInv
<1>3. ASSUME ExclusiveOpen PROVE MassInv'
  <2>1. queue # <<>>
    <3> SUFFICES ASSUME queue = <<>> PROVE FALSE
      OBVIOUS
    <3>1. DOMAIN queue = {}
      <4>1. queue \in Seq(Events) /\ DOMAIN queue = 1 .. Len(queue)
            /\ Len(queue) = 0
        BY <1>1, WorkType, EmptySeq DEF TypeOK
      <4> QED
        BY <4>1
    <3>2. Counterevents(queue, i) = {}
      BY <3>1 DEF Counterevents
    <3>3. Cardinality(Counterevents(queue, i)) = 0
      BY <3>2, FS_EmptySet
    <3>4. Cardinality(Counterevents(queue, i)) >= 2
      BY DEF RetireAndReconcile, Stale
    <3> QED
      BY <3>3, <3>4
  <2>2. /\ \A j \in Participants(work.hyps) : Whole(work.hyps[j].posterior)
        /\ work.active = Participants(work.hyps)
    BY <1>1, <1>2, <1>3, <2>1 DEF CycleMass, Rounded
  <2>3. /\ Sound(work')
        /\ work'.active = Participants(work'.hyps)
        /\ \A j \in Participants(work'.hyps) : Whole(work'.hyps[j].posterior)
    BY <1>2, <1>3, <2>2, RetireSound
  <2>4. CycleMass'
    BY <1>1, <1>2, <2>3 DEF CycleMass, ExclusiveOpen, Exclusive
  <2> QED
    BY <1>1, <2>3, <2>4, MassKept
<1>4. ExclusiveOpen
  BY <1>1, <1>2 DEF CycleMass
<1> QED
  BY <1>3, <1>4

LEMMA NextMass == ASSUME IInv, MassInv, [Next]_vars PROVE MassInv'
<1>1. TypeOK /\ (phase = "evolve" => ~ExclusiveOpen) /\ Sound(belief)
  BY DEF IInv, CycleInv, MassInv
<1>2. phase # "idle" => Sound(work) /\ CycleMass
  BY DEF MassInv
<1>3. CASE BeginCycle
  <2>1. /\ work' = [belief EXCEPT !.active = Participants(belief.hyps)]
        /\ phase' = "solve" /\ next' = 1 /\ expanding' = FALSE
        /\ UNCHANGED <<setup, belief>>
    BY <1>3 DEF BeginCycle
  <2>2. /\ work'.hyps = belief.hyps /\ work'.unresolved = belief.unresolved
        /\ work'.revisions = belief.revisions
        /\ work'.active = Participants(belief.hyps)
    BY <1>1, <2>1 DEF TypeOK, Frame
  <2>3. Sound(work')
    BY <1>1, <2>2, SameSound
  <2>4. ASSUME ExclusiveOpen, NEW k \in DOMAIN queue'
        PROVE  queue'[k].unresolved \in Bands
    <3>1. queue' \in BoundedSeq({e \in Events : Legal(e)}, MaxBatch)
      BY <1>3 DEF BeginCycle
    <3>2. PICK m \in 0 .. MaxBatch :
            queue' \in [1 .. m -> {e \in Events : Legal(e)}]
      BY <3>1 DEF BoundedSeq, SeqOf
    <3>3. queue'[k] \in Events /\ Legal(queue'[k])
      BY <3>2
    <3>4. queue'[k] \in Event
      BY <3>3, BeliefAssumption
    <3>5. queue'[k].unresolved \in Bands \cup {"none"}
      BY <3>4 DEF Event
    <3>6. queue'[k].unresolved # "none"
      BY <2>4, <3>3 DEF Legal
    <3> QED
      BY <3>5, <3>6
  <2>5. CycleMass'
    BY <2>1, <2>2, <2>4 DEF CycleMass, Rounded, ExclusiveOpen, Exclusive
  <2> QED
    BY <2>1, <2>3, <2>5, MassKept
<1>4. CASE SolveNothing \/ SolveExclusive \/ SolveIndependent
  BY <1>4, SolveMass
<1>5. CASE SolveDone
  <2>1. /\ phase = "solve" /\ next > Len(queue)
        /\ phase' = IF ExclusiveOpen THEN "retire" ELSE "assess"
        /\ UNCHANGED <<setup, belief, work, queue, next, expanding>>
    BY <1>5 DEF SolveDone
  <2>2. queue # <<>> => next > 1
    <3>1. queue \in Seq(Events) /\ next \in Nat /\ Len(queue) \in Nat
      BY <1>1, WorkType DEF TypeOK
    <3>2. queue # <<>> => Len(queue) # 0
      BY <3>1, EmptySeq
    <3> QED
      BY <2>1, <3>1, <3>2
  <2>3. Rounded' => Rounded
    BY <2>1, <2>2 DEF Rounded
  <2>4. CycleMass'
    BY <1>2, <2>1, <2>3 DEF CycleMass, ExclusiveOpen, Exclusive
  <2>5. Sound(work')
    BY <1>2, <2>1
  <2> QED
    BY <2>1, <2>4, <2>5, MassKept
<1>6. CASE \E i \in DOMAIN work.hyps : RetireAndReconcile(i)
  BY <1>6, RetireMass
<1>7. CASE RetirementDone \/ EvolveNothing
  <2>1. /\ phase \in {"retire", "evolve"} /\ phase' \in {"assess", "expand"}
        /\ UNCHANGED <<setup, belief, work, queue, expanding>>
    BY <1>7 DEF RetirementDone, EvolveNothing
  <2>2. CycleMass'
    BY <1>2, <2>1 DEF CycleMass, Rounded, ExclusiveOpen, Exclusive
  <2>3. Sound(work')
    BY <1>2, <2>1
  <2> QED
    BY <2>1, <2>2, <2>3, MassKept
<1>8. CASE Assess
  <2>1. /\ work'.hyps = work.hyps /\ work'.unresolved = work.unresolved
        /\ work'.revisions = work.revisions /\ work'.active = work.active
        /\ phase = "assess" /\ phase' \in {"expand", "evolve"}
        /\ UNCHANGED <<setup, belief, queue>>
    BY <1>1, <1>8 DEF Assess, TypeOK, Frame
  <2>2. expanding' => setup.coverage = "open"
    BY <1>8 DEF Assess, ShouldExpand
  <2>3. Sound(work')
    BY <1>2, <2>1, SameSound
  <2>4. CycleMass'
    BY <1>2, <2>1, <2>2 DEF CycleMass, Rounded, ExclusiveOpen, Exclusive
  <2> QED
    BY <2>1, <2>3, <2>4, MassKept
<1>9. CASE EvolveIndependent \/ EvolveExclusive \/ EvolveToNothing
  <2>1. /\ phase = "evolve" /\ phase' = "expand" /\ ~ExclusiveOpen
        /\ UNCHANGED <<setup, belief, queue, expanding>>
    BY <1>1, <1>9 DEF EvolveIndependent, EvolveExclusive, EvolveToNothing
  <2>2. Sound(work')
    BY <1>2, <1>9, <2>1, EvolveIndependentSound, EvolveExclusiveSound,
       EvolveToNothingSound
  <2>3. CycleMass'
    BY <1>2, <2>1 DEF CycleMass, ExclusiveOpen, Exclusive
  <2> QED
    BY <2>1, <2>2, <2>3, MassKept
<1>10. CASE SkipExpansion
  <2>1. /\ work'.hyps = work.hyps /\ work'.unresolved = work.unresolved
        /\ work'.revisions = work.revisions
        /\ work'.active = Participants(work.hyps)
        /\ phase = "expand" /\ phase' = "commit"
        /\ UNCHANGED <<setup, belief, queue, expanding>>
    BY <1>1, <1>10 DEF SkipExpansion, TypeOK, Frame
  <2>2. Sound(work')
    BY <1>2, <2>1, SameSound
  <2>3. CycleMass'
    BY <1>2, <2>1 DEF CycleMass, Rounded, ExclusiveOpen, Exclusive
  <2> QED
    BY <2>1, <2>2, <2>3, MassKept
<1>11. CASE \E n \in 1 .. MaxProposals : Expand(n)
  <2>1. PICK n \in 1 .. MaxProposals : Expand(n)
    BY <1>11
  <2>2. /\ phase = "expand" /\ phase' = "commit" /\ expanding
        /\ UNCHANGED <<setup, belief, queue, expanding>>
    BY <2>1 DEF Expand
  <2>3. setup.coverage = "open"
        /\ (ExclusiveOpen => work.active = Participants(work.hyps))
        /\ (Exclusive => ExclusiveOpen)
    BY <1>2, <2>2 DEF CycleMass, ExclusiveOpen
  <2>4. /\ Sound(work')
        /\ work'.active # {}
        /\ ExclusiveOpen => work'.active = Participants(work'.hyps)
    BY <1>2, <2>1, <2>2, <2>3, ExpandSound
  <2>5. CycleMass'
    BY <1>2, <2>2, <2>3, <2>4 DEF CycleMass, Rounded, ExclusiveOpen, Exclusive
  <2> QED
    BY <2>2, <2>4, <2>5, MassKept
<1>12. CASE Commit
  <2>1. belief' = work /\ phase = "commit" /\ phase' = "idle" /\ setup' = setup
    BY <1>12 DEF Commit
  <2>2. Sound(belief')
    BY <1>2, <2>1
  <2> QED
    BY <2>1, <2>2, SoundPrimed DEF MassInv
<1>13. CASE CommitRefused \/ ExpansionFails
  <2>1. phase' = "idle" /\ UNCHANGED <<setup, belief>>
    BY <1>13 DEF CommitRefused, ExpansionFails
  <2> QED
    BY <2>1, MassKept
<1>14. CASE UNCHANGED vars
  <2>1. UNCHANGED <<setup, belief, work, queue, next, phase, expanding>>
    BY <1>14 DEF vars
  <2>2. CycleMass' <=> CycleMass
    BY <2>1 DEF CycleMass, Rounded, ExclusiveOpen, Exclusive
  <2> QED
    BY <1>2, <2>1, <2>2, MassKept
<1> QED
  BY <1>3, <1>4, <1>5, <1>6, <1>7, <1>8, <1>9, <1>10, <1>11, <1>12, <1>13,
     <1>14 DEF Next, Done

(* What the invariant says of a cycle about to commit.                     *)
LEMMA CommitPasses == ASSUME IInv, MassInv PROVE RevalidationPasses
<1> SUFFICES ASSUME phase = "commit", ~Emptied(work)
             PROVE  CommitAccepted(work)
  BY DEF RevalidationPasses, Emptied
<1> DEFINE P == Participants(work.hyps)
<1>1. /\ TypeOK /\ Sound(work)
      /\ Exclusive => work.active = P
      /\ work.active = {} => P = {}
  BY DEF IInv, MassInv, CycleMass
<1>2. /\ work.hyps \in Seq(Hypothesis) /\ work.unresolved \in Nat
      /\ DOMAIN work.hyps = 1 .. Len(work.hyps)
      /\ Total \in Nat \ {0}
  BY <1>1, WorkType, Amounts
<1>3. P \subseteq 1 .. Len(work.hyps) /\ NamedMass(work.hyps, P) \in Nat
  BY <1>2, ParticipantsIn, MassType
<1>4. P = {} => ExclusiveOpen
  BY DEF Emptied
<1> HIDE DEF P
<1>5. Exclusive => NamedMass(work.hyps, P) + work.unresolved = Total
  BY <1>1 DEF Sound, Balanced, P
<1>6. work.unresolved <= Total
  BY <1>1, <1>2, <1>3, <1>5 DEF Sound, ExclusiveOpen
<1>7. \A i \in DOMAIN work.hyps : work.hyps[i].posterior <= Total
  BY <1>1, <1>2 DEF Sound
<1>8. ASSUME work.active = {}
      PROVE  ExclusiveOpen /\ work.unresolved = Total
  <2>1. P = {} /\ ExclusiveOpen /\ Exclusive
    BY <1>1, <1>4, <1>8 DEF ExclusiveOpen
  <2>2. NamedMass(work.hyps, P) = 0
    BY <2>1, SumEmpty DEF NamedMass
  <2> QED
    BY <1>2, <1>5, <2>1, <2>2
<1> QED
  BY <1>1, <1>5, <1>6, <1>7, <1>8 DEF CommitAccepted

(* In every reachable state the copies and the committed state are sound.  *)
THEOREM MassInvariance == Spec => []MassInv
<1>1. Init => MassInv
  BY InitMass
<1>2. IInv /\ MassInv /\ [Next]_vars => MassInv'
  BY NextMass
<1> QED
  BY <1>1, <1>2, Invariance, PTL DEF Spec

(* Of the states that solver, retirement, evolution and expansion leave    *)
(* behind, the revalidation at the end of integrate_cycle refuses only     *)
(* those where the last hypothesis of a frame that is not exclusive-open   *)
(* was retired.  All others it accepts: masses are probabilities, and the  *)
(* named and the unresolved mass of an exclusive frame sum to one, whatever*)
(* the grid, the priors, the events and the order of the cycles.           *)
THEOREM MassIsConserved == Spec => []RevalidationPasses
<1>1. IInv /\ MassInv => RevalidationPasses
  BY CommitPasses
<1> QED
  BY <1>1, Invariance, MassInvariance, PTL
=============================================================================
