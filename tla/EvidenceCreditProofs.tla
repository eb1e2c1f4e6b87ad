------------------------ MODULE EvidenceCreditProofs ------------------------
(***************************************************************************)
(* Theorems about the correlation credit of EvidenceMemory: the balances   *)
(* are the sums of what the accepted events have drawn.                    *)
(***************************************************************************)
EXTENDS EvidenceMemoryProofs, SumTheorems

(* A snapshot whose balances are what its accepted events have drawn; it   *)
(* holds finitely many events, so that the sum is one.                     *)
Books(mem) ==
  /\ IsFiniteSet(DOMAIN mem.events)
  /\ \A k \in CreditKeyset : mem.credit[k] = SpentOn(mem, k)

(* No two signals of a batch are planned as one integration.               *)
PlannedApart ==
  \A i, j \in 1 .. Len(queue) :
     SameIntegration(queue[i].id, queue[j].id) => i = j

(* What the copy holds beyond the memory came from the signals of this     *)
(* cycle the gate is past: the next event is a new one, and replaces none. *)
TakenSoFar ==
  \A e \in DOMAIN working.events \ DOMAIN memory.events :
     /\ phase = "gate"
     /\ \E i \in 1 .. (next - 1) : SameIntegration(e, queue[i].id)

(* The inductive invariant of the credit books.                            *)
CreditInv ==
  /\ Books(memory)
  /\ Books(working)
  /\ PlannedApart
  /\ TakenSoFar

-----------------------------------------------------------------------------
(* Planning: the occurrence number tells repeats of a batch apart.         *)

(* A later repeat of a signal counts at least one signal more.             *)
LEMMA OccurrenceGrows ==
  ASSUME NEW batch, NEW i \in Nat \ {0}, NEW j \in Nat \ {0}, i < j,
         Digest(batch[i]) = Digest(batch[j])
  PROVE  Occurrence(batch, i) # Occurrence(batch, j)
<1> DEFINE I == {k \in 1 .. i : Digest(batch[k]) = Digest(batch[i])}
           J == {k \in 1 .. j : Digest(batch[k]) = Digest(batch[j])}
<1>1. IsFiniteSet(1 .. j)
  BY FS_Interval
<1>2. IsFiniteSet(J)
  BY <1>1, FS_Subset
<1>3. I \subseteq J /\ j \in J /\ j \notin I
  OBVIOUS
<1>4. Cardinality(I) # Cardinality(J)
  <2>1. I \subseteq J /\ I # J
    BY <1>3
  <2> HIDE DEF I, J
  <2> QED
    BY <1>2, <2>1, FS_Subset
<1> QED
  BY <1>4 DEF Occurrence

(* So a plan gives every signal of a batch an integration of its own.      *)
LEMMA PlanApart ==
  ASSUME NEW c \in 1 .. MaxCycle, NEW batch \in Batches,
         NEW i \in 1 .. Len(PlanSignalEvents(c, batch)),
         NEW j \in 1 .. Len(PlanSignalEvents(c, batch)),
         SameIntegration(PlanSignalEvents(c, batch)[i].id,
                         PlanSignalEvents(c, batch)[j].id)
  PROVE  i = j
<1> DEFINE plan == PlanSignalEvents(c, batch)
<1>1. PICK n \in 1 .. MaxBatch : batch \in [1 .. n -> Arrivals]
  BY DEF Batches
<1>2. Len(batch) = n /\ n \in Nat
  BY <1>1, MemoryAssumption
<1>3. plan = [k \in 1 .. n |->
                [signal |-> batch[k],
                 id |-> [cycle |-> c, digest |-> Digest(batch[k]),
                         occurrence |-> Occurrence(batch, k),
                         part |-> "primary"]]]
  BY <1>2 DEF PlanSignalEvents
<1>4. Len(plan) = n
  BY <1>2, <1>3
<1>5. i \in 1 .. n /\ j \in 1 .. n
  BY <1>4
<1>6. /\ plan[i].id.digest = Digest(batch[i])
      /\ plan[j].id.digest = Digest(batch[j])
      /\ plan[i].id.occurrence = Occurrence(batch, i)
      /\ plan[j].id.occurrence = Occurrence(batch, j)
  BY <1>3, <1>5
<1> HIDE DEF plan
<1>7. /\ Digest(batch[i]) = Digest(batch[j])
      /\ Occurrence(batch, i) = Occurrence(batch, j)
  BY <1>6 DEF SameIntegration, plan
<1>8. i \in Nat \ {0} /\ j \in Nat \ {0}
  BY <1>2, <1>5
<1>9. ~(i < j) /\ ~(j < i)
  BY <1>7, <1>8, OccurrenceGrows
<1> QED
  BY <1>8, <1>9

-----------------------------------------------------------------------------
(* Committing: the balances and the events move together.                  *)

(* A new event adds its weight to the keys it draws on, when accepted.     *)
LEMMA CommitBalances ==
  ASSUME NEW mem, NEW s, NEW id, NEW event \in Event,
         IsSnapshot(mem), Books(mem), id \notin DOMAIN mem.events
  PROVE  Books(CommitEvent(mem, s, id, event))
<1> DEFINE new == CommitEvent(mem, s, id, event)
           D == DOMAIN mem.events
<1>1. /\ new.events = WithEvent(mem.events, id, event)
      /\ new.credit = CommitCorrelationCredit(mem.credit, event.keys,
                                              event.weight, event.reason)
  BY DEF CommitEvent
<1>2. /\ DOMAIN new.events = D \cup {id} /\ new.events[id] = event
      /\ \A e \in D : new.events[e] = mem.events[e]
  BY <1>1 DEF WithEvent
<1>3. /\ IsFiniteSet(D) /\ DOMAIN mem.credit = CreditKeyset
      /\ \A e \in D : mem.events[e] \in Event
      /\ \A k \in CreditKeyset : mem.credit[k] \in Nat
  BY DEF Books, IsSnapshot
<1>4. IsFiniteSet(D \cup {id})
  BY <1>3, FS_AddElement
<1>5. \A k \in CreditKeyset :
        new.credit[k] = IF k \in event.keys /\ event.reason = Accepted
                        THEN mem.credit[k] + event.weight ELSE mem.credit[k]
  BY <1>1, <1>3 DEF CommitCorrelationCredit
<1> HIDE DEF new
<1>6. ASSUME NEW k \in CreditKeyset
      PROVE  new.credit[k] = SpentOn(new, k)
  <2> DEFINE f == [e \in DOMAIN mem.events |-> mem.events[e].weight]
             g == [e \in DOMAIN new.events |-> new.events[e].weight]
             S == {e \in DOMAIN mem.events : /\ mem.events[e].reason = Accepted
                                             /\ k \in mem.events[e].keys}
             T == {e \in DOMAIN new.events : /\ new.events[e].reason = Accepted
                                             /\ k \in new.events[e].keys}
  <2>1. SpentOn(mem, k) = SumFunctionOnSet(f, S)
        /\ SpentOn(new, k) = SumFunctionOnSet(g, T)
    BY DEF SpentOn
  <2>2. mem.credit[k] = SumFunctionOnSet(f, S)
    BY <2>1 DEF Books
  <2>3. IsFiniteSet(S) /\ id \notin S
    BY <1>3, FS_Subset
  <2>4. \A e \in S : f[e] \in Int /\ f[e] = g[e]
    BY <1>2, <1>3 DEF Event
  <2>5. g[id] = event.weight /\ event.weight \in Nat
    BY <1>2 DEF Event
  <2>6. T = IF k \in event.keys /\ event.reason = Accepted
            THEN S \cup {id} ELSE S
    BY <1>2
  <2> HIDE DEF f, g, S, T
  <2>7. SumFunctionOnSet(g, S) = SumFunctionOnSet(f, S)
    BY <2>3, <2>4, SumAgrees
  <2>8. SumFunctionOnSet(g, S \cup {id}) = event.weight + SumFunctionOnSet(f, S)
    <3>1. \A e \in S \cup {id} : g[e] \in Int
      BY <2>4, <2>5
    <3>2. SumFunctionOnSet(g, S \cup {id}) = g[id] + SumFunctionOnSet(g, S)
      BY <2>3, <3>1, SumAdd
    <3> QED
      BY <2>5, <2>7, <3>2
  <2>9. SumFunctionOnSet(f, S) \in Nat
    BY <1>3, <2>2
  <2>10. CASE k \in event.keys /\ event.reason = Accepted
    <3>1. new.credit[k] = mem.credit[k] + event.weight
      BY <1>5, <2>10
    <3>2. SpentOn(new, k) = event.weight + SumFunctionOnSet(f, S)
      BY <2>1, <2>6, <2>8, <2>10
    <3> QED
      BY <2>2, <2>5, <2>9, <3>1, <3>2
  <2>11. CASE ~(k \in event.keys /\ event.reason = Accepted)
    <3>1. new.credit[k] = mem.credit[k]
      BY <1>5, <2>11
    <3>2. SpentOn(new, k) = SumFunctionOnSet(f, S)
      BY <2>1, <2>6, <2>7, <2>11
    <3> QED
      BY <2>2, <3>1, <3>2
  <2> QED
    BY <2>10, <2>11
<1> QED
  BY <1>2, <1>4, <1>6 DEF Books, new

-----------------------------------------------------------------------------
(* The steps of the gate keep the books.                                   *)

(* The event id of the signal in hand is new to the copy.                  *)
LEMMA CurrentIsNew ==
  ASSUME IInv, CreditInv, InGate, Current.id \notin PriorEvidenceIds
  PROVE  Current.id \notin DOMAIN working.events
<1> SUFFICES ASSUME Current.id \in DOMAIN working.events PROVE FALSE
  OBVIOUS
<1>1. Current.id \in DOMAIN working.events \ DOMAIN memory.events
  BY DEF PriorEvidenceIds
<1>2. PICK i \in 1 .. (next - 1) : SameIntegration(Current.id, queue[i].id)
  BY <1>1 DEF CreditInv, TakenSoFar
<1>3. next \in 1 .. Len(queue) /\ Len(queue) \in Nat
  BY DEF IInv, TypeOK, InGate
<1>4. i \in 1 .. Len(queue) /\ i # next
  BY <1>2, <1>3
<1>5. SameIntegration(queue[next].id, queue[i].id)
  BY <1>2 DEF Current
<1> QED
  BY <1>3, <1>4, <1>5 DEF CreditInv, PlannedApart

(* What a step of the gate has to add to keep the books: events of the     *)
(* integration in hand only.                                               *)
LEMMA GateBooks ==
  ASSUME IInv, CreditInv, InGate, Books(working'),
         \A e \in DOMAIN working'.events \ DOMAIN working.events :
            SameIntegration(e, Current.id)
  PROVE  CreditInv'
<1>1. /\ phase = "gate" /\ phase' = "gate" /\ next' = next + 1
      /\ UNCHANGED <<memory, queue>>
  BY DEF InGate
<1>2. next \in Nat /\ next > 0
  BY DEF IInv, TypeOK
<1>3. Books(memory)' /\ Books(working)' /\ PlannedApart'
  BY <1>1 DEF CreditInv, PlannedApart
<1>4. ASSUME NEW e \in DOMAIN working'.events \ DOMAIN memory'.events
      PROVE  \E i \in 1 .. (next' - 1) : SameIntegration(e, queue'[i].id)
  <2>1. CASE e \in DOMAIN working.events
    <3>1. e \in DOMAIN working.events \ DOMAIN memory.events
      BY <1>1, <1>4, <2>1
    <3>2. PICK i \in 1 .. (next - 1) : SameIntegration(e, queue[i].id)
      BY <3>1 DEF CreditInv, TakenSoFar
    <3>3. i \in 1 .. (next' - 1)
      BY <1>1, <1>2
    <3> QED
      BY <1>1, <3>2, <3>3
  <2>2. CASE e \notin DOMAIN working.events
    <3>1. SameIntegration(e, queue[next].id)
      BY <1>4, <2>2 DEF Current
    <3>2. next \in 1 .. (next' - 1)
      BY <1>1, <1>2
    <3> QED
      BY <1>1, <3>1, <3>2
  <2> QED
    BY <2>1, <2>2
<1>5. TakenSoFar'
  BY <1>1, <1>4 DEF TakenSoFar
<1> QED
  BY <1>3, <1>5 DEF CreditInv

(* One event of the signal in hand.                                        *)
LEMMA GateBooksEvent ==
  ASSUME IInv, CreditInv, InGate, Current.id \notin PriorEvidenceIds,
         NEW event \in Event,
         working' = CommitEvent(working, Current.signal, Current.id, event)
  PROVE  CreditInv'
<1> DEFINE s == Current.signal
           id == Current.id
<1>1. id \notin DOMAIN working.events
  BY CurrentIsNew
<1>2. IsSnapshot(working) /\ Books(working)
  BY DEF IInv, TypeOK, CreditInv
<1>3. DOMAIN working'.events = DOMAIN working.events \cup {id}
  BY DEF CommitEvent, WithEvent
<1> HIDE DEF s, id
<1>4. Books(working')
  BY <1>1, <1>2, CommitBalances DEF s, id
<1>5. SameIntegration(id, id)
  BY DEF SameIntegration
<1> QED
  BY <1>3, <1>4, <1>5, GateBooks DEF id

(* A replay changes no event and no balance.                               *)
LEMMA ReplayBooks ==
  ASSUME IInv, CreditInv, GateReplay
  PROVE  CreditInv'
<1>1. InGate /\ DOMAIN working = {"ident", "credit", "events"}
  BY DEF GateReplay, IInv, TypeOK, IsSnapshot
<1>2. working'.credit = working.credit /\ working'.events = working.events
  BY <1>1 DEF GateReplay
<1>3. Books(working')
  <2>1. Books(working)
    BY DEF CreditInv
  <2> QED
    BY <1>2, <2>1 DEF Books, SpentOn
<1> QED
  BY <1>1, <1>2, <1>3, GateBooks

(* A projection commits its own event and, when it claims a source, a      *)
(* second one that draws on no key.                                        *)
LEMMA ProjectionBooks ==
  ASSUME IInv, CreditInv, NEW endorsed \in {{h} : h \in Hypotheses} \cup {{}},
         NEW base \in Qualities, NEW claimBase \in Qualities,
         NEW w \in 0 .. base, GateProjection(endorsed, base, w, claimBase)
  PROVE  CreditInv'
<1> DEFINE s == Current.signal
           id == Current.id
           status == CorrelationStatus(working.ident, s)
           likelihoods == [t \in Targets |->
                             IF t \in endorsed THEN "confirming" ELSE "neutral"]
           keys == CreditKeys(CanonicalGroup(working.ident, s), likelihoods, frame)
           first == EventOf(s, status, w, DiscardReason(status, keys, w), keys)
           sender == CommitEvent(working, s, id, first)
           claimWeight == IF status = "correlated_restatement" THEN 0 ELSE claimBase
           claim == EventOf(s, status, claimWeight, Accepted, {})
           claimId == SourceClaimId(id)
           new == CommitEvent(sender, s, claimId, claim)
<1>1. /\ InGate /\ id \notin PriorEvidenceIds /\ status # "duplicate_exact"
      /\ IsEffectiveWeight(w, status, working.credit, keys, base)
      /\ working' = IF s.kind = "sender" THEN sender ELSE new
      /\ base \in Nat /\ claimBase \in Nat
  BY MemoryAssumption DEF GateProjection
<1>2. /\ s \in Signal /\ id \in EventIds /\ id.digest = Digest(s)
      /\ id.part = "primary" /\ IsSnapshot(working) /\ Sound(working)
      /\ Books(working)
  BY <1>1, CurrentType DEF IInv, TypeOK, InGate, CreditInv
<1>3. likelihoods \in [Targets -> Bands]
  BY DEF Bands
<1>4. first \in Event
  <2> HIDE DEF likelihoods
  <2>1. Takes(working, s, id, first)
    BY <1>1, <1>3, JudgmentTakes
  <2> QED
    BY <2>1 DEF Takes
<1>5. CASE s.kind = "sender"
  <2> HIDE DEF first
  <2> QED
    BY <1>1, <1>4, <1>5, GateBooksEvent
<1>6. CASE s.kind # "sender"
  <2>1. id \notin DOMAIN working.events
    BY <1>1, CurrentIsNew
  <2>2. DOMAIN sender.events = DOMAIN working.events \cup {id}
    BY DEF CommitEvent, WithEvent
  <2>3. claimId # id /\ claimId.digest = id.digest /\ SameIntegration(claimId, id)
    <3> HIDE DEF id
    <3> QED
      BY <1>2 DEF SourceClaimId, EventIds, SameIntegration
  <2>4. /\ status \in Statuses
        /\ \A e \in DOMAIN working.events : e.digest # id.digest
    <3> HIDE DEF s, id
    <3> QED
      BY <1>1, <1>2, StatusSpeaks DEF Sound, IsSnapshot
  <2>5. claimId \notin DOMAIN sender.events
    BY <2>2, <2>3, <2>4
  <2>6. claim \in Event
    <3> HIDE DEF s, status
    <3> QED
      BY <1>1, <1>2, <2>4 DEF EventOf, Event, Signal, Reasons
  <2>7. IsSnapshot(sender) /\ Books(sender)
    <3>1. Books(sender)
      <4> HIDE DEF s, id, first
      <4> QED
        BY <1>2, <1>4, <2>1, CommitBalances
    <3>2. IsSnapshot(sender)
      <4>1. /\ IsSnapshot(memory) /\ Extends(memory, working)
            /\ Admissible(working.ident, s)
            /\ [id EXCEPT !.part = "primary"] = id
        BY <1>1, CurrentType DEF IInv, TypeOK, InGate
      <4>2. Takes(working, s, id, first)
        <5> HIDE DEF likelihoods
        <5> QED
          BY <1>1, <1>3, JudgmentTakes
      <4> HIDE DEF s, id, first
      <4> QED
        BY <1>1, <1>2, <4>1, <4>2, CommitFits
    <3> QED
      BY <3>1, <3>2
  <2>8. DOMAIN new.events = DOMAIN sender.events \cup {claimId}
    <3> HIDE DEF sender, claim, claimId
    <3> QED
      BY DEF CommitEvent, WithEvent
  <2>9. Books(new)
    <3> HIDE DEF s, sender, claim, claimId
    <3> QED
      BY <2>5, <2>6, <2>7, CommitBalances
  <2>10. working' = new
    BY <1>1, <1>6
  <2>11. SameIntegration(id, id)
    BY DEF SameIntegration
  <2> HIDE DEF new, sender, claim, claimId
  <2>12. \A e \in DOMAIN working'.events \ DOMAIN working.events :
           SameIntegration(e, id)
    BY <2>2, <2>3, <2>8, <2>10, <2>11
  <2> QED
    BY <1>1, <2>9, <2>10, <2>12, GateBooks
<1> QED
  BY <1>5, <1>6

-----------------------------------------------------------------------------
LEMMA InitBooks == Init => CreditInv
<1> SUFFICES ASSUME Init PROVE CreditInv
  OBVIOUS
<1>1. memory = EmptyMemory /\ working = EmptyMemory /\ Len(queue) = 0
  BY DEF Init
<1>2. /\ DOMAIN EmptyMemory.events = {}
      /\ \A k \in CreditKeyset : EmptyMemory.credit[k] = 0
  BY DEF EmptyMemory
<1> HIDE DEF EmptyMemory
<1>3. \A k \in CreditKeyset : SpentOn(EmptyMemory, k) = 0
  <2> TAKE k \in CreditKeyset
  <2> DEFINE f == [e \in DOMAIN EmptyMemory.events |-> EmptyMemory.events[e].weight]
             S == {e \in DOMAIN EmptyMemory.events :
                     /\ EmptyMemory.events[e].reason = Accepted
                     /\ k \in EmptyMemory.events[e].keys}
  <2>1. S = {}
    BY <1>2
  <2>2. SpentOn(EmptyMemory, k) = SumFunctionOnSet(f, S)
    BY DEF SpentOn
  <2> HIDE DEF f, S
  <2> QED
    BY <2>1, <2>2, SumEmpty
<1>4. Books(EmptyMemory)
  BY <1>2, <1>3, FS_EmptySet DEF Books
<1>5. PlannedApart
  BY <1>1 DEF PlannedApart
<1>6. TakenSoFar
  BY <1>1 DEF TakenSoFar
<1> QED
  BY <1>1, <1>4, <1>5, <1>6 DEF CreditInv

(* Between cycles the copy is the memory, and nothing is planned.          *)
LEMMA OverBooks ==
  ASSUME Books(memory'), working' = memory', queue' = <<>>
  PROVE  CreditInv'
<1>1. Len(queue') = 0
  OBVIOUS
<1> QED
  BY <1>1 DEF CreditInv, PlannedApart, TakenSoFar

LEMMA NextBooks ==
  ASSUME IInv, PreflightInv, CreditInv, [Next]_vars
  PROVE  CreditInv'
<1>1. ASSUME NEW c \in 1 .. MaxCycle, NEW batch \in Batches, BeginCycle(c, batch)
      PROVE  CreditInv'
  <2> DEFINE plan == PlanSignalEvents(c, batch)
  <2>1. /\ phase = "idle" /\ queue' = plan /\ UNCHANGED <<memory, working>>
    BY <1>1 DEF BeginCycle
  <2>2. working = memory
    BY <2>1 DEF PreflightInv, Copies
  <2>3. \A i, j \in 1 .. Len(plan) :
          SameIntegration(plan[i].id, plan[j].id) => i = j
    BY PlanApart
  <2> HIDE DEF plan
  <2>4. PlannedApart'
    BY <2>1, <2>3 DEF PlannedApart
  <2>5. TakenSoFar'
    BY <2>1, <2>2 DEF TakenSoFar
  <2> QED
    BY <2>1, <2>4, <2>5 DEF CreditInv
<1>2. CASE PreflightSignal \/ PreflightDone
  <2>1. phase = "preflight" /\ UNCHANGED <<memory, working, queue>>
    BY <1>2 DEF PreflightSignal, PreflightDone
  <2>2. working = memory
    BY <2>1 DEF PreflightInv, Copies
  <2> QED
    BY <2>1, <2>2 DEF CreditInv, PlannedApart, TakenSoFar
<1>3. CASE Refuse \/ IntegrationFails
  <2>1. memory' = memory /\ working' = memory /\ queue' = <<>>
    BY <1>3 DEF Refuse, IntegrationFails, DropCycle
  <2> QED
    BY <2>1, OverBooks DEF CreditInv
<1>4. CASE GateReplay
  BY <1>4, ReplayBooks
<1>5. CASE GateDuplicate
  <2>1. Takes(working, Current.signal, Current.id,
              EventOf(Current.signal, "duplicate_exact", 0, "duplicate_exact", {}))
    BY <1>5, NeutralTakes DEF GateDuplicate, Statuses, Reasons, Accepted
  <2> QED
    BY <1>5, <2>1, GateBooksEvent DEF GateDuplicate, Takes
<1>6. ASSUME NEW likelihoods \in Judgments, NEW base \in Qualities,
             NEW w \in 0 .. base, GateJudge(likelihoods, base, w)
      PROVE  CreditInv'
  <2> DEFINE status == CorrelationStatus(working.ident, Current.signal)
             keys == CreditKeys(CanonicalGroup(working.ident, Current.signal),
                                likelihoods, frame)
             event == EventOf(Current.signal, status, w,
                              DiscardReason(status, keys, w), keys)
  <2>1. /\ InGate /\ Current.id \notin PriorEvidenceIds
        /\ status # "duplicate_exact"
        /\ IsEffectiveWeight(w, status, working.credit, keys, base)
        /\ working' = CommitEvent(working, Current.signal, Current.id, event)
        /\ base \in Nat /\ likelihoods \in [Targets -> Bands]
    BY <1>6, MemoryAssumption DEF GateJudge, JudgedEvent
  <2>2. Takes(working, Current.signal, Current.id, event)
    BY <2>1, JudgmentTakes
  <2> HIDE DEF event
  <2> QED
    BY <2>1, <2>2, GateBooksEvent DEF Takes
<1>7. CASE GateSchemaViolation
  <2> DEFINE status == CorrelationStatus(working.ident, Current.signal)
             event == EventOf(Current.signal, status, 0, "schema_violation", {})
  <2>1. /\ InGate /\ Current.id \notin PriorEvidenceIds
        /\ working' = CommitEvent(working, Current.signal, Current.id, event)
    BY <1>7 DEF GateSchemaViolation
  <2>2. status \in Statuses
    BY DEF CorrelationStatus, Statuses
  <2>3. Takes(working, Current.signal, Current.id, event)
    BY <2>1, <2>2, NeutralTakes DEF Reasons, Accepted
  <2> HIDE DEF event
  <2> QED
    BY <2>1, <2>3, GateBooksEvent DEF Takes
<1>8. ASSUME NEW endorsed \in {{h} : h \in Hypotheses} \cup {{}},
             NEW base \in Qualities, NEW claimBase \in Qualities,
             NEW w \in 0 .. base, GateProjection(endorsed, base, w, claimBase)
      PROVE  CreditInv'
  BY <1>8, ProjectionBooks
<1>9. CASE CommitCycle
  <2>1. memory' = working /\ working' = working /\ queue' = <<>>
    BY <1>9 DEF CommitCycle
  <2> QED
    BY <2>1, OverBooks DEF CreditInv
<1>10. CASE UNCHANGED vars
  BY <1>10 DEF vars, CreditInv, PlannedApart, TakenSoFar
<1> QED
  BY <1>1, <1>2, <1>3, <1>4, <1>5, <1>6, <1>7, <1>8, <1>9, <1>10 DEF Next

(* In every snapshot of the memory and of the gate's copy the balance of   *)
(* a credit key is the sum of what accepted events drew on it.             *)
THEOREM BooksBalance == Spec => []CreditInv
<1>1. IInv /\ PreflightInv /\ CreditInv /\ [Next]_vars => CreditInv'
  BY NextBooks
<1> QED
  BY <1>1, InitBooks, Invariance, GateRetracesPreflight, PTL DEF Spec

(* The credit the belief state has spent is the weight its accepted events *)
(* moved, over any number of cycles, replays and refused batches.          *)
THEOREM CreditSpentIsWeight == Spec => []CreditIsSpentWeight
<1>1. CreditInv => CreditIsSpentWeight
  BY DEF CreditInv, Books, CreditIsSpentWeight
<1> QED
  BY <1>1, BooksBalance, PTL
=============================================================================
