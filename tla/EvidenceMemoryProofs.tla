------------------------ MODULE EvidenceMemoryProofs ------------------------
(***************************************************************************)
(* Theorems about EvidenceMemory, for every set of signals and judgments   *)
(* and every cap.                                                          *)
(***************************************************************************)
EXTENDS EvidenceMemory, FiniteSetTheorems, SequenceTheorems, TLAPS

(* Every event's identity is a remembered one: this is what lets the       *)
(* classification by identities speak about the events already taken.      *)
EventsKnown(mem) ==
  \A e \in DOMAIN mem.events :
     /\ \E i \in DOMAIN mem.ident : Digest(mem.ident[i]) = e.digest
     /\ mem.events[e].root = e.digest[3]
     /\ mem.events[e].weight > 0 => mem.events[e].parents = {}

(* The second event of a projection never comes without the first.         *)
ClaimsFollow(mem) ==
  \A e \in DOMAIN mem.events :
     [e EXCEPT !.part = "primary"] \in DOMAIN mem.events

Sound(mem) ==
  /\ WithinCap(mem)
  /\ GroupsFunctional(mem.ident)
  /\ EventsKnown(mem)
  /\ ClaimsFollow(mem)
  /\ Accumulates(mem.events)
  /\ RepeatsDiscarded(mem.events)

(* The inductive invariant; a cycle in the making has a signal to plan.    *)
IInv ==
  /\ phase # "idle" => Len(queue) > 0
  /\ TypeOK
  /\ Sound(memory)
  /\ Sound(working)
  /\ GroupsFunctional(shadow)
  /\ Extends(memory, working)

-----------------------------------------------------------------------------
(* Remembering an admissible signal keeps an identity map well formed, one *)
(* group per source and root, and rewrites nothing.                        *)
LEMMA RememberKeepsIdentities ==
  ASSUME NEW ident, NEW s \in Signal,
         DOMAIN ident \subseteq SignalIds,
         \A i \in DOMAIN ident : ident[i] \in Identity,
         GroupsFunctional(ident), Admissible(ident, s)
  PROVE  LET new == RememberSignalIdentity(ident, s) IN
         /\ DOMAIN new = DOMAIN ident \cup {s.id}
         /\ DOMAIN new \subseteq SignalIds
         /\ \A i \in DOMAIN new : new[i] \in Identity
         /\ \A i \in DOMAIN ident : new[i] = ident[i]
         /\ Digest(new[s.id]) = Digest(s)
         /\ GroupsFunctional(new)
<1> DEFINE new == RememberSignalIdentity(ident, s)
           g == CanonicalGroup(ident, s)
           own == [source |-> s.source, content |-> s.content, root |-> s.root,
                   group |-> g, supplied |-> s.group]
<1>1. /\ DOMAIN new = DOMAIN ident \cup {s.id}
      /\ new[s.id] = own
      /\ \A i \in DOMAIN ident : i # s.id => new[i] = ident[i]
  BY DEF RememberSignalIdentity
<1>2. s.id \in SignalIds /\ s.source \in Sources /\ s.content \in Contents
      /\ s.root \in Roots /\ s.group \in Groups
  BY DEF Signal
<1>3. KnownGroups(ident, s) \subseteq Groups
  BY DEF KnownGroups, Identity
<1>4. \A h \in KnownGroups(ident, s) : h = g
  BY DEF CanonicalGroup, Admissible, GroupsAgree
<1>5. g \in Groups
  BY <1>2, <1>3, <1>4 DEF CanonicalGroup
<1>6. own \in Identity
  BY <1>2, <1>5 DEF Identity
<1>7. \A i \in DOMAIN ident :
        (ident[i].root = s.root \/ ident[i].source = s.source)
           => ident[i].group = g
  BY <1>4 DEF KnownGroups
<1>8. ASSUME s.id \in DOMAIN ident PROVE ident[s.id] = own
  <2>1. /\ Digest(ident[s.id]) = Digest(s)
        /\ ident[s.id].supplied = s.group
    BY <1>8 DEF Admissible, LineageKept
  <2>2. /\ ident[s.id].source = s.source
        /\ ident[s.id].content = s.content
        /\ ident[s.id].root = s.root
    BY <2>1 DEF Digest
  <2>3. ident[s.id].group = g
    BY <1>7, <1>8, <2>2
  <2>4. ident[s.id] \in Identity
    BY <1>8
  <2> QED
    BY <2>1, <2>2, <2>3, <2>4, <1>6 DEF Identity
<1>9. \A i \in DOMAIN ident : new[i] = ident[i]
  BY <1>1, <1>8
<1>10. Digest(new[s.id]) = Digest(s)
  BY <1>1 DEF Digest
<1>11. GroupsFunctional(new)
  <2> SUFFICES ASSUME NEW i \in DOMAIN new, NEW j \in DOMAIN new,
                      new[i].source = new[j].source \/ new[i].root = new[j].root
               PROVE  new[i].group = new[j].group
    BY DEF GroupsFunctional
  <2>1. CASE i # s.id /\ j # s.id
    BY <2>1, <1>1 DEF GroupsFunctional
  <2>2. CASE i = s.id /\ j # s.id
    BY <2>2, <1>1, <1>7
  <2>3. CASE i # s.id /\ j = s.id
    BY <2>3, <1>1, <1>7
  <2>4. CASE i = s.id /\ j = s.id
    BY <2>4
  <2> QED
    BY <2>1, <2>2, <2>3, <2>4
<1>12. /\ DOMAIN new \subseteq SignalIds
       /\ \A i \in DOMAIN new : new[i] \in Identity
  BY <1>1, <1>2, <1>6
<1> QED
  BY <1>1, <1>9, <1>10, <1>11, <1>12

-----------------------------------------------------------------------------
(* What the classification promises of an event it is about to take, in    *)
(* terms of the events already taken.                                      *)
Takes(mem, s, id, event) ==
  /\ event \in Event
  /\ event.root = s.root /\ event.parents = s.parents
  /\ event.weight > 0 =>
       /\ s.parents = {}
       /\ \A e \in DOMAIN mem.events :
            mem.events[e].weight > 0 /\ ~SameIntegration(e, id)
              => mem.events[e].root # s.root
  /\ event.reason = Accepted =>
       \A e \in DOMAIN mem.events :
          mem.events[e].reason = Accepted /\ e.digest = id.digest
             => SameIntegration(e, id)
  /\ event.reason = Accepted =>
       \A k \in event.keys : mem.credit[k] + event.weight <= Cap

(* Committing such an event keeps the memory well formed and sound, and    *)
(* extends it.                                                             *)
LEMMA CommitKeepsSound ==
  ASSUME NEW mem, NEW s \in Signal, NEW id \in EventIds, NEW event,
         IsSnapshot(mem), Sound(mem), Admissible(mem.ident, s),
         Takes(mem, s, id, event), id.digest = Digest(s),
         [id EXCEPT !.part = "primary"] \in DOMAIN mem.events \cup {id}
  PROVE  LET new == CommitEvent(mem, s, id, event) IN
         /\ IsSnapshot(new)
         /\ Sound(new)
         /\ \A i \in DOMAIN mem.ident :
              i \in DOMAIN new.ident /\ new.ident[i] = mem.ident[i]
         /\ DOMAIN new.events = DOMAIN mem.events \cup {id}
         /\ \A e \in DOMAIN mem.events : e # id => new.events[e] = mem.events[e]
         /\ new.events[id] = event
         /\ \A k \in CreditKeyset : new.credit[k] >= mem.credit[k]
<1> DEFINE new == CommitEvent(mem, s, id, event)
<1>1. /\ new.ident = RememberSignalIdentity(mem.ident, s)
      /\ new.credit = CommitCorrelationCredit(mem.credit, event.keys,
                                              event.weight, event.reason)
      /\ new.events = WithEvent(mem.events, id, event)
      /\ DOMAIN new = {"ident", "credit", "events"}
  BY DEF CommitEvent
<1>2. /\ DOMAIN new.ident = DOMAIN mem.ident \cup {s.id}
      /\ DOMAIN new.ident \subseteq SignalIds
      /\ \A i \in DOMAIN new.ident : new.ident[i] \in Identity
      /\ \A i \in DOMAIN mem.ident : new.ident[i] = mem.ident[i]
      /\ Digest(new.ident[s.id]) = Digest(s)
      /\ GroupsFunctional(new.ident)
  <2> DEFINE ident == RememberSignalIdentity(mem.ident, s)
  <2>1. /\ DOMAIN mem.ident \subseteq SignalIds
        /\ \A i \in DOMAIN mem.ident : mem.ident[i] \in Identity
        /\ GroupsFunctional(mem.ident)
    BY DEF IsSnapshot, Sound
  <2>2. /\ DOMAIN ident = DOMAIN mem.ident \cup {s.id}
        /\ DOMAIN ident \subseteq SignalIds
        /\ \A i \in DOMAIN ident : ident[i] \in Identity
        /\ \A i \in DOMAIN mem.ident : ident[i] = mem.ident[i]
        /\ Digest(ident[s.id]) = Digest(s)
        /\ GroupsFunctional(ident)
    BY <2>1, RememberKeepsIdentities
  <2>3. new.ident = ident
    BY <1>1
  <2> HIDE DEF ident, new
  <2> QED
    BY <2>2, <2>3
<1>3. /\ DOMAIN new.events = DOMAIN mem.events \cup {id}
      /\ new.events[id] = event
      /\ \A e \in DOMAIN mem.events : e # id => new.events[e] = mem.events[e]
  BY <1>1 DEF WithEvent
<1>4. event.weight \in Nat /\ event \in Event
  BY DEF Takes, Event
<1>5. /\ DOMAIN new.credit = CreditKeyset
      /\ \A k \in CreditKeyset : /\ new.credit[k] \in Nat
                                 /\ new.credit[k] >= mem.credit[k]
                                 /\ new.credit[k] <= Cap
  <2>1. /\ DOMAIN mem.credit = CreditKeyset
        /\ \A k \in CreditKeyset : mem.credit[k] \in Nat /\ mem.credit[k] <= Cap
    BY DEF IsSnapshot, Sound, WithinCap
  <2>2. \A k \in CreditKeyset :
          new.credit[k] = IF k \in event.keys /\ event.reason = Accepted
                          THEN mem.credit[k] + event.weight ELSE mem.credit[k]
    BY <1>1, <2>1 DEF CommitCorrelationCredit
  <2>3. DOMAIN new.credit = CreditKeyset
    BY <1>1, <2>1 DEF CommitCorrelationCredit
  <2>4. event.reason = Accepted =>
          \A k \in event.keys : mem.credit[k] + event.weight <= Cap
    BY DEF Takes
  <2> QED
    BY <2>1, <2>2, <2>3, <2>4, <1>4
<1>6. IsSnapshot(new)
  BY <1>1, <1>2, <1>3, <1>4, <1>5 DEF IsSnapshot
<1>7. EventsKnown(new)
  <2> SUFFICES ASSUME NEW e \in DOMAIN new.events
               PROVE  /\ \E i \in DOMAIN new.ident : Digest(new.ident[i]) = e.digest
                      /\ new.events[e].root = e.digest[3]
                      /\ new.events[e].weight > 0 => new.events[e].parents = {}
    BY DEF EventsKnown
  <2>1. CASE e = id
    <3>1. Digest(new.ident[s.id]) = e.digest /\ s.id \in DOMAIN new.ident
      BY <2>1, <1>2
    <3>2. event.root = e.digest[3]
      BY <2>1 DEF Takes, Digest
    <3> QED
      BY <2>1, <3>1, <3>2, <1>3 DEF Takes
  <2>2. CASE e # id
    <3>1. e \in DOMAIN mem.events /\ new.events[e] = mem.events[e]
      BY <2>2, <1>3
    <3>2. PICK i \in DOMAIN mem.ident : Digest(mem.ident[i]) = e.digest
      BY <3>1 DEF Sound, EventsKnown
    <3>3. Digest(new.ident[i]) = e.digest /\ i \in DOMAIN new.ident
      BY <3>2, <1>2
    <3> QED
      BY <3>1, <3>3 DEF Sound, EventsKnown
  <2> QED
    BY <2>1, <2>2
<1>8. ClaimsFollow(new)
  BY <1>3 DEF Sound, ClaimsFollow
<1>9. Accumulates(new.events)
  <2> SUFFICES ASSUME NEW d \in DOMAIN new.events, NEW e \in DOMAIN new.events,
                      new.events[d].weight > 0, new.events[e].weight > 0,
                      ~SameIntegration(d, e)
               PROVE  Independent(new.events[d], new.events[e])
    BY DEF Accumulates
  <2>1. new.events[d].parents = {} /\ new.events[e].parents = {}
    BY <1>7 DEF EventsKnown
  <2>2. new.events[d].root # new.events[e].root
    <3>1. CASE d # id /\ e # id
      BY <3>1, <1>3 DEF Sound, Accumulates, Independent
    <3>2. CASE d = id /\ e # id
      BY <3>2, <1>3 DEF Takes, SameIntegration
    <3>3. CASE d # id /\ e = id
      BY <3>3, <1>3 DEF Takes, SameIntegration
    <3>4. CASE d = id /\ e = id
      BY <3>4 DEF SameIntegration
    <3> QED
      BY <3>1, <3>2, <3>3, <3>4
  <2> QED
    BY <2>1, <2>2 DEF Independent
<1>10. RepeatsDiscarded(new.events)
  <2> SUFFICES ASSUME NEW d \in DOMAIN new.events, NEW e \in DOMAIN new.events,
                      d.digest = e.digest,
                      new.events[d].reason = Accepted,
                      new.events[e].reason = Accepted
               PROVE  SameIntegration(d, e)
    BY DEF RepeatsDiscarded
  <2>1. CASE d # id /\ e # id
    BY <2>1, <1>3 DEF Sound, RepeatsDiscarded
  <2>2. CASE d = id /\ e # id
    BY <2>2, <1>3 DEF Takes, SameIntegration
  <2>3. CASE d # id /\ e = id
    BY <2>3, <1>3 DEF Takes
  <2>4. CASE d = id /\ e = id
    BY <2>4 DEF SameIntegration
  <2> QED
    BY <2>1, <2>2, <2>3, <2>4
<1>11. WithinCap(new)
  BY <1>5 DEF WithinCap
<1> QED
  BY <1>2, <1>3, <1>5, <1>6, <1>7, <1>8, <1>9, <1>10, <1>11 DEF Sound
-----------------------------------------------------------------------------
(* The numbering of repeats stays within the batch.                        *)
LEMMA OccurrenceType ==
  ASSUME NEW batch, NEW n \in Nat, NEW i \in 1 .. n
  PROVE  Occurrence(batch, i) \in 1 .. n
<1> DEFINE J == {j \in 1 .. i : Digest(batch[j]) = Digest(batch[i])}
<1>1. IsFiniteSet(1 .. i) /\ Cardinality(1 .. i) = i
  BY FS_Interval
<1>2. IsFiniteSet(J) /\ Cardinality(J) <= i
  BY <1>1, FS_Subset
<1>3. Cardinality(J) \in Nat
  BY <1>2, FS_CardinalityType
<1>4. i \in J
  OBVIOUS
<1>5. Cardinality(J) # 0
  BY <1>2, <1>4, FS_EmptySet
<1> QED
  BY <1>2, <1>3, <1>5 DEF Occurrence

(* Planned events belong to their signals, and carry ids of the cycle.     *)
LEMMA PlanType ==
  ASSUME NEW c \in 1 .. MaxCycle, NEW batch \in Batches
  PROVE  LET plan == PlanSignalEvents(c, batch) IN
         /\ plan \in Seq([signal: Arrivals, id: EventIds])
         /\ Len(plan) > 0
         /\ \A i \in DOMAIN plan : /\ plan[i].id.digest = Digest(plan[i].signal)
                                   /\ plan[i].id.part = "primary"
<1> DEFINE plan == PlanSignalEvents(c, batch)
<1>1. PICK n \in 1 .. MaxBatch : batch \in [1 .. n -> Arrivals]
  BY DEF Batches
<1>2. Len(batch) = n /\ n \in Nat /\ n <= MaxBatch /\ MaxBatch \in Nat
  BY <1>1, MemoryAssumption
<1>3. ASSUME NEW i \in 1 .. n
      PROVE  /\ plan[i] \in [signal: Arrivals, id: EventIds]
             /\ plan[i].id.digest = Digest(plan[i].signal)
             /\ plan[i].id.part = "primary"
  <2>1. batch[i] \in Arrivals /\ batch[i] \in Signal
    BY <1>1, MemoryAssumption
  <2>2. Digest(batch[i]) \in Digests
    BY <2>1 DEF Digest, Digests, Signal
  <2>3. Occurrence(batch, i) \in 1 .. n
    BY <1>2, OccurrenceType
  <2>4. Occurrence(batch, i) \in 1 .. MaxBatch
    BY <2>3, <1>2
  <2>5. plan[i] = [signal |-> batch[i],
                   id |-> [cycle |-> c, digest |-> Digest(batch[i]),
                           occurrence |-> Occurrence(batch, i),
                           part |-> "primary"]]
    BY <1>2 DEF PlanSignalEvents
  <2> QED
    BY <2>1, <2>2, <2>4, <2>5 DEF EventIds
<1>4. DOMAIN plan = 1 .. n
  BY <1>2 DEF PlanSignalEvents
<1>5. plan = [i \in 1 .. n |-> plan[i]]
  BY <1>2 DEF PlanSignalEvents
<1>6. plan \in Seq([signal: Arrivals, id: EventIds])
  <2> DEFINE Planned == [signal: Arrivals, id: EventIds]
  <2>1. plan \in [1 .. n -> Planned]
    BY <1>3, <1>5
  <2>2. n \in Nat
    BY <1>2
  <2> HIDE DEF plan, Planned
  <2>3. plan \in Seq(Planned)
    BY <2>1, <2>2, SeqDef
  <2> QED
    BY <2>3 DEF Planned
<1>7. Len(plan) = n
  BY <1>4, <1>2
<1> QED
  BY <1>1, <1>3, <1>4, <1>6, <1>7, <1>2
-----------------------------------------------------------------------------
(* The credit keys of a judgment are keys of its frame version.            *)
LEMMA CreditKeysType ==
  ASSUME NEW g \in Groups, NEW likelihoods \in [Targets -> Bands],
         NEW version \in 1 .. MaxFrame
  PROVE  CreditKeys(g, likelihoods, version) \subseteq CreditKeyset
<1> SUFFICES ASSUME NEW t \in Targets, likelihoods[t] # "neutral"
             PROVE  <<g, CreditTarget(t, version), likelihoods[t]>> \in CreditKeyset
  BY DEF CreditKeys
<1>1. likelihoods[t] \in {"confirming", "disconfirming"}
  BY DEF Bands
<1>2. CreditTarget(t, version) \in Targets \X (0 .. MaxFrame)
  BY MemoryAssumption DEF CreditTarget
<1> QED
  BY <1>1, <1>2 DEF CreditKeyset

LEMMA GroupType ==
  ASSUME NEW ident, NEW s \in Signal,
         \A i \in DOMAIN ident : ident[i] \in Identity
  PROVE  CanonicalGroup(ident, s) \in Groups
<1>1. KnownGroups(ident, s) \subseteq Groups
  BY DEF KnownGroups, Identity
<1> QED
  BY <1>1 DEF CanonicalGroup, Signal

(* What a status other than an exact repeat says of the events taken.      *)
LEMMA StatusSpeaks ==
  ASSUME NEW mem, NEW s \in Signal, NEW id \in EventIds,
         EventsKnown(mem), id.digest = Digest(s),
         CorrelationStatus(mem.ident, s) # "duplicate_exact"
  PROVE  /\ CorrelationStatus(mem.ident, s) \in Statuses
         /\ \A e \in DOMAIN mem.events : e.digest # id.digest
         /\ CorrelationStatus(mem.ident, s) # "correlated_restatement" =>
              /\ s.parents = {}
              /\ \A e \in DOMAIN mem.events : mem.events[e].root # s.root
<1>1. ~ \E i \in DOMAIN mem.ident : Digest(mem.ident[i]) = Digest(s)
  BY DEF CorrelationStatus, ExactRepeat
<1>2. CorrelationStatus(mem.ident, s) \in Statuses
  BY DEF CorrelationStatus, Statuses
<1>3. CorrelationStatus(mem.ident, s) # "correlated_restatement" =>
        /\ s.parents = {}
        /\ \A i \in DOMAIN mem.ident : mem.ident[i].root # s.root
  <2>1. ASSUME CorrelationStatus(mem.ident, s) # "correlated_restatement"
        PROVE  ~ (SameRoot(mem.ident, s) \/ s.parents # {})
    BY <2>1 DEF CorrelationStatus
  <2> QED
    BY <2>1 DEF SameRoot
<1>4. ASSUME NEW e \in DOMAIN mem.events PROVE e.digest # id.digest
  BY <1>1 DEF EventsKnown
<1>5. ASSUME NEW e \in DOMAIN mem.events,
             \A i \in DOMAIN mem.ident : mem.ident[i].root # s.root
      PROVE  mem.events[e].root # s.root
  <2>1. PICK i \in DOMAIN mem.ident : Digest(mem.ident[i]) = e.digest
    BY DEF EventsKnown
  <2>2. mem.events[e].root = mem.ident[i].root
    BY <2>1 DEF EventsKnown, Digest
  <2> QED
    BY <1>5, <2>2
<1> QED
  BY <1>2, <1>3, <1>4, <1>5

(* An effective weight leaves room under the cap for every key it spends.  *)
LEMMA WeightFits ==
  ASSUME NEW credit \in [CreditKeyset -> Nat],
         \A k \in CreditKeyset : credit[k] <= Cap,
         NEW keys \in SUBSET CreditKeyset, NEW status, NEW base \in Nat,
         NEW w \in 0 .. base, IsEffectiveWeight(w, status, credit, keys, base)
  PROVE  \A k \in keys : credit[k] + w <= Cap
<1> SUFFICES ASSUME NEW k \in keys PROVE credit[k] + w <= Cap
  OBVIOUS
<1>1. Cap \in Nat /\ credit[k] \in Nat /\ credit[k] <= Cap
  BY MemoryAssumption
<1>2. CASE w = 0
  BY <1>1, <1>2
<1>3. CASE w <= SafeCreditIncrement(credit, k, base)
  BY <1>1, <1>3 DEF SafeCreditIncrement
<1> QED
  BY <1>2, <1>3 DEF IsEffectiveWeight

(* A signal that was just remembered is admissible still.                  *)
LEMMA RememberedAdmissible ==
  ASSUME NEW ident, NEW s \in Signal, Admissible(ident, s)
  PROVE  Admissible(RememberSignalIdentity(ident, s), s)
<1> DEFINE new == RememberSignalIdentity(ident, s)
           g == CanonicalGroup(ident, s)
<1>1. /\ DOMAIN new = DOMAIN ident \cup {s.id}
      /\ new[s.id].root = s.root /\ new[s.id].source = s.source
      /\ new[s.id].content = s.content /\ new[s.id].supplied = s.group
      /\ new[s.id].group = g
      /\ \A i \in DOMAIN ident : i # s.id => new[i] = ident[i]
  BY DEF RememberSignalIdentity
<1>2. \A h \in KnownGroups(ident, s) : h = g
  BY DEF CanonicalGroup, Admissible, GroupsAgree
<1>3. \A h \in KnownGroups(new, s) : h = g
  <2> SUFFICES ASSUME NEW i \in DOMAIN new,
                      \/ new[i].root = s.root
                      \/ new[i].source = s.source
                      \/ i \in s.parents
               PROVE  new[i].group = g
    BY DEF KnownGroups
  <2>1. CASE i = s.id
    BY <2>1, <1>1
  <2>2. CASE i # s.id
    BY <2>2, <1>1, <1>2 DEF KnownGroups
  <2> QED
    BY <2>1, <2>2
<1>4. GroupsAgree(new, s)
  BY <1>3 DEF GroupsAgree
<1>5. LineageKept(new, s)
  BY <1>1 DEF LineageKept, Admissible, Digest
<1> QED
  BY <1>4, <1>5 DEF Admissible

(* The planned signal at hand, and the id of its event.                    *)
LEMMA CurrentType ==
  ASSUME TypeOK, next <= Len(queue)
  PROVE  /\ Current.signal \in Signal /\ Current.signal \in Arrivals
         /\ Current.id \in EventIds
         /\ Current.id.digest = Digest(Current.signal)
         /\ Current.id.part = "primary"
         /\ [Current.id EXCEPT !.part = "primary"] = Current.id
         /\ next + 1 \in 1 .. (Len(queue) + 1)
<1> DEFINE Planned == [signal: Arrivals, id: EventIds]
<1>1. /\ queue \in Seq(Planned) /\ next \in 1 .. (Len(queue) + 1)
      /\ \A i \in DOMAIN queue : /\ queue[i].id.digest = Digest(queue[i].signal)
                                 /\ queue[i].id.part = "primary"
  BY DEF TypeOK
<1>2. Current \in Planned /\ next \in DOMAIN queue
  <2> HIDE DEF Planned
  <2> QED
    BY <1>1 DEF Current
<1>3. Current.id.digest = Digest(Current.signal) /\ Current.id.part = "primary"
  BY <1>1, <1>2 DEF Current
<1>4. Current.signal \in Arrivals /\ Current.id \in EventIds
  BY <1>2
<1>5. [Current.id EXCEPT !.part = "primary"] = Current.id
  BY <1>3, <1>4 DEF EventIds
<1>6. next + 1 \in 1 .. (Len(queue) + 1)
  BY <1>1
<1> QED
  BY <1>3, <1>4, <1>5, <1>6, MemoryAssumption

(* Committing an event the ledger does not hold yet keeps the copy a sound *)
(* extension of the memory.                                                *)
LEMMA CommitFits ==
  ASSUME NEW mem, NEW s \in Signal, NEW id \in EventIds, NEW event,
         IsSnapshot(mem), Sound(mem), Admissible(mem.ident, s),
         Takes(mem, s, id, event), id.digest = Digest(s),
         [id EXCEPT !.part = "primary"] \in DOMAIN mem.events \cup {id},
         IsSnapshot(memory), Extends(memory, mem), id \notin PriorEvidenceIds
  PROVE  LET new == CommitEvent(mem, s, id, event) IN
         /\ IsSnapshot(new)
         /\ Sound(new)
         /\ Extends(memory, new)
<1> DEFINE new == CommitEvent(mem, s, id, event)
<1>1. /\ IsSnapshot(new)
      /\ Sound(new)
      /\ \A i \in DOMAIN mem.ident :
           i \in DOMAIN new.ident /\ new.ident[i] = mem.ident[i]
      /\ DOMAIN new.events = DOMAIN mem.events \cup {id}
      /\ \A e \in DOMAIN mem.events : e # id => new.events[e] = mem.events[e]
      /\ \A k \in CreditKeyset : new.credit[k] >= mem.credit[k]
  BY CommitKeepsSound
<1>2. \A k \in CreditKeyset : /\ memory.credit[k] \in Nat
                              /\ mem.credit[k] \in Nat
                              /\ new.credit[k] \in Nat
  <2> HIDE DEF new
  <2> QED
    BY <1>1 DEF IsSnapshot
<1>3. Extends(memory, new)
  <2> HIDE DEF new
  <2> QED
    BY <1>1, <1>2 DEF Extends, PriorEvidenceIds
<1> QED
  BY <1>1, <1>3

(* A step of the gate that leaves a sound extension of the memory behind   *)
(* keeps the invariant.                                                    *)
LEMMA GateKeeps ==
  ASSUME IInv, InGate, NEW new, working' = new,
         IsSnapshot(new), Sound(new), Extends(memory, new)
  PROVE  IInv'
<1>1. next' \in 1 .. (Len(queue) + 1)
  BY CurrentType DEF IInv, InGate
<1>2. UNCHANGED <<memory, shadow, phase, cycle, frame, queue>>
  BY DEF InGate
<1>3. TypeOK'
  BY <1>1, <1>2 DEF IInv, TypeOK
<1>4. Sound(memory)' /\ Sound(working)' /\ GroupsFunctional(shadow)'
  BY <1>2 DEF IInv
<1>5. Extends(memory, working)'
  BY <1>2
<1> QED
  BY <1>2, <1>3, <1>4, <1>5 DEF IInv

(* What one event of the gate keeps of the invariant.                      *)
LEMMA GateCommit ==
  ASSUME IInv, InGate, Current.id \notin PriorEvidenceIds, NEW event,
         Takes(working, Current.signal, Current.id, event),
         working' = CommitEvent(working, Current.signal, Current.id, event)
  PROVE  IInv'
<1> DEFINE new == CommitEvent(working, Current.signal, Current.id, event)
<1>1. /\ Current.signal \in Signal /\ Current.id \in EventIds
      /\ Current.id.digest = Digest(Current.signal)
      /\ [Current.id EXCEPT !.part = "primary"] = Current.id
  BY CurrentType DEF IInv, InGate
<1>2. /\ IsSnapshot(working) /\ Sound(working) /\ IsSnapshot(memory)
      /\ Admissible(working.ident, Current.signal)
      /\ Extends(memory, working)
  BY DEF IInv, TypeOK, InGate
<1>3. IsSnapshot(new) /\ Sound(new) /\ Extends(memory, new)
  BY <1>1, <1>2, CommitFits
<1> HIDE DEF new
<1>4. working' = new
  BY DEF new
<1> QED
  BY <1>3, <1>4, GateKeeps

(* What a judgment that is not an exact repeat takes.                      *)
LEMMA JudgmentTakes ==
  ASSUME IInv, InGate,
         NEW likelihoods \in [Targets -> Bands], NEW base \in Nat,
         NEW w \in 0 .. base, NEW status, NEW keys,
         status = CorrelationStatus(working.ident, Current.signal),
         status # "duplicate_exact",
         keys = CreditKeys(CanonicalGroup(working.ident, Current.signal),
                           likelihoods, frame),
         IsEffectiveWeight(w, status, working.credit, keys, base)
  PROVE  Takes(working, Current.signal, Current.id,
               EventOf(Current.signal, status, w,
                       DiscardReason(status, keys, w), keys))
<1> DEFINE s == Current.signal
           id == Current.id
           event == EventOf(s, status, w, DiscardReason(status, keys, w), keys)
<1>1. s \in Signal /\ id \in EventIds /\ id.digest = Digest(s)
  BY CurrentType DEF IInv, InGate
<1>2. /\ DOMAIN working.credit = CreditKeyset
      /\ \A k \in CreditKeyset : working.credit[k] \in Nat /\ working.credit[k] <= Cap
      /\ EventsKnown(working) /\ frame \in 1 .. MaxFrame
      /\ \A i \in DOMAIN working.ident : working.ident[i] \in Identity
  BY DEF IInv, TypeOK, IsSnapshot, Sound, WithinCap
<1> HIDE DEF s, id
<1>3. CanonicalGroup(working.ident, s) \in Groups
  BY <1>1, <1>2, GroupType
<1>4. keys \subseteq CreditKeyset
  BY <1>2, <1>3, CreditKeysType DEF s
<1>5. /\ status \in Statuses
      /\ \A e \in DOMAIN working.events : e.digest # id.digest
      /\ status # "correlated_restatement" =>
           /\ s.parents = {}
           /\ \A e \in DOMAIN working.events : working.events[e].root # s.root
  BY <1>1, <1>2, StatusSpeaks DEF s
<1>6. w > 0 => status # "correlated_restatement"
  BY DEF IsEffectiveWeight
<1>7. \A k \in keys : working.credit[k] + w <= Cap
  <2> DEFINE c == [k \in CreditKeyset |-> working.credit[k]]
  <2>1. /\ c \in [CreditKeyset -> Nat]
        /\ \A k \in CreditKeyset : c[k] = working.credit[k] /\ c[k] <= Cap
    BY <1>2
  <2>2. IsEffectiveWeight(w, status, c, keys, base)
    <3> HIDE DEF c
    <3> QED
      BY <2>1, <1>4 DEF IsEffectiveWeight, SafeCreditIncrement
  <2> HIDE DEF c
  <2> QED
    BY <2>1, <2>2, <1>4, WeightFits
<1>8. DiscardReason(status, keys, w) \in Reasons
  BY DEF DiscardReason, Reasons
<1>9. event \in Event
  BY <1>1, <1>4, <1>5, <1>8 DEF EventOf, Event, Signal
<1>10. /\ event.root = s.root /\ event.parents = s.parents
       /\ event.weight = w /\ event.keys = keys
  BY DEF EventOf
<1> HIDE DEF event
<1>11. Takes(working, s, id, event)
  BY <1>5, <1>6, <1>7, <1>9, <1>10 DEF Takes
<1> QED
  BY <1>11 DEF event, s, id

(* An event of no weight and no credit keys that repeats no accepted one.  *)
LEMMA NeutralTakes ==
  ASSUME IInv, InGate, NEW status \in Statuses, NEW reason \in Reasons,
         reason # Accepted
  PROVE  Takes(working, Current.signal, Current.id,
               EventOf(Current.signal, status, 0, reason, {}))
<1> DEFINE s == Current.signal
           event == EventOf(s, status, 0, reason, {})
<1>1. s \in Signal
  BY CurrentType DEF IInv, InGate
<1>2. event \in Event
  BY <1>1 DEF EventOf, Event, Signal
<1>3. /\ event.root = s.root /\ event.parents = s.parents
      /\ event.weight = 0 /\ event.reason # Accepted
  BY DEF EventOf
<1> HIDE DEF event
<1> QED
  BY <1>2, <1>3 DEF Takes, event

(* A replayed event id only adds an identity.                              *)
LEMMA ReplayKeeps ==
  ASSUME IInv, GateReplay
  PROVE  IInv'
<1> DEFINE s == Current.signal
           ident == RememberSignalIdentity(working.ident, s)
           new == [working EXCEPT !.ident = ident]
<1>1. /\ s \in Signal /\ IsSnapshot(working) /\ Sound(working)
      /\ Admissible(working.ident, s) /\ Extends(memory, working)
  BY CurrentType DEF IInv, TypeOK, GateReplay, InGate
<1>2. /\ DOMAIN ident \subseteq SignalIds
      /\ \A i \in DOMAIN ident : ident[i] \in Identity
      /\ \A i \in DOMAIN working.ident : i \in DOMAIN ident /\ ident[i] = working.ident[i]
      /\ GroupsFunctional(ident)
  <2>1. /\ DOMAIN working.ident \subseteq SignalIds
        /\ \A i \in DOMAIN working.ident : working.ident[i] \in Identity
        /\ GroupsFunctional(working.ident)
    BY <1>1 DEF IsSnapshot, Sound
  <2> HIDE DEF s
  <2>2. /\ DOMAIN ident = DOMAIN working.ident \cup {s.id}
        /\ DOMAIN ident \subseteq SignalIds
        /\ \A i \in DOMAIN ident : ident[i] \in Identity
        /\ \A i \in DOMAIN working.ident : ident[i] = working.ident[i]
        /\ GroupsFunctional(ident)
    BY <1>1, <2>1, RememberKeepsIdentities
  <2> HIDE DEF ident
  <2> QED
    BY <2>2
<1>3. /\ DOMAIN new = DOMAIN working /\ new.ident = ident
      /\ new.credit = working.credit /\ new.events = working.events
  BY <1>1 DEF IsSnapshot
<1>4. working' = new
  BY DEF GateReplay
<1> HIDE DEF new, ident
<1>5. IsSnapshot(new)
  BY <1>1, <1>2, <1>3 DEF IsSnapshot
<1>6. EventsKnown(new)
  BY <1>1, <1>2, <1>3 DEF Sound, EventsKnown
<1>7. Sound(new)
  BY <1>1, <1>2, <1>3, <1>6 DEF Sound, WithinCap, ClaimsFollow
<1>8. Extends(memory, new)
  BY <1>1, <1>2, <1>3 DEF Extends
<1>9. InGate
  BY DEF GateReplay
<1> QED
  BY <1>4, <1>5, <1>7, <1>8, <1>9, GateKeeps

(* A projection leaves one event, or two under ids of one integration.     *)
LEMMA ProjectionKeeps ==
  ASSUME IInv, NEW endorsed \in {{h} : h \in Hypotheses} \cup {{}},
         NEW base \in Qualities, NEW claimBase \in Qualities,
         NEW w \in 0 .. base, GateProjection(endorsed, base, w, claimBase)
  PROVE  IInv'
<1> DEFINE s == Current.signal
           id == Current.id
           status == CorrelationStatus(working.ident, s)
           likelihoods == [t \in Targets |->
                             IF t \in endorsed THEN "confirming" ELSE "neutral"]
           keys == CreditKeys(CanonicalGroup(working.ident, s), likelihoods, frame)
           first == EventOf(s, status, w, DiscardReason(status, keys, w), keys)
           sender == CommitEvent(working, s, id, first)
           claimWeight == IF status = "correlated_restatement" THEN 0 ELSE claimBase
           claim == EventOf(s, status, claimWeight, Accepted, {})
           claimId == SourceClaimId(id)
<1>1. /\ s \in Signal /\ id \in EventIds /\ id.digest = Digest(s)
      /\ id.part = "primary" /\ [id EXCEPT !.part = "primary"] = id
  BY CurrentType DEF IInv, GateProjection, InGate
<1>2. /\ IsSnapshot(working) /\ Sound(working) /\ IsSnapshot(memory)
      /\ Sound(memory) /\ Extends(memory, working)
      /\ Admissible(working.ident, s) /\ InGate /\ id \notin PriorEvidenceIds
      /\ status # "duplicate_exact" /\ base \in Nat /\ claimBase \in Nat
  BY MemoryAssumption DEF IInv, TypeOK, GateProjection, InGate
<1>3. likelihoods \in [Targets -> Bands]
  BY DEF Bands
<1>4. Takes(working, s, id, first)
  <2>1. IsEffectiveWeight(w, status, working.credit, keys, base)
    BY DEF GateProjection
  <2> HIDE DEF likelihoods
  <2> QED
    BY <1>2, <1>3, <2>1, JudgmentTakes
<1>5. IsSnapshot(sender) /\ Sound(sender) /\ Extends(memory, sender)
  <2> HIDE DEF s, id, first
  <2> QED
    BY <1>1, <1>2, <1>4, CommitFits
<1>6. CASE s.kind = "sender"
  <2>1. working' = sender
    BY <1>6 DEF GateProjection
  <2> HIDE DEF sender
  <2> QED
    BY <1>2, <1>5, <2>1, GateKeeps
<1>7. CASE s.kind # "sender"
  <2> DEFINE new == CommitEvent(sender, s, claimId, claim)
  <2>1. working' = new
    BY <1>7 DEF GateProjection
  <2>2. /\ claimId \in EventIds /\ claimId.digest = Digest(s)
        /\ [claimId EXCEPT !.part = "primary"] = id
        /\ SameIntegration(id, claimId)
    <3> HIDE DEF id, s
    <3>1. claimId = [id EXCEPT !.part = "source"]
      BY DEF SourceClaimId
    <3> QED
      BY <1>1, <3>1 DEF EventIds, SameIntegration
  <2>3. claimId \notin PriorEvidenceIds
    BY <1>2, <2>2 DEF Sound, ClaimsFollow, PriorEvidenceIds
  <2>4. Admissible(sender.ident, s)
    <3>1. sender.ident = RememberSignalIdentity(working.ident, s)
      BY DEF CommitEvent
    <3> HIDE DEF s, sender
    <3> QED
      BY <1>1, <1>2, <3>1, RememberedAdmissible
  <2>5. /\ DOMAIN sender.events = DOMAIN working.events \cup {id}
        /\ \A e \in DOMAIN working.events :
             e # id => sender.events[e] = working.events[e]
    BY DEF CommitEvent, WithEvent
  <2>6. /\ status \in Statuses
        /\ \A e \in DOMAIN working.events : e.digest # id.digest
        /\ status # "correlated_restatement" =>
             /\ s.parents = {}
             /\ \A e \in DOMAIN working.events : working.events[e].root # s.root
    <3> HIDE DEF s, id
    <3> QED
      BY <1>1, <1>2, StatusSpeaks DEF Sound
  <2>7. claim \in Event
    <3> HIDE DEF s, status
    <3> QED
      BY <1>1, <1>2, <2>6 DEF EventOf, Event, Signal, Reasons
  <2>8. /\ claim.root = s.root /\ claim.parents = s.parents
        /\ claim.weight = claimWeight /\ claim.keys = {}
    BY DEF EventOf
  <2>9. Takes(sender, s, claimId, claim)
    <3> HIDE DEF s, id, status, sender, claim, claimId
    <3> QED
      BY <2>2, <2>5, <2>6, <2>7, <2>8 DEF Takes, SameIntegration
  <2>10. IsSnapshot(new) /\ Sound(new) /\ Extends(memory, new)
    <3>1. [claimId EXCEPT !.part = "primary"] \in DOMAIN sender.events \cup {claimId}
      BY <2>2, <2>5
    <3> HIDE DEF s, id, sender, claim, claimId
    <3> QED
      BY <1>1, <1>2, <1>5, <2>2, <2>3, <2>4, <2>9, <3>1, CommitFits
  <2> HIDE DEF new
  <2> QED
    BY <1>2, <2>1, <2>10, GateKeeps
<1> QED
  BY <1>6, <1>7

-----------------------------------------------------------------------------
LEMMA InitInv == Init => IInv
<1> SUFFICES ASSUME Init PROVE IInv
  OBVIOUS
<1>1. /\ memory = EmptyMemory /\ working = EmptyMemory
      /\ shadow = EmptyMemory.ident /\ queue = <<>> /\ next = 1
      /\ phase = "idle" /\ cycle = 0 /\ frame = 1
  BY DEF Init
<1>2. /\ DOMAIN EmptyMemory = {"ident", "credit", "events"}
      /\ DOMAIN EmptyMemory.ident = {}
      /\ DOMAIN EmptyMemory.events = {}
      /\ DOMAIN EmptyMemory.credit = CreditKeyset
      /\ \A k \in CreditKeyset : EmptyMemory.credit[k] = 0
  BY DEF EmptyMemory
<1>3. IsSnapshot(EmptyMemory)
  BY <1>2 DEF IsSnapshot
<1>4. Sound(EmptyMemory)
  BY <1>2, MemoryAssumption DEF Sound, WithinCap, GroupsFunctional, EventsKnown,
                  ClaimsFollow, Accumulates, RepeatsDiscarded
<1>5. Extends(EmptyMemory, EmptyMemory)
  BY <1>2 DEF Extends
<1>6. TypeOK
  <2> HIDE DEF EmptyMemory
  <2>1. DOMAIN shadow \subseteq SignalIds /\ \A i \in DOMAIN shadow : shadow[i] \in Identity
    BY <1>1, <1>2
  <2>2. queue \in Seq([signal: Arrivals, id: EventIds]) /\ DOMAIN queue = {}
        /\ Len(queue) = 0
    BY <1>1
  <2>3. next \in 1 .. (Len(queue) + 1)
    BY <1>1, <2>2
  <2> QED
    BY <1>1, <1>3, <2>1, <2>2, <2>3, MemoryAssumption DEF TypeOK
<1>7. GroupsFunctional(shadow)
  BY <1>1, <1>2 DEF GroupsFunctional
<1> QED
  BY <1>1, <1>3, <1>4, <1>5, <1>6, <1>7 DEF IInv

LEMMA ExtendsReflexive ==
  ASSUME NEW mem, IsSnapshot(mem)
  PROVE  Extends(mem, mem)
BY DEF IsSnapshot, Extends

(* An abandoned cycle leaves the memory as it was.                         *)
LEMMA DropKeeps ==
  ASSUME IInv, DropCycle
  PROVE  IInv'
<1>1. /\ working' = memory /\ shadow' = memory.ident /\ queue' = <<>>
      /\ next' = 1 /\ phase' = "idle" /\ UNCHANGED <<memory, cycle, frame>>
  BY DEF DropCycle
<1>2. IsSnapshot(memory) /\ Sound(memory) /\ Extends(memory, memory)
  BY ExtendsReflexive DEF IInv, TypeOK
<1>3. Len(queue') = 0 /\ DOMAIN queue' = {}
      /\ queue' \in Seq([signal: Arrivals, id: EventIds])
      /\ next' \in 1 .. (Len(queue') + 1)
  BY <1>1
<1>4. /\ DOMAIN shadow' \subseteq SignalIds
      /\ \A i \in DOMAIN shadow' : shadow'[i] \in Identity
      /\ GroupsFunctional(shadow')
  BY <1>1, <1>2 DEF IsSnapshot, Sound
<1>5. TypeOK'
  BY <1>1, <1>2, <1>3, <1>4 DEF IInv, TypeOK
<1> QED
  BY <1>1, <1>2, <1>4, <1>5 DEF IInv

LEMMA NextInv == IInv /\ [Next]_vars => IInv'
<1> SUFFICES ASSUME IInv, [Next]_vars PROVE IInv'
  OBVIOUS
<1>1. ASSUME NEW c \in 1 .. MaxCycle, NEW batch \in Batches, BeginCycle(c, batch)
      PROVE  IInv'
  <2> DEFINE plan == PlanSignalEvents(c, batch)
  <2>1. /\ plan \in Seq([signal: Arrivals, id: EventIds]) /\ Len(plan) > 0
        /\ \A i \in DOMAIN plan : /\ plan[i].id.digest = Digest(plan[i].signal)
                                  /\ plan[i].id.part = "primary"
    BY PlanType
  <2>2. /\ queue' = plan /\ next' = 1 /\ phase' = "preflight"
        /\ UNCHANGED <<memory, working, shadow, cycle, frame>>
    BY <1>1 DEF BeginCycle
  <2> HIDE DEF plan
  <2>3. next' \in 1 .. (Len(queue') + 1)
    BY <2>1, <2>2
  <2>4. TypeOK'
    BY <2>1, <2>2, <2>3 DEF IInv, TypeOK
  <2> QED
    BY <2>1, <2>2, <2>4 DEF IInv
<1>2. CASE PreflightSignal
  <2> DEFINE s == Current.signal
             ident == RememberSignalIdentity(shadow, s)
  <2>1. /\ s \in Signal /\ next + 1 \in 1 .. (Len(queue) + 1)
        /\ DOMAIN shadow \subseteq SignalIds
        /\ \A i \in DOMAIN shadow : shadow[i] \in Identity
        /\ GroupsFunctional(shadow) /\ Admissible(shadow, s)
    BY <1>2, CurrentType DEF IInv, TypeOK, PreflightSignal
  <2>2. /\ DOMAIN ident \subseteq SignalIds
        /\ \A i \in DOMAIN ident : ident[i] \in Identity
        /\ GroupsFunctional(ident)
    <3> HIDE DEF s
    <3> QED
      BY <2>1, RememberKeepsIdentities
  <2>3. /\ shadow' = ident /\ next' = next + 1
        /\ UNCHANGED <<memory, working, phase, cycle, frame, queue>>
    BY <1>2 DEF PreflightSignal
  <2> HIDE DEF ident, s
  <2>4. TypeOK'
    BY <2>1, <2>2, <2>3 DEF IInv, TypeOK
  <2> QED
    BY <2>2, <2>3, <2>4 DEF IInv
<1>3. CASE PreflightDone
  <2>1. /\ phase' = "gate" /\ next' = 1
        /\ UNCHANGED <<memory, working, shadow, cycle, frame, queue>>
    BY <1>3 DEF PreflightDone
  <2>2. next' \in 1 .. (Len(queue') + 1)
    BY <2>1 DEF IInv, TypeOK
  <2>3. TypeOK'
    BY <2>1, <2>2 DEF IInv, TypeOK
  <2> QED
    BY <1>3, <2>1, <2>3 DEF IInv, PreflightDone
<1>4. CASE Refuse
  BY <1>4, DropKeeps DEF Refuse
<1>5. CASE IntegrationFails
  BY <1>5, DropKeeps DEF IntegrationFails
<1>6. CASE GateReplay
  BY <1>6, ReplayKeeps
<1>7. CASE GateDuplicate
  <2>1. Takes(working, Current.signal, Current.id,
              EventOf(Current.signal, "duplicate_exact", 0, "duplicate_exact", {}))
    BY <1>7, NeutralTakes DEF GateDuplicate, Statuses, Reasons, Accepted
  <2> QED
    BY <1>7, <2>1, GateCommit DEF GateDuplicate
<1>8. ASSUME NEW likelihoods \in Judgments, NEW base \in Qualities,
             NEW w \in 0 .. base, GateJudge(likelihoods, base, w)
      PROVE  IInv'
  <2> DEFINE status == CorrelationStatus(working.ident, Current.signal)
             keys == CreditKeys(CanonicalGroup(working.ident, Current.signal),
                                likelihoods, frame)
             event == EventOf(Current.signal, status, w,
                              DiscardReason(status, keys, w), keys)
  <2>1. /\ InGate /\ Current.id \notin PriorEvidenceIds
        /\ status # "duplicate_exact"
        /\ IsEffectiveWeight(w, status, working.credit, keys, base)
        /\ working' = CommitEvent(working, Current.signal, Current.id, event)
        /\ base \in Nat /\ likelihoods \in [Targets -> Bands]
    BY <1>8, MemoryAssumption DEF GateJudge, JudgedEvent
  <2>2. Takes(working, Current.signal, Current.id, event)
    BY <2>1, JudgmentTakes
  <2> HIDE DEF event
  <2> QED
    BY <2>1, <2>2, GateCommit
<1>9. CASE GateSchemaViolation
  <2> DEFINE status == CorrelationStatus(working.ident, Current.signal)
  <2>1. /\ InGate /\ Current.id \notin PriorEvidenceIds
        /\ working' = CommitEvent(working, Current.signal, Current.id,
                        EventOf(Current.signal, status, 0, "schema_violation", {}))
    BY <1>9 DEF GateSchemaViolation
  <2>2. status \in Statuses
    BY DEF CorrelationStatus, Statuses
  <2>3. Takes(working, Current.signal, Current.id,
              EventOf(Current.signal, status, 0, "schema_violation", {}))
    BY <2>1, <2>2, NeutralTakes DEF Reasons, Accepted
  <2> QED
    BY <2>1, <2>3, GateCommit
<1>10. ASSUME NEW endorsed \in {{h} : h \in Hypotheses} \cup {{}},
              NEW base \in Qualities, NEW claimBase \in Qualities,
              NEW w \in 0 .. base, GateProjection(endorsed, base, w, claimBase)
       PROVE  IInv'
  BY <1>10, ProjectionKeeps
<1>11. CASE CommitCycle
  <2>1. /\ memory' = working /\ working' = working /\ shadow' = working.ident
        /\ phase' = "idle" /\ queue' = <<>> /\ next' = 1
        /\ frame' \in 1 .. MaxFrame
    BY <1>11 DEF CommitCycle
  <2>2. IsSnapshot(working) /\ Sound(working) /\ Extends(working, working)
    BY ExtendsReflexive DEF IInv, TypeOK
  <2>3. cycle' \in 0 .. MaxCycle
    <3> DEFINE Planned == [signal: Arrivals, id: EventIds]
    <3>1. queue \in Seq(Planned) /\ next \in 1 .. (Len(queue) + 1)
          /\ next = Len(queue) + 1 /\ cycle' = queue[1].id.cycle
      BY <1>11 DEF CommitCycle, IInv, TypeOK
    <3>2. Len(queue) > 0
      BY <1>11 DEF CommitCycle, IInv
    <3> HIDE DEF Planned
    <3>3. queue[1] \in Planned
      BY <3>1, <3>2
    <3>4. queue[1].id \in EventIds
      BY <3>3 DEF Planned
    <3> QED
      BY <3>1, <3>4, MemoryAssumption DEF EventIds
  <2>4. Len(queue') = 0 /\ DOMAIN queue' = {}
        /\ queue' \in Seq([signal: Arrivals, id: EventIds])
        /\ next' \in 1 .. (Len(queue') + 1)
    BY <2>1
  <2>5. TypeOK'
    BY <2>1, <2>2, <2>3, <2>4 DEF IInv, TypeOK, IsSnapshot, Sound
  <2> QED
    BY <2>1, <2>2, <2>5 DEF IInv, Sound
<1>12. CASE UNCHANGED vars
  BY <1>12 DEF vars, IInv, TypeOK
<1> QED
  BY <1>1, <1>2, <1>3, <1>4, <1>5, <1>6, <1>7, <1>8, <1>9, <1>10, <1>11, <1>12
     DEF Next

(* Every reachable state satisfies the inductive invariant.                *)
THEOREM Invariance == Spec => []IInv
<1>1. Init => IInv
  BY InitInv
<1>2. IInv /\ [Next]_vars => IInv'
  BY NextInv
<1> QED
  BY <1>1, <1>2, PTL DEF Spec

(* The snapshots, the plan and the gate's position are well formed.        *)
THEOREM TypeCorrect == Spec => []TypeOK
<1>1. IInv => TypeOK
  BY DEF IInv
<1> QED
  BY <1>1, Invariance, PTL

(* No group moves a target in one direction beyond the policy's cap.       *)
THEOREM CreditCapped == Spec => []CreditWithinCap
<1>1. IInv => CreditWithinCap
  BY DEF IInv, Sound, CreditWithinCap
<1> QED
  BY <1>1, Invariance, PTL

(* One canonical correlation group per source and per derivation root.     *)
THEOREM GroupsCanonical == Spec => []CanonicalGroups
<1>1. IInv => CanonicalGroups
  BY DEF IInv, Sound, CanonicalGroups
<1> QED
  BY <1>1, Invariance, PTL

(* Only evidence of distinct roots, neither derived from the other, adds   *)
(* up.                                                                     *)
THEOREM AccumulationIndependent == Spec => []IndependentAccumulation
<1>1. IInv => IndependentAccumulation
  BY DEF IInv, Sound, IndependentAccumulation
<1> QED
  BY <1>1, Invariance, PTL

(* An exact repeat is never accepted.                                      *)
THEOREM RepeatsAreDiscarded == Spec => []ExactRepeatsDiscarded
<1>1. IInv => ExactRepeatsDiscarded
  BY DEF IInv, Sound, ExactRepeatsDiscarded
<1> QED
  BY <1>1, Invariance, PTL

(* The memory only grows: no step of the gate rewrites an identity, a      *)
(* group or an event, or takes credit back.                                *)
THEOREM AppendOnly == Spec => MemoryAppendOnly
<1>1. IInv /\ [Next]_vars => [Extends(memory, memory')]_vars
  <2> SUFFICES ASSUME IInv, Next PROVE Extends(memory, memory')
    OBVIOUS
  <2>1. CASE CommitCycle
    BY <2>1 DEF CommitCycle, IInv
  <2>2. CASE ~CommitCycle
    <3>1. memory' = memory
      BY <2>2 DEF Next, BeginCycle, PreflightSignal, PreflightDone, Refuse,
                  DropCycle, IntegrationFails, GateReplay, GateDuplicate,
                  GateJudge, JudgedEvent, GateSchemaViolation, GateProjection,
                  InGate
    <3> QED
      BY <3>1, ExtendsReflexive DEF IInv, TypeOK
  <2> QED
    BY <2>1, <2>2
<1> QED
  BY <1>1, Invariance, PTL DEF Spec, MemoryAppendOnly

-----------------------------------------------------------------------------
(* The gate goes the way of the preflight once more.                       *)

(* The identities that were remembered before the first n signals of the   *)
(* batch, and after each of them.                                          *)
IsPreflight(stages, n) ==
  /\ stages[0] = memory.ident
  /\ \A i \in 1 .. n :
       /\ Admissible(stages[i - 1], queue[i].signal)
       /\ stages[i] = RememberSignalIdentity(stages[i - 1], queue[i].signal)

Retraces(stages) ==
  /\ phase = "preflight" =>
       IsPreflight(stages, next - 1) /\ shadow = stages[next - 1]
  /\ phase = "gate" =>
       IsPreflight(stages, Len(queue)) /\ working.ident = stages[next - 1]

(* A batch of which the ledger holds every event.                          *)
Replayed == \A i \in 1 .. Len(queue) : queue[i].id \in PriorEvidenceIds

(* The copy differs from the memory in the gate only, and there, for such  *)
(* a batch, in identities only.                                            *)
Copies ==
  /\ phase = "idle" => shadow = memory.ident
  /\ phase # "gate" => working = memory
  /\ phase = "gate" /\ Replayed =>
       working.credit = memory.credit /\ working.events = memory.events

PreflightInv ==
  /\ phase \in {"idle", "preflight", "gate"}
  /\ next \in 1 .. (Len(queue) + 1) /\ Len(queue) \in Nat
  /\ Copies
  /\ \E stages : Retraces(stages)

(* Remembering a signal twice is remembering it once.                      *)
LEMMA RememberTwice ==
  ASSUME NEW ident, NEW s \in Signal, Admissible(ident, s)
  PROVE  LET new == RememberSignalIdentity(ident, s)
         IN  RememberSignalIdentity(new, s) = new
<1> DEFINE new == RememberSignalIdentity(ident, s)
           g == CanonicalGroup(ident, s)
           own(h) == [source |-> s.source, content |-> s.content, root |-> s.root,
                      group |-> h, supplied |-> s.group]
<1>1. /\ DOMAIN new = DOMAIN ident \cup {s.id}
      /\ new[s.id] = own(g)
      /\ \A i \in DOMAIN ident : i # s.id => new[i] = ident[i]
      /\ new = [i \in DOMAIN new |-> new[i]]
  BY DEF RememberSignalIdentity
<1>2. \A h \in KnownGroups(ident, s) : h = g
  BY DEF CanonicalGroup, Admissible, GroupsAgree
<1>3. own(g).root = s.root /\ own(g).group = g
  OBVIOUS
<1> HIDE DEF new, g, own
<1>4. ASSUME NEW i \in DOMAIN new,
             new[i].root = s.root \/ new[i].source = s.source \/ i \in s.parents
      PROVE  new[i].group = g
  <2>1. CASE i = s.id
    BY <2>1, <1>1, <1>3
  <2>2. CASE i # s.id
    BY <2>2, <1>1, <1>2, <1>4 DEF KnownGroups
  <2> QED
    BY <2>1, <2>2
<1>5. KnownGroups(new, s) = {g}
  <2>1. \A h \in KnownGroups(new, s) : h = g
    BY <1>4 DEF KnownGroups
  <2>2. g \in KnownGroups(new, s)
    BY <1>1, <1>3 DEF KnownGroups
  <2> QED
    BY <2>1, <2>2
<1>6. CanonicalGroup(new, s) = g
  BY <1>5 DEF CanonicalGroup
<1>7. RememberSignalIdentity(new, s)
        = [i \in DOMAIN new \cup {s.id} |-> IF i = s.id THEN own(g) ELSE new[i]]
  BY <1>6 DEF RememberSignalIdentity, own
<1>8. DOMAIN new \cup {s.id} = DOMAIN new
  BY <1>1
<1>9. RememberSignalIdentity(new, s) = [i \in DOMAIN new |-> new[i]]
  BY <1>1, <1>7, <1>8
<1> QED
  BY <1>1, <1>9 DEF new

(* A signal passes the gate.                                               *)
LEMMA GateRetraces ==
  ASSUME PreflightInv, InGate,
         working'.ident = RememberSignalIdentity(working.ident, Current.signal),
         Current.id \in PriorEvidenceIds =>
           working'.credit = working.credit /\ working'.events = working.events
  PROVE  PreflightInv'
<1>1. /\ phase = "gate" /\ next <= Len(queue) /\ next' = next + 1
      /\ UNCHANGED <<memory, shadow, phase, cycle, frame, queue>>
      /\ next \in 1 .. (Len(queue) + 1) /\ Len(queue) \in Nat
  BY DEF InGate, PreflightInv
<1>2. PICK stages : Retraces(stages)
  BY DEF PreflightInv
<1>3. IsPreflight(stages, Len(queue)) /\ working.ident = stages[next - 1]
  BY <1>1, <1>2 DEF Retraces
<1>4. next \in 1 .. Len(queue) /\ next' - 1 = next
  BY <1>1
<1>5. working'.ident = stages[next]
  BY <1>3, <1>4 DEF IsPreflight, Current
<1>6. IsPreflight(stages, Len(queue))'
  BY <1>1, <1>3 DEF IsPreflight
<1>7. Retraces(stages)'
  BY <1>1, <1>4, <1>5, <1>6 DEF Retraces
<1>8. Copies'
  <2> SUFFICES ASSUME Replayed'
               PROVE  working'.credit = memory.credit /\ working'.events = memory.events
    BY <1>1 DEF Copies
  <2>1. Replayed
    BY <1>1 DEF Replayed, PriorEvidenceIds
  <2>2. Current.id \in PriorEvidenceIds
    BY <1>4, <2>1 DEF Replayed, Current
  <2> QED
    BY <1>1, <2>1, <2>2 DEF PreflightInv, Copies
<1>9. next' \in 1 .. (Len(queue') + 1) /\ Len(queue') \in Nat
  BY <1>1
<1> QED
  BY <1>1, <1>7, <1>8, <1>9 DEF PreflightInv

(* What the gate does of a signal.                                         *)
LEMMA CommitIdentities ==
  \A mem, s, id, event :
    CommitEvent(mem, s, id, event).ident = RememberSignalIdentity(mem.ident, s)
BY DEF CommitEvent

(* A projection remembers its signal, once or twice.                       *)
LEMMA ProjectionRetraces ==
  ASSUME IInv, PreflightInv, NEW endorsed, NEW base, NEW claimBase, NEW w,
         GateProjection(endorsed, base, w, claimBase)
  PROVE  PreflightInv'
<1> DEFINE s == Current.signal
           once == RememberSignalIdentity(working.ident, s)
<1>1. InGate /\ Current.id \notin PriorEvidenceIds /\ Admissible(working.ident, s)
  BY DEF GateProjection, InGate
<1>2. s \in Signal
  BY <1>1, CurrentType DEF IInv, InGate
<1>3. PICK first, claim :
        working' = IF s.kind = "sender"
                   THEN CommitEvent(working, s, Current.id, first)
                   ELSE CommitEvent(CommitEvent(working, s, Current.id, first),
                                    s, SourceClaimId(Current.id), claim)
  BY DEF GateProjection
<1> HIDE DEF s
<1>4. RememberSignalIdentity(once, s) = once
  BY <1>1, <1>2, RememberTwice
<1> HIDE DEF once
<1>5. \A event : CommitEvent(working, s, Current.id, event).ident = once
  BY CommitIdentities DEF once
<1>6. working'.ident = once
  <2>1. CASE s.kind = "sender"
    BY <2>1, <1>3, <1>5
  <2>2. CASE s.kind # "sender"
    <3> DEFINE sender == CommitEvent(working, s, Current.id, first)
    <3>1. working' = CommitEvent(sender, s, SourceClaimId(Current.id), claim)
      BY <2>2, <1>3
    <3>2. sender.ident = once
      BY <1>5
    <3> HIDE DEF sender
    <3>3. working'.ident = RememberSignalIdentity(sender.ident, s)
      BY <3>1, CommitIdentities
    <3> QED
      BY <3>2, <3>3, <1>4
  <2> QED
    BY <2>1, <2>2
<1> QED
  BY <1>1, <1>6, GateRetraces DEF once, s

(* A batch is dropped or committed.                                        *)
LEMMA CycleOver ==
  ASSUME phase' = "idle", queue' = <<>>, next' = 1, working' = memory',
         shadow' = memory'.ident
  PROVE  PreflightInv'
<1>1. Len(queue') = 0 /\ Len(queue') \in Nat /\ next' \in 1 .. (Len(queue') + 1)
  OBVIOUS
<1>2. Copies'
  BY DEF Copies
<1>3. Retraces(<<>>)'
  BY DEF Retraces
<1> QED
  BY <1>1, <1>2, <1>3 DEF PreflightInv

(* Every step of the gate keeps to the preflight.                          *)
LEMMA NextRetraces ==
  ASSUME IInv, PreflightInv, [Next]_vars
  PROVE  PreflightInv'
<1>1. ASSUME NEW c \in 1 .. MaxCycle, NEW batch \in Batches, BeginCycle(c, batch)
      PROVE  PreflightInv'
  <2> DEFINE plan == PlanSignalEvents(c, batch)
  <2>1. /\ phase = "idle" /\ phase' = "preflight" /\ next' = 1 /\ queue' = plan
        /\ UNCHANGED <<memory, working, shadow>>
    BY <1>1 DEF BeginCycle
  <2>2. Len(plan) \in Nat /\ Len(plan) > 0
    <3>1. plan \in Seq([signal: Arrivals, id: EventIds]) /\ Len(plan) > 0
      BY PlanType
    <3> HIDE DEF plan
    <3> QED
      BY <3>1
  <2> HIDE DEF plan
  <2>3. working = memory /\ shadow = memory.ident
    BY <2>1 DEF PreflightInv, Copies
  <2>4. Copies'
    BY <2>1, <2>3 DEF Copies
  <2>p. PICK stages : stages[0] = memory.ident
    <3>1. [k \in {0} |-> memory.ident][0] = memory.ident
      OBVIOUS
    <3> QED
      BY <3>1
  <2>5. Retraces(stages)'
    <3>1. next' - 1 = 0 /\ 1 .. 0 = {} /\ stages[0] = memory.ident
      BY <2>1, <2>p
    <3> QED
      BY <2>1, <2>3, <3>1 DEF Retraces, IsPreflight
  <2>6. next' \in 1 .. (Len(queue') + 1) /\ Len(queue') \in Nat
    BY <2>1, <2>2
  <2> QED
    BY <2>1, <2>4, <2>5, <2>6 DEF PreflightInv
<1>2. CASE PreflightSignal
  <2> DEFINE s == Current.signal
             ident == RememberSignalIdentity(shadow, s)
  <2>1. /\ phase = "preflight" /\ next <= Len(queue) /\ next' = next + 1
        /\ Admissible(shadow, s) /\ shadow' = ident
        /\ UNCHANGED <<memory, working, phase, queue>>
        /\ next \in 1 .. (Len(queue) + 1) /\ Len(queue) \in Nat
    BY <1>2 DEF PreflightSignal, PreflightInv
  <2>2. PICK before : Retraces(before)
    BY DEF PreflightInv
  <2>3. IsPreflight(before, next - 1) /\ shadow = before[next - 1]
    BY <2>1, <2>2 DEF Retraces
  <2>p. PICK stages : stages = [k \in 0 .. next |-> IF k = next THEN ident ELSE before[k]]
    OBVIOUS
  <2>4. /\ next \in Nat /\ next > 0
        /\ stages[next] = ident
        /\ \A k \in 0 .. (next - 1) : stages[k] = before[k]
    BY <2>1, <2>p
  <2>5. stages[0] = memory.ident
    BY <2>3, <2>4 DEF IsPreflight
  <2>6. ASSUME NEW i \in 1 .. next
        PROVE  /\ Admissible(stages[i - 1], queue[i].signal)
               /\ stages[i] = RememberSignalIdentity(stages[i - 1], queue[i].signal)
    <3>1. CASE i = next
      <4>1. stages[i - 1] = shadow /\ queue[i].signal = s /\ stages[i] = ident
        BY <3>1, <2>3, <2>4 DEF Current
      <4> QED
        BY <4>1, <2>1
    <3>2. CASE i # next
      <4>1. i \in 1 .. (next - 1) /\ i \in 0 .. (next - 1) /\ i - 1 \in 0 .. (next - 1)
        BY <3>2, <2>4
      <4>2. stages[i] = before[i] /\ stages[i - 1] = before[i - 1]
        BY <4>1, <2>4
      <4> QED
        BY <4>1, <4>2, <2>3 DEF IsPreflight
    <3> QED
      BY <3>1, <3>2
  <2>7. next' - 1 = next
    BY <2>1
  <2> HIDE DEF ident, s
  <2>8. IsPreflight(stages, next - 1)'
    BY <2>1, <2>5, <2>6, <2>7 DEF IsPreflight
  <2>9. Retraces(stages)'
    BY <2>1, <2>4, <2>7, <2>8 DEF Retraces
  <2>10. Copies'
    BY <2>1 DEF PreflightInv, Copies
  <2>11. next' \in 1 .. (Len(queue') + 1) /\ Len(queue') \in Nat
    BY <2>1
  <2> QED
    BY <2>1, <2>9, <2>10, <2>11 DEF PreflightInv
<1>3. CASE PreflightDone
  <2>1. /\ phase = "preflight" /\ next = Len(queue) + 1
        /\ phase' = "gate" /\ next' = 1
        /\ UNCHANGED <<memory, working, shadow, queue>>
        /\ Len(queue) \in Nat /\ working = memory
    BY <1>3 DEF PreflightDone, PreflightInv, Copies
  <2>2. PICK stages : Retraces(stages)
    BY DEF PreflightInv
  <2>3. next - 1 = Len(queue) /\ next' - 1 = 0
    BY <2>1
  <2>4. IsPreflight(stages, Len(queue))
    BY <2>1, <2>2, <2>3 DEF Retraces
  <2>5. Retraces(stages)'
    BY <2>1, <2>3, <2>4 DEF Retraces, IsPreflight
  <2>6. Copies'
    BY <2>1 DEF Copies
  <2>7. next' \in 1 .. (Len(queue') + 1) /\ Len(queue') \in Nat
    BY <2>1
  <2> QED
    BY <2>1, <2>5, <2>6, <2>7 DEF PreflightInv
<1>4. CASE Refuse \/ IntegrationFails
  BY <1>4, CycleOver DEF Refuse, IntegrationFails, DropCycle
<1>5. CASE CommitCycle
  BY <1>5, CycleOver DEF CommitCycle
<1>6. CASE GateReplay
  <2>1. /\ InGate /\ DOMAIN working = {"ident", "credit", "events"}
        /\ working' = [working EXCEPT
             !.ident = RememberSignalIdentity(working.ident, Current.signal)]
    BY <1>6 DEF GateReplay, IInv, TypeOK, IsSnapshot
  <2>2. /\ working'.ident = RememberSignalIdentity(working.ident, Current.signal)
        /\ working'.credit = working.credit /\ working'.events = working.events
    BY <2>1
  <2> QED
    BY <2>1, <2>2, GateRetraces
<1>7. ASSUME InGate, Current.id \notin PriorEvidenceIds, NEW event,
             working' = CommitEvent(working, Current.signal, Current.id, event)
      PROVE  PreflightInv'
  BY <1>7, GateRetraces, CommitIdentities
<1>8. CASE GateDuplicate
  BY <1>7, <1>8 DEF GateDuplicate
<1>9. ASSUME NEW likelihoods, NEW base, NEW w, GateJudge(likelihoods, base, w)
      PROVE  PreflightInv'
  BY <1>7, <1>9 DEF GateJudge, JudgedEvent
<1>10. CASE GateSchemaViolation
  BY <1>7, <1>10 DEF GateSchemaViolation
<1>11. ASSUME NEW endorsed, NEW base, NEW claimBase, NEW w,
              GateProjection(endorsed, base, w, claimBase)
       PROVE  PreflightInv'
  BY <1>11, ProjectionRetraces
<1>12. CASE UNCHANGED vars
  <2>1. PICK stages : Retraces(stages)
    BY DEF PreflightInv
  <2>2. Retraces(stages)'
    BY <1>12, <2>1 DEF vars, Retraces, IsPreflight
  <2>3. Copies'
    BY <1>12 DEF vars, PreflightInv, Copies, Replayed, PriorEvidenceIds
  <2> QED
    BY <1>12, <2>2, <2>3 DEF vars, PreflightInv
<1> QED
  BY <1>1, <1>2, <1>3, <1>4, <1>5, <1>6, <1>8, <1>9, <1>10, <1>11, <1>12
     DEF Next

(* The gate has in hand, at each signal, what the preflight had.           *)
THEOREM GateRetracesPreflight == Spec => []PreflightInv
<1>1. Init => PreflightInv
  <2> SUFFICES ASSUME Init PROVE PreflightInv
    OBVIOUS
  <2>1. /\ phase = "idle" /\ queue = <<>> /\ next = 1 /\ working = memory
        /\ shadow = memory.ident
    BY DEF Init
  <2>2. Len(queue) = 0 /\ Len(queue) \in Nat /\ next \in 1 .. (Len(queue) + 1)
    BY <2>1
  <2>3. Copies /\ Retraces(<<>>)
    BY <2>1 DEF Copies, Retraces
  <2> QED
    BY <2>1, <2>2, <2>3 DEF PreflightInv
<1>2. IInv /\ PreflightInv /\ [Next]_vars => PreflightInv'
  BY NextRetraces
<1> QED
  BY <1>1, <1>2, Invariance, PTL DEF Spec

(* Once judgments are asked for, the memory refuses no signal any more: it *)
(* is asked what the preflight asked, and of the same identities.          *)
THEOREM PreflightSuffices == Spec => []NoLateRefusal
<1>1. PreflightInv => NoLateRefusal
  <2> SUFFICES ASSUME PreflightInv, phase = "gate", next <= Len(queue)
               PROVE  Admissible(working.ident, Current.signal)
    BY DEF NoLateRefusal
  <2>1. PICK stages : Retraces(stages)
    BY DEF PreflightInv
  <2>2. next \in 1 .. Len(queue)
    BY DEF PreflightInv
  <2> QED
    BY <2>1, <2>2 DEF Retraces, IsPreflight, Current
<1> QED
  BY <1>1, GateRetracesPreflight, PTL

(* A cycle whose events are all in the ledger changes no balance and no    *)
(* event, however often it is integrated.                                  *)
THEOREM ReplaysAreNeutral == Spec => ReplayIsNeutral
<1> DEFINE Neutral ==
      (/\ phase = "gate"
       /\ \A i \in 1 .. Len(queue) : queue[i].id \in PriorEvidenceIds)
         => memory'.credit = memory.credit /\ memory'.events = memory.events
<1>1. PreflightInv /\ [Next]_vars => [Neutral]_vars
  <2> SUFFICES ASSUME PreflightInv, Next, phase = "gate", Replayed
               PROVE  memory'.credit = memory.credit /\ memory'.events = memory.events
    BY DEF Replayed
  <2>1. CASE CommitCycle
    BY <2>1 DEF CommitCycle, PreflightInv, Copies
  <2>2. CASE ~CommitCycle
    <3>1. memory' = memory
      BY <2>2 DEF Next, BeginCycle, PreflightSignal, PreflightDone, Refuse,
                  DropCycle, IntegrationFails, GateReplay, GateDuplicate,
                  GateJudge, JudgedEvent, GateSchemaViolation, GateProjection,
                  InGate
    <3> QED
      BY <3>1
  <2> QED
    BY <2>1, <2>2
<1> QED
  BY <1>1, GateRetracesPreflight, PTL DEF Spec, ReplayIsNeutral
=============================================================================
