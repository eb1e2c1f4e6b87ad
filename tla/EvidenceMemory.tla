--------------------------- MODULE EvidenceMemory ---------------------------
(***************************************************************************)
(* Evidence memory and the transaction of the evidence gate.               *)
(*                                                                         *)
(* EvidenceIntegrationGate.integrate (evidence.py) turns the closed        *)
(* signals of one cycle into evidence events.  It works on a copy of the   *)
(* EvidenceMemorySnapshot of the belief state (evidence_memory.py): a      *)
(* preflight remembers the identity of every signal of the batch and       *)
(* checks their lineage before any judgment is asked for; then each        *)
(* signal is classified, judged, and committed to the copy.  The copy      *)
(* replaces the memory of the belief state only when the whole batch went  *)
(* through; an exception on the way leaves the belief state as it was.     *)
(*                                                                         *)
(* Weights and credit are integers: one unit stands for a fixed fraction   *)
(* of effective update weight (the code uses floats with a policy cap).    *)
(***************************************************************************)
EXTENDS Integers, Sequences, FiniteSets, Functions

CONSTANTS
  SignalIds,    (* ids a signal can carry                                  *)
  Sources,      (* source identities of normalized provenance              *)
  Contents,     (* canonical contents                                      *)
  Roots,        (* derivation roots                                        *)
  Groups,       (* correlation groups a signal can be supplied with        *)
  Hypotheses,   (* hypothesis ids a judgment assigns likelihoods to        *)
  Unresolved,   (* the unresolved slot of an exclusive-open frame          *)
  Arrivals,     (* the normalized signals a cycle boundary can close over  *)
  Judgments,    (* likelihood assignments a model judgment can return      *)
  Qualities,    (* base weights reliability*independence*relevance*novelty *)
  Cap,          (* max_cumulative_effective_weight_per_direction           *)
  MaxCycle,     (* bound on cycle ids                                      *)
  MaxBatch,     (* bound on the signals of a cycle                         *)
  MaxFrame,     (* bound on frame versions                                 *)
  MaxEvents     (* bound on the events held when a cycle begins            *)

Bands    == {"confirming", "disconfirming", "neutral"}
Statuses == {"novel", "correlated_novel", "correlated_restatement",
             "duplicate_exact"}
Accepted == "accepted"
Reasons  == {Accepted, "duplicate_exact", "correlation_credit_saturated",
             "schema_violation"}
Kinds    == {"direct", "sender", "sender_and_source"}
Targets  == Hypotheses \cup {Unresolved}

Signal ==
  [id: SignalIds, source: Sources, content: Contents, root: Roots,
   group: Groups, parents: SUBSET SignalIds, kind: Kinds]

ASSUME MemoryAssumption ==
  /\ Arrivals \subseteq Signal
  /\ Judgments \subseteq [Targets -> Bands]
  /\ Unresolved \notin Hypotheses
  /\ Qualities \subseteq Nat
  /\ Cap \in Nat
  /\ MaxCycle \in Nat /\ MaxBatch \in Nat
  /\ MaxFrame \in Nat \ {0} /\ MaxEvents \in Nat

VARIABLES
  memory,   (* evidence memory of the belief state, with its ledgered events *)
  working,  (* the gate's copy of it during a cycle                        *)
  shadow,   (* identities remembered by the preflight                      *)
  phase,    (* where the gate stands in a cycle                            *)
  cycle,    (* id of the last integrated cycle, 0 before the first         *)
  frame,    (* frame version of the belief state                           *)
  queue,    (* planned signals of the cycle with their event ids           *)
  next      (* index of the planned signal the gate looks at               *)

vars == <<memory, working, shadow, phase, cycle, frame, queue, next>>

-----------------------------------------------------------------------------
(* Identities: content_fingerprints, source_content_fingerprints and       *)
(* derivation_roots, whose key sets agree, are one function from signal id *)
(* to identity.                                                            *)

Identity ==
  [source: Sources, content: Contents, root: Roots, group: Groups,
   supplied: Groups]

(* A canonical signal identity digest hashes the content fingerprint       *)
(* (source and content) and the derivation root.                           *)
Digest(s) == <<s.source, s.content, s.root>>
Digests == Sources \X Contents \X Roots

(* Mutated form of KnownGroups: the source of a signal is not looked up.   *)
KnownGroupsWithoutSource(ident, s) ==
  {ident[i].group : i \in {j \in DOMAIN ident :
      ident[j].root = s.root \/ j \in s.parents}}

(* Groups already canonical for the root, the parents or the source of s.  *)
KnownGroups(ident, s) ==
  {ident[i].group : i \in {j \in DOMAIN ident :
      \/ ident[j].root = s.root
      \/ ident[j].source = s.source
      \/ j \in s.parents}}

CanonicalGroup(ident, s) ==
  IF KnownGroups(ident, s) = {}
  THEN s.group
  ELSE CHOOSE g \in KnownGroups(ident, s) : TRUE

GroupsAgree(ident, s) ==
  \A g, h \in KnownGroups(ident, s) : g = h

(* Mutated form of LineageKept: a signal id may come back as another       *)
(* signal.                                                                 *)
LineageKeptByParents(ident, s) ==
  \A p \in s.parents \cap DOMAIN ident : ident[p].root = s.root

(* validate_signal_lineage: a signal id keeps its identity, and a signal   *)
(* derived from a remembered parent has that parent's root.                *)
LineageKept(ident, s) ==
  /\ s.id \in DOMAIN ident =>
       /\ Digest(ident[s.id]) = Digest(s)
       /\ ident[s.id].supplied = s.group
  /\ \A p \in s.parents \cap DOMAIN ident : ident[p].root = s.root

Admissible(ident, s) == GroupsAgree(ident, s) /\ LineageKept(ident, s)

RememberSignalIdentity(ident, s) ==
  [i \in DOMAIN ident \cup {s.id} |->
     IF i = s.id
     THEN [source |-> s.source, content |-> s.content, root |-> s.root,
           group |-> CanonicalGroup(ident, s), supplied |-> s.group]
     ELSE ident[i]]

-----------------------------------------------------------------------------
(* Directional correlation credit.  A key with no balance is a balance of  *)
(* zero.  The unresolved slot is credited per frame version.               *)

CreditTarget(t, version) == IF t = Unresolved THEN <<t, version>> ELSE <<t, 0>>
CreditKeyset ==
  Groups \X (Targets \X (0 .. MaxFrame)) \X {"confirming", "disconfirming"}

CreditKeys(group, likelihoods, version) ==
  {<<group, CreditTarget(t, version), likelihoods[t]>> :
      t \in {u \in Targets : likelihoods[u] # "neutral"}}

(* Mutated form of SafeCreditIncrement: the request is never cut back.     *)
UncappedIncrement(credit, key, requested) == requested

SafeCreditIncrement(credit, key, requested) ==
  IF requested <= Cap - credit[key] THEN requested
  ELSE IF Cap >= credit[key] THEN Cap - credit[key] ELSE 0

(* Mutated form of SameRoot: restatements recognised by parents only.      *)
NeverSameRoot(ident, s) == FALSE

(* Mutated form of ExactRepeat: told by the signal id instead.             *)
SameSignalId(ident, s) == s.id \in DOMAIN ident

ExactRepeat(ident, s) == \E i \in DOMAIN ident : Digest(ident[i]) = Digest(s)
SameRoot(ident, s)    == \E i \in DOMAIN ident : ident[i].root = s.root
Correlated(ident, s)  ==
  \E i \in DOMAIN ident : \/ ident[i].source = s.source
                          \/ ident[i].group = CanonicalGroup(ident, s)

CorrelationStatus(ident, s) ==
  IF ExactRepeat(ident, s) THEN "duplicate_exact"
  ELSE IF SameRoot(ident, s) \/ s.parents # {} THEN "correlated_restatement"
  ELSE IF Correlated(ident, s) THEN "correlated_novel"
  ELSE "novel"

(* The effective weight of a judged event: nothing for a repeat, else the  *)
(* base weight or what the scarcest of its credit keys still allows.       *)
IsEffectiveWeight(w, status, credit, keys, base) ==
  \/ /\ status \in {"duplicate_exact", "correlated_restatement"}
     /\ w = 0
  \/ /\ status \notin {"duplicate_exact", "correlated_restatement"}
     /\ keys = {}
     /\ w = base
  \/ /\ status \notin {"duplicate_exact", "correlated_restatement"}
     /\ \E k \in keys : w = SafeCreditIncrement(credit, k, base)
     /\ \A k \in keys : w <= SafeCreditIncrement(credit, k, base)

DiscardReason(status, keys, w) ==
  IF status = "duplicate_exact" THEN "duplicate_exact"
  ELSE IF keys # {} /\ w = 0 /\ status # "correlated_restatement"
       THEN "correlation_credit_saturated"
       ELSE Accepted

(* Mutated form of CommitCorrelationCredit: the last weight replaces the   *)
(* balance.                                                                *)
CreditReplaced(credit, keys, w, reason) ==
  [k \in DOMAIN credit |->
     IF k \in keys /\ reason = Accepted THEN w ELSE credit[k]]

CommitCorrelationCredit(credit, keys, w, reason) ==
  [k \in DOMAIN credit |->
     IF k \in keys /\ reason = Accepted THEN credit[k] + w ELSE credit[k]]

-----------------------------------------------------------------------------
(* Events and the plan of a cycle.  The id of an event is made of the      *)
(* cycle, the signal's identity digest and how many signals of the batch   *)
(* up to this one share that digest; a decomposed projection has a second  *)
(* event, for the source it claims.                                        *)

EventIds ==
  [cycle: 1 .. MaxCycle, digest: Digests, occurrence: 1 .. MaxBatch,
   part: {"primary", "source"}]

Event ==
  [signal: SignalIds, source: Sources, root: Roots, parents: SUBSET SignalIds,
   status: Statuses, weight: Nat, reason: Reasons, keys: SUBSET CreditKeyset]

(* Mutated form of Occurrence: repeats counted before this signal.         *)
OccurrenceBefore(batch, i) ==
  Cardinality({j \in 1 .. (i - 1) : Digest(batch[j]) = Digest(batch[i])})

Occurrence(batch, i) ==
  Cardinality({j \in 1 .. i : Digest(batch[j]) = Digest(batch[i])})

PlanSignalEvents(c, batch) ==
  [i \in 1 .. Len(batch) |->
     [signal |-> batch[i],
      id |-> [cycle |-> c, digest |-> Digest(batch[i]),
              occurrence |-> Occurrence(batch, i), part |-> "primary"]]]

SourceClaimId(id) == [id EXCEPT !.part = "source"]

(* Ids of the events the ledger of the belief state already holds.         *)
PriorEvidenceIds == DOMAIN memory.events

EmptyMemory ==
  [ident |-> [i \in {} |-> i], credit |-> [k \in CreditKeyset |-> 0],
   events |-> [e \in {} |-> e]]

EventOf(s, status, w, reason, keys) ==
  [signal |-> s.id, source |-> s.source, root |-> s.root,
   parents |-> s.parents, status |-> status, weight |-> w,
   reason |-> reason, keys |-> keys]

WithEvent(events, id, event) ==
  [e \in DOMAIN events \cup {id} |-> IF e = id THEN event ELSE events[e]]

(* commit: the identity, the event under accepted or discarded history,    *)
(* and the credit it spends.                                               *)
CommitEvent(mem, s, id, event) ==
  [ident  |-> RememberSignalIdentity(mem.ident, s),
   credit |-> CommitCorrelationCredit(mem.credit, event.keys, event.weight,
                                      event.reason),
   events |-> WithEvent(mem.events, id, event)]

Current == queue[next]

-----------------------------------------------------------------------------
Init ==
  /\ memory = EmptyMemory
  /\ working = EmptyMemory
  /\ shadow = EmptyMemory.ident
  /\ phase = "idle"
  /\ cycle = 0
  /\ frame = 1
  /\ queue = <<>>
  /\ next = 1

(* The gate is called with the closed signals of a cycle: the next one, or *)
(* the last one again (a caller that integrates the same cycle twice).     *)
BeginCycle(c, batch) ==
  /\ phase = "idle"
  /\ c \in {cycle, cycle + 1} \cap (1 .. MaxCycle)
  /\ Cardinality(DOMAIN memory.events) <= MaxEvents
  /\ phase' = "preflight"
  /\ queue' = PlanSignalEvents(c, batch)
  /\ next' = 1
  /\ UNCHANGED <<memory, working, shadow, cycle, frame>>

(* An exception: the working copy is dropped, the belief state is kept.    *)
DropCycle ==
  /\ phase' = "idle"
  /\ working' = memory
  /\ shadow' = memory.ident
  /\ queue' = <<>>
  /\ next' = 1
  /\ UNCHANGED <<memory, cycle, frame>>

(* Mutated form of PreflightSignal: identities are remembered unchecked.   *)
PreflightUnchecked ==
  /\ phase = "preflight"
  /\ next <= Len(queue)
  /\ shadow' = RememberSignalIdentity(shadow, Current.signal)
  /\ next' = next + 1
  /\ UNCHANGED <<memory, working, phase, cycle, frame, queue>>

PreflightSignal ==
  /\ phase = "preflight"
  /\ next <= Len(queue)
  /\ Admissible(shadow, Current.signal)
  /\ shadow' = RememberSignalIdentity(shadow, Current.signal)
  /\ next' = next + 1
  /\ UNCHANGED <<memory, working, phase, cycle, frame, queue>>

LineageHolds(ident) ==
  \A i \in 1 .. Len(queue) : LineageKept(ident, queue[i].signal)

PreflightDone ==
  /\ phase = "preflight"
  /\ next = Len(queue) + 1
  /\ LineageHolds(shadow)
  /\ phase' = "gate"
  /\ next' = 1
  /\ UNCHANGED <<memory, working, shadow, cycle, frame, queue>>

(* A signal the memory at hand refuses, or a batch whose lineage clashes.  *)
Refuse ==
  /\ \/ /\ phase = "preflight"
        /\ next <= Len(queue)
        /\ ~Admissible(shadow, Current.signal)
     \/ /\ phase = "preflight"
        /\ next = Len(queue) + 1
        /\ ~LineageHolds(shadow)
  /\ DropCycle

(* Anything raised once judgments are asked for: a provider error, or a    *)
(* later stage of integrate_cycle (solver, frame policy, expansion).       *)
IntegrationFails ==
  /\ phase = "gate"
  /\ DropCycle

InGate ==
  /\ phase = "gate"
  /\ next <= Len(queue)
  /\ Admissible(working.ident, Current.signal)
  /\ next' = next + 1
  /\ UNCHANGED <<memory, shadow, phase, cycle, frame, queue>>

(* Mutated form of GateReplay: the replay is committed as a duplicate.     *)
GateReplayRecorded ==
  /\ InGate
  /\ Current.id \in PriorEvidenceIds
  /\ working' = CommitEvent(working, Current.signal, Current.id,
                   EventOf(Current.signal, "duplicate_exact", 0,
                           "duplicate_exact", {}))

(* An event id the ledger already holds: the identity is remembered, the   *)
(* replayed event never reaches the memory or the ledger again.            *)
GateReplay ==
  /\ InGate
  /\ Current.id \in PriorEvidenceIds
  /\ working' = [working EXCEPT
                   !.ident = RememberSignalIdentity(@, Current.signal)]

(* An exact repeat is discarded without asking for a judgment.             *)
GateDuplicate ==
  LET s == Current.signal IN
  /\ InGate
  /\ Current.id \notin PriorEvidenceIds
  /\ CorrelationStatus(working.ident, s) = "duplicate_exact"
  /\ working' = CommitEvent(working, s, Current.id,
                   EventOf(s, "duplicate_exact", 0, "duplicate_exact", {}))

(* A judged event: the likelihoods spend credit of the canonical group.    *)
JudgedEvent(mem, s, likelihoods, base, w) ==
  LET status == CorrelationStatus(mem.ident, s)
      keys   == CreditKeys(CanonicalGroup(mem.ident, s), likelihoods, frame)
  IN  /\ IsEffectiveWeight(w, status, mem.credit, keys, base)
      /\ working' = CommitEvent(mem, s, Current.id,
                       EventOf(s, status, w, DiscardReason(status, keys, w),
                               keys))

GateJudge(likelihoods, base, w) ==
  /\ InGate
  /\ Current.signal.kind = "direct"
  /\ Current.id \notin PriorEvidenceIds
  /\ CorrelationStatus(working.ident, Current.signal) # "duplicate_exact"
  /\ JudgedEvent(working, Current.signal, likelihoods, base, w)

(* The model's judgment fails its schema, also after the repairs: the      *)
(* signal leaves a neutral discarded event of no weight.                   *)
GateSchemaViolation ==
  LET s      == Current.signal
      status == CorrelationStatus(working.ident, s)
  IN
  /\ InGate
  /\ s.kind = "direct"
  /\ Current.id \notin PriorEvidenceIds
  /\ status # "duplicate_exact"
  /\ working' = CommitEvent(working, s, Current.id,
                   EventOf(s, status, 0, "schema_violation", {}))

(* An agent's projection: its judgment endorses at most one hypothesis; a  *)
(* claimed source becomes a second, neutral event classified against the   *)
(* memory from before the first.                                           *)
GateProjection(endorsed, base, w, claimBase) ==
  LET s == Current.signal
      status == CorrelationStatus(working.ident, s)
      likelihoods == [t \in Targets |->
                        IF t \in endorsed THEN "confirming" ELSE "neutral"]
      keys == CreditKeys(CanonicalGroup(working.ident, s), likelihoods, frame)
      sender == CommitEvent(working, s, Current.id,
                  EventOf(s, status, w, DiscardReason(status, keys, w), keys))
      claimWeight == IF status = "correlated_restatement" THEN 0 ELSE claimBase
  IN
  /\ InGate
  /\ s.kind # "direct"
  /\ Current.id \notin PriorEvidenceIds
  /\ status # "duplicate_exact"
  /\ IsEffectiveWeight(w, status, working.credit, keys, base)
  /\ working' = IF s.kind = "sender" THEN sender
                ELSE CommitEvent(sender, s, SourceClaimId(Current.id),
                       EventOf(s, status, claimWeight, Accepted, {}))

(* The cycle is integrated: the belief state takes the working copy.  The  *)
(* frame may have been expanded by the same cycle.                         *)
CommitCycle ==
  /\ phase = "gate"
  /\ next = Len(queue) + 1
  /\ memory' = working
  /\ shadow' = working.ident
  /\ cycle' = queue[1].id.cycle
  /\ frame' \in {frame, frame + 1} \cap (1 .. MaxFrame)
  /\ phase' = "idle"
  /\ queue' = <<>>
  /\ next' = 1
  /\ UNCHANGED working

Batches == UNION {[1 .. n -> Arrivals] : n \in 1 .. MaxBatch}

Next ==
  \/ \E c \in 1 .. MaxCycle, batch \in Batches : BeginCycle(c, batch)
  \/ PreflightSignal
  \/ PreflightDone
  \/ Refuse
  \/ IntegrationFails
  \/ GateReplay
  \/ GateDuplicate
  \/ \E likelihoods \in Judgments, base \in Qualities :
       \E w \in 0 .. base : GateJudge(likelihoods, base, w)
  \/ GateSchemaViolation
  \/ \E endorsed \in {{h} : h \in Hypotheses} \cup {{}},
       base \in Qualities, claimBase \in Qualities :
       \E w \in 0 .. base : GateProjection(endorsed, base, w, claimBase)
  \/ CommitCycle

Spec == Init /\ [][Next]_vars

-----------------------------------------------------------------------------
(* Type invariant: the memory and its working copy are snapshots whose     *)
(* identities, balances and events are well formed; the preflight's shadow *)
(* is a set of identities; the planned queue pairs signals with event ids. *)
IsSnapshot(mem) ==
  /\ DOMAIN mem = {"ident", "credit", "events"}
  /\ DOMAIN mem.ident \subseteq SignalIds
  /\ \A i \in DOMAIN mem.ident : mem.ident[i] \in Identity
  /\ DOMAIN mem.credit = CreditKeyset
  /\ \A k \in CreditKeyset : mem.credit[k] \in Nat
  /\ DOMAIN mem.events \subseteq EventIds
  /\ \A e \in DOMAIN mem.events : mem.events[e] \in Event

TypeOK ==
  /\ IsSnapshot(memory)
  /\ IsSnapshot(working)
  /\ DOMAIN shadow \subseteq SignalIds
  /\ \A i \in DOMAIN shadow : shadow[i] \in Identity
  /\ phase \in {"idle", "preflight", "gate"}
  /\ cycle \in 0 .. MaxCycle
  /\ frame \in 1 .. MaxFrame
  /\ queue \in Seq([signal: Arrivals, id: EventIds])
  /\ \A i \in DOMAIN queue : /\ queue[i].id.digest = Digest(queue[i].signal)
                             /\ queue[i].id.part = "primary"
  /\ next \in 1 .. (Len(queue) + 1)

(* A group never moves one target in one direction by more than the cap,   *)
(* whatever the order and the number of the calls (classify).              *)
WithinCap(mem) == \A k \in CreditKeyset : mem.credit[k] <= Cap

CreditWithinCap == WithinCap(memory) /\ WithinCap(working)

(* The books balance: what a key has spent is the sum of the weights of    *)
(* the accepted events that drew on it (_commit_correlation_credit), so    *)
(* the cap bounds the movement the events really caused.                   *)
SpentOn(mem, k) ==
  SumFunctionOnSet([e \in DOMAIN mem.events |-> mem.events[e].weight],
    {e \in DOMAIN mem.events : /\ mem.events[e].reason = Accepted
                               /\ k \in mem.events[e].keys})

CreditIsSpentWeight ==
  \A k \in CreditKeyset : memory.credit[k] = SpentOn(memory, k)

(* One canonical correlation group per source and per derivation root, in  *)
(* whatever order sources and roots meet (_canonical_correlation_group,    *)
(* and the coherence validator of EvidenceMemorySnapshot never fires).     *)
GroupsFunctional(ident) ==
  \A i, j \in DOMAIN ident :
     (ident[i].source = ident[j].source \/ ident[i].root = ident[j].root)
       => ident[i].group = ident[j].group

CanonicalGroups == GroupsFunctional(memory.ident) /\ GroupsFunctional(working.ident)

(* Independent accumulation: two events of positive weight either come     *)
(* from one integration of one signal, or have different derivation roots  *)
(* and neither signal is a parent of the other.                            *)
SameIntegration(d, e) ==
  /\ d.cycle = e.cycle
  /\ d.digest = e.digest
  /\ d.occurrence = e.occurrence

Independent(d, e) ==
  /\ d.root # e.root
  /\ d.signal \notin e.parents
  /\ e.signal \notin d.parents

Accumulates(events) ==
  \A d, e \in DOMAIN events :
     (events[d].weight > 0 /\ events[e].weight > 0 /\ ~SameIntegration(d, e))
        => Independent(events[d], events[e])

IndependentAccumulation == Accumulates(memory.events)

(* An exact repeat of a signal, in the same cycle, a later cycle or under  *)
(* another signal id, is never accepted: at most one integration of a      *)
(* signal identity has accepted events.                                    *)
RepeatsDiscarded(events) ==
  \A d, e \in DOMAIN events :
     (/\ d.digest = e.digest
      /\ events[d].reason = Accepted
      /\ events[e].reason = Accepted) => SameIntegration(d, e)

ExactRepeatsDiscarded == RepeatsDiscarded(memory.events)

(* The preflight is enough: once judgments are asked for, no signal of the *)
(* batch is refused for its group or its lineage any more, so no model     *)
(* call is wasted on a batch the memory would reject.                      *)
NoLateRefusal ==
  (phase = "gate" /\ next <= Len(queue))
     => Admissible(working.ident, Current.signal)

(* The memory is append-only: identities, groups and events are never      *)
(* rewritten, balances never shrink (validate_transition).                 *)
Extends(old, new) ==
  /\ \A i \in DOMAIN old.ident :
        i \in DOMAIN new.ident /\ new.ident[i] = old.ident[i]
  /\ \A e \in DOMAIN old.events :
        e \in DOMAIN new.events /\ new.events[e] = old.events[e]
  /\ \A k \in CreditKeyset : new.credit[k] >= old.credit[k]

MemoryAppendOnly == [][Extends(memory, memory')]_vars

(* Integrating a cycle again adds nothing for the signals it already       *)
(* holds: a commit whose planned event ids are all in the ledger changes   *)
(* no balance and no event.                                                *)
ReplayIsNeutral ==
  [][(/\ phase = "gate"
      /\ \A i \in 1 .. Len(queue) : queue[i].id \in PriorEvidenceIds)
        => memory'.credit = memory.credit /\ memory'.events = memory.events]_vars

(* What the design says of derived signals: "A summary derived from a      *)
(* source keeps the source's derivation root."                             *)
DerivedKeepsRoot ==
  \A e \in DOMAIN memory.events : \A p \in memory.events[e].parents :
     p \in DOMAIN memory.ident => memory.ident[p].root = memory.events[e].root
=============================================================================
