-------------------------- MODULE QuestionRunProofs --------------------------
(***************************************************************************)
(* Theorems about Regimes and QuestionRun, for any questions, cycles,      *)
(* probes in a cycle and deaths.                                           *)
(*                                                                         *)
(* They speak of the ledger; the proofs speak of the log: what is in the   *)
(* ledger followed by what is being appended.  Writing a line leaves the   *)
(* log as it is, a failing append or a death cuts it off, and all other    *)
(* steps add the records of one call at its end.                           *)
(***************************************************************************)
EXTENDS Regimes, SequenceTheorems, FiniteSetTheorems, TLAPS

log == ledger \o todo

-----------------------------------------------------------------------------
(* What holds of a log L of the running attempt and of every prefix of it. *)

Projections == {"answer_projection", "belief_state_projection"}

(* The lines of the attempt; those of a kind, of a cycle.                  *)
Ours(L) == {i \in DOMAIN L : L[i].attempt = attempt}
Of(L, kind) == {i \in Ours(L) : L[i].kind = kind}
OfCycle(L, kind, n) == {i \in Of(L, kind) : L[i].cycle = n}
Named(L, lines) == UNION {L[i].names : i \in lines}

(* Nobody writes of an attempt or, in the core and after it, of a cycle    *)
(* after n.                                                                *)
NothingAhead(L, n) ==
  /\ \A i \in DOMAIN L : L[i].attempt <= attempt
  /\ \A i \in Ours(L) :
       L[i].kind \in CoreKinds \cup Projections \cup {"completed_run"} =>
         L[i].cycle <= n

(* A belief state closes the records of its cycle, and is the only one.    *)
BeforeState(L, b, kind) == {i \in OfCycle(L, kind, L[b].cycle) : i < b}

Sealed(L, b) ==
  LET Before(kind) == BeforeState(L, b, kind)
  IN L[b].cycle > 0 =>
       /\ Before("cycle") # {} /\ Before("probe_set") # {}
       /\ Before("probe_planning") # {} <=> Before("probe_execution") # {}
       /\ config.regime = "question" => Before("probe_planning") # {}
       /\ Named(L, Before("external_signal")) \ {"context", "told"}
            = Named(L, Before("probe_execution"))
       /\ Named(L, Before("evidence_event")) = Named(L, Before("external_signal"))
       /\ Before("answer_projection") \cup Before("belief_state_projection") = {}

StatesSeal(L) == \A b \in Of(L, "belief_state") : Sealed(L, b)

OneState(L) ==
  \A i, j \in Of(L, "belief_state") : L[i].cycle = L[j].cycle => i = j

(* The signals that are the context.                                       *)
Context(L) == {i \in Of(L, "external_signal") : "context" \in L[i].names}

OneContext(L) ==
  /\ \A i, j \in Context(L) : i = j
  /\ \A i \in Context(L) : L[i].cycle = 1

(* What the record of the end says is so, and it is the last line.         *)
Closed(L) ==
  \A i \in Of(L, "completed_run") :
    /\ i = Len(L)
    /\ \A n \in 0 .. L[i].cycle : OfCycle(L, "belief_state", n) # {}
    /\ \A b \in Of(L, "belief_state") : L[b].cycle <= L[i].cycle
    /\ \A n \in 1 .. L[i].cycle :
         OfCycle(L, "answer_projection", n) \cup
         OfCycle(L, "belief_state_projection", n) # {}
    /\ L[i].names \cap {"max_cycles", "fixed_rounds_completed"} # {}
         <=> L[i].cycle = MaxCycles
    /\ config.context => Context(L) # {}

LogInv(L, n) ==
  /\ L \in Seq(Line)
  /\ NothingAhead(L, n)
  /\ StatesSeal(L) /\ OneState(L) /\ OneContext(L) /\ Closed(L)

-----------------------------------------------------------------------------
(* Where the run stands.                                                   *)

Fresh == {"admit", "initialize", "begin"}
QuestionStages == {"design", "plan", "execute", "integrate", "project", "advance"}
RoundStages == {"round", "round_execute", "round_integrate", "round_project"}
LoopStages == {"collect", "loop_integrate", "loop_project", "loop_stop"}
Projecting == {"project", "round_project", "loop_project"}
Begun == QuestionStages \cup RoundStages \cup {"result"}

Types ==
  /\ config \in Configs
  /\ config.context => config.regime = "question"
  /\ attempt \in 1 .. MaxAttempts
  /\ stage = "dead" => attempt < MaxAttempts
  /\ stage \in Ended \cup Fresh \cup QuestionStages \cup RoundStages
                 \cup LoopStages \cup {"result"}
  /\ stage \in {"dead", "admit", "initialize"} \cup QuestionStages => config.regime = "question"
  /\ stage \in {"begin"} \cup RoundStages => config.regime = "rounds"
  /\ stage \in LoopStages => config.regime = "loop"
  /\ cycle \in 0 .. MaxCycles
  /\ stage \in Fresh \cup QuestionStages \cup RoundStages \cup LoopStages =>
       cycle < MaxCycles \/ stage \in Projecting \cup {"loop_stop"}
  /\ stage \in Projecting \cup {"advance", "loop_stop"} => cycle > 0
  /\ stage \in Fresh \cup {"design"} => cycle = 0 /\ pool = {}
  /\ stop \in StopReasons

(* A candidate was proposed before now, in a cycle that is over.           *)
Proposals ==
  /\ pool \subseteq Candidates /\ selected \subseteq Candidates
  /\ proposed \subseteq Candidates
  /\ \A c \in pool : /\ c.from <= cycle
                     /\ stage \in {"project", "advance"} => c.from < cycle
  /\ stage \in {"project", "advance"} => \A c \in proposed : c.from = cycle

Signals ==
  /\ signals \subseteq Questions \cup {"context", "told"}
  /\ stage = "integrate" =>
       ("told" \notin signals /\ ("context" \in signals <=> config.context /\ cycle = 0))
  /\ stage \in {"begin"} \cup RoundStages \cup LoopStages => "context" \notin signals
  /\ stage = "round_execute" => signals \subseteq {"told"} /\ selected # {}
  /\ stage = "round_integrate" /\ selected = {} => signals = {"told"}
  /\ stage = "loop_integrate" => signals \subseteq {"told"}

(* The lines of cycles after n.                                            *)
Ahead(L, n) == {i \in Ours(L) : L[i].cycle > n}

PlansOnly(L, n) ==
  /\ \A i \in Ahead(L, n) : L[i].kind = "probe_planning" /\ L[i].cycle = n + 1
  /\ Ahead(L, n) # {}

PlansExecuted(L, n, brought) ==
  /\ \A i \in Ahead(L, n) :
       /\ L[i].kind \in {"probe_planning", "probe_execution"} /\ L[i].cycle = n + 1
       /\ L[i].kind = "probe_execution" => L[i].names = brought
  /\ Ahead(L, n) \cap Of(L, "probe_planning") # {}
  /\ Ahead(L, n) \cap Of(L, "probe_execution") # {}

Brought == signals \ {"context", "told"}

(* What the ledger holds of the cycle that is under way.                   *)
Asked(L) ==
  /\ stage \in Fresh => Ours(L) = {}
  /\ stage \in Fresh \cup LoopStages \cup Projecting
               \cup {"design", "plan", "advance", "round"} => Ahead(L, cycle) = {}
  /\ stage \in {"execute", "round_execute"} => PlansOnly(L, cycle)
  /\ stage = "integrate" => PlansExecuted(L, cycle, Brought)
  /\ stage = "round_integrate" =>
       IF selected = {} THEN Ahead(L, cycle) = {} ELSE PlansExecuted(L, cycle, Brought)

(* Every cycle up to n has left its state and, unless it is being          *)
(* projected, its projection; the first one the context.                   *)
States(L, n) == \A k \in 0 .. n : OfCycle(L, "belief_state", k) # {}

Projected(L, n) ==
  \A k \in 1 .. n : \/ OfCycle(L, "answer_projection", k) # {}
                    \/ OfCycle(L, "belief_state_projection", k) # {}

Chain(L) ==
  stage \in Begun =>
    /\ States(L, cycle)
    /\ Projected(L, IF stage \in Projecting THEN cycle - 1 ELSE cycle)
    /\ config.context /\ cycle > 0 => Context(L) # {}

(* Nothing but the end follows the end.                                    *)
Open(L) == stage \notin {"returned", "unwritten", "dead"} => Of(L, "completed_run") = {}

Stops ==
  stage = "result" =>
    /\ stop \in {"max_cycles", "fixed_rounds_completed"} <=> cycle = MaxCycles
    /\ config.context => cycle > 0

(* A line of the core is of a cycle that has its belief state.             *)
AllWhole(L) ==
  \A i \in Ours(L) : L[i].kind \in CoreKinds =>
    OfCycle(L, "belief_state", L[i].cycle) # {}

Whole(L) == stage \notin {"dead", "unwritten"} => AllWhole(L)

RunInv == Types /\ Proposals /\ Signals /\ Stops
StageInv(L) == Asked(L) /\ Chain(L) /\ Open(L) /\ Whole(L)

Written == ledger \in Seq(Line) /\ todo \in Seq(Line)

IInv == RunInv /\ Written /\ LogInv(log, cycle) /\ StageInv(log)

-----------------------------------------------------------------------------
(* Sequences.                                                              *)

(* L is how M begins.                                                      *)
Prefix(L, M) ==
  /\ L \in Seq(Line) /\ M \in Seq(Line) /\ Len(L) <= Len(M)
  /\ \A i \in 1 .. Len(L) : M[i] = L[i]

(* The lines of M behind L.                                                *)
Added(L, M) == {i \in DOMAIN M : i > Len(L)}

(* The lines of a log are numbered from one.                               *)
LEMMA Lines ==
  ASSUME NEW L \in Seq(Line)
  PROVE  /\ Len(L) \in Nat /\ DOMAIN L = 1 .. Len(L)
         /\ \A i \in DOMAIN L : i \in Nat /\ i >= 1 /\ i <= Len(L) /\ L[i] \in Line
  <1>1. Len(L) \in Nat /\ DOMAIN L = 1 .. Len(L)
    BY LenProperties
  <1>2. \A i \in 1 .. Len(L) : L[i] \in Line
    BY ElementOfSeq
  <1> QED BY <1>1, <1>2

(* What is in a line.                                                      *)
LEMMA LineTypes ==
  ASSUME NEW r \in Line
  PROVE  /\ r.attempt \in Nat /\ r.attempt <= MaxAttempts
         /\ r.cycle \in Nat /\ r.cycle \in Int /\ r.cycle <= MaxCycles
         /\ r.kind \in Kinds /\ r.names \subseteq Names
  BY QuestionAssumption DEF Line

(* Putting records behind a log prolongs it by them.                       *)
LEMMA Prolong ==
  ASSUME NEW L \in Seq(Line), NEW B \in Seq(Line)
  PROVE  /\ L \o B \in Seq(Line) /\ Prefix(L, L \o B)
         /\ Len(L \o B) = Len(L) + Len(B)
         /\ \A i \in Added(L, L \o B) :
              i - Len(L) \in DOMAIN B /\ (L \o B)[i] = B[i - Len(L)]
         /\ \A k \in DOMAIN B :
              Len(L) + k \in Added(L, L \o B) /\ (L \o B)[Len(L) + k] = B[k]
  <1> DEFINE M == L \o B
  <1>1. /\ M \in Seq(Line) /\ Len(M) = Len(L) + Len(B)
        /\ \A i \in 1 .. Len(L) + Len(B) :
             M[i] = IF i <= Len(L) THEN L[i] ELSE B[i - Len(L)]
    BY ConcatProperties
  <1> HIDE DEF M
  <1>2. Len(L) \in Nat /\ Len(B) \in Nat /\ DOMAIN B = 1 .. Len(B)
    BY Lines
  <1>3. DOMAIN M = 1 .. Len(M)
    BY <1>1, Lines
  <1>4. Prefix(L, M)
    BY <1>1, <1>2 DEF Prefix
  <1>5. \A i \in Added(L, M) : i - Len(L) \in DOMAIN B /\ M[i] = B[i - Len(L)]
    <2> TAKE i \in Added(L, M)
    <2>1. i \in 1 .. Len(L) + Len(B) /\ i > Len(L)
      BY <1>1, <1>3 DEF Added
    <2>2. i - Len(L) \in 1 .. Len(B)
      BY <2>1, <1>2
    <2>3. M[i] = B[i - Len(L)]
      BY <2>1, <1>1, <1>2
    <2> QED BY <2>2, <2>3, <1>2
  <1>6. \A k \in DOMAIN B : Len(L) + k \in Added(L, M) /\ M[Len(L) + k] = B[k]
    <2> TAKE k \in DOMAIN B
    <2>1. k \in 1 .. Len(B)
      BY <1>2
    <2>2. Len(L) + k \in 1 .. Len(L) + Len(B) /\ Len(L) + k > Len(L)
          /\ (Len(L) + k) - Len(L) = k
      BY <2>1, <1>2
    <2>3. M[Len(L) + k] = B[k]
      BY <2>2, <1>1, <1>2
    <2>4. Len(L) + k \in Added(L, M)
      BY <2>2, <1>1, <1>3 DEF Added
    <2> QED BY <2>3, <2>4
  <1> QED BY <1>1, <1>4, <1>5, <1>6 DEF M

(* A line of a log is one of its beginning or one behind it.               *)
LEMMA OldOrNew ==
  ASSUME NEW L, NEW M, Prefix(L, M)
  PROVE  /\ DOMAIN L \subseteq DOMAIN M
         /\ \A i \in DOMAIN L : M[i] = L[i]
         /\ \A i \in DOMAIN M : i \in DOMAIN L \/ i \in Added(L, M)
         /\ \A i \in Added(L, M), j \in DOMAIN L : i \in DOMAIN M /\ j < i
  <1>1. Len(L) \in Nat /\ DOMAIN L = 1 .. Len(L)
    BY Lines DEF Prefix
  <1>2. Len(M) \in Nat /\ DOMAIN M = 1 .. Len(M)
    BY Lines DEF Prefix
  <1> QED BY <1>1, <1>2 DEF Prefix, Added

(* A log is followed by nothing, and the head of what follows it can be    *)
(* moved to its end.                                                       *)
LEMMA HeadMoves ==
  ASSUME NEW L \in Seq(Line), NEW B \in Seq(Line), B # <<>>
  PROVE  /\ Append(L, Head(B)) \in Seq(Line) /\ Tail(B) \in Seq(Line)
         /\ Append(L, Head(B)) \o Tail(B) = L \o B
  <1>1. /\ Head(B) \in Line /\ Tail(B) \in Seq(Line)
        /\ Len(Tail(B)) = Len(B) - 1
        /\ \A i \in 1 .. Len(Tail(B)) : Tail(B)[i] = B[i + 1]
    BY HeadTailProperties
  <1>2. Head(B) = B[1]
    OBVIOUS
  <1>3. Len(L) \in Nat /\ Len(B) \in Nat \ {0}
    BY EmptySeq, Lines
  <1> DEFINE A == Append(L, Head(B))
  <1>4. /\ A \in Seq(Line) /\ Len(A) = Len(L) + 1
        /\ \A i \in 1 .. Len(L) : A[i] = L[i]
        /\ A[Len(L) + 1] = Head(B)
    BY <1>1, AppendProperties
  <1> DEFINE T == Tail(B)
  <1> HIDE DEF A, T
  <1>5. /\ T \in Seq(Line) /\ Len(T) = Len(B) - 1
        /\ \A i \in 1 .. Len(T) : T[i] = B[i + 1]
    BY <1>1 DEF T
  <1>6. /\ A \o T \in Seq(Line) /\ Len(A \o T) = Len(A) + Len(T)
        /\ \A i \in 1 .. Len(A) + Len(T) :
             (A \o T)[i] = IF i <= Len(A) THEN A[i] ELSE T[i - Len(A)]
    BY <1>4, <1>5, ConcatProperties
  <1>7. /\ L \o B \in Seq(Line) /\ Len(L \o B) = Len(L) + Len(B)
        /\ \A i \in 1 .. Len(L) + Len(B) :
             (L \o B)[i] = IF i <= Len(L) THEN L[i] ELSE B[i - Len(L)]
    BY ConcatProperties
  <1>8. Len(A \o T) = Len(L \o B)
    BY <1>3, <1>4, <1>5, <1>6, <1>7
  <1>9. \A i \in 1 .. Len(A \o T) : (A \o T)[i] = (L \o B)[i]
    <2> TAKE i \in 1 .. Len(A \o T)
    <2>1. i \in 1 .. Len(L) + Len(B) /\ i \in 1 .. Len(A) + Len(T)
      BY <1>6, <1>7, <1>8
    <2>2. CASE i <= Len(L)
      BY <2>1, <2>2, <1>3, <1>4, <1>6, <1>7
    <2>3. CASE i = Len(L) + 1
      <3>1. (A \o T)[i] = Head(B)
        BY <2>1, <2>3, <1>3, <1>4, <1>6
      <3>2. (L \o B)[i] = B[1]
        BY <2>1, <2>3, <1>3, <1>7
      <3> QED BY <3>1, <3>2, <1>2
    <2>4. CASE i > Len(L) + 1
      <3> DEFINE k == i - (Len(L) + 1)
      <3>1. k \in 1 .. Len(T) /\ k + 1 = i - Len(L) /\ k = i - Len(A)
        BY <2>1, <2>4, <1>3, <1>4, <1>5
      <3>2. (A \o T)[i] = T[k]
        BY <2>1, <2>4, <3>1, <1>3, <1>4, <1>6
      <3>3. (L \o B)[i] = B[k + 1]
        BY <2>1, <2>4, <3>1, <1>3, <1>7
      <3> QED BY <3>1, <3>2, <3>3, <1>5
    <2> QED BY <2>1, <2>2, <2>3, <2>4, <1>3, SMTT(30)
  <1>10. A \o T = L \o B
    BY <1>6, <1>7, <1>8, <1>9, SeqEqual
  <1> QED BY <1>4, <1>1, <1>10 DEF A, T

(* A record by itself is a log of one line.                                *)
LEMMA OneRecord ==
  ASSUME NEW r \in Line
  PROVE  <<r>> \in Seq(Line) /\ Len(<<r>>) = 1 /\ DOMAIN <<r>> = {1} /\ <<r>>[1] = r
  OBVIOUS

-----------------------------------------------------------------------------
(* Logs and their beginnings.                                              *)

(* What came before a line of the beginning stays the same.                *)
LEMMA SameBefore ==
  ASSUME NEW L, NEW M, Prefix(L, M), NEW b \in DOMAIN L, NEW kind
  PROVE  /\ BeforeState(M, b, kind) = BeforeState(L, b, kind)
         /\ Named(M, BeforeState(M, b, kind)) = Named(L, BeforeState(L, b, kind))
  <1>1. /\ DOMAIN L \subseteq DOMAIN M
        /\ \A i \in DOMAIN L : M[i] = L[i]
        /\ \A i \in DOMAIN M : i \in DOMAIN L \/ i \in Added(L, M)
    BY OldOrNew
  <1>2. \A i \in Added(L, M) : ~(i < b)
    <2> SUFFICES ASSUME NEW i \in Added(L, M) PROVE ~(i < b)
      OBVIOUS
    <2>1. b \in Nat /\ b <= Len(L) /\ Len(L) \in Nat
      BY Lines DEF Prefix
    <2>2. i \in Nat /\ i > Len(L)
      BY Lines DEF Prefix, Added
    <2> QED BY <2>1, <2>2
  <1>3. BeforeState(M, b, kind) = BeforeState(L, b, kind)
    BY <1>1, <1>2 DEF BeforeState, OfCycle, Of, Ours
  <1>4. \A i \in BeforeState(L, b, kind) : M[i] = L[i]
    BY <1>1 DEF BeforeState, OfCycle, Of, Ours
  <1> QED BY <1>3, <1>4 DEF Named

(* A belief state of the beginning seals its cycle in both or in neither.  *)
LEMMA SameSeal ==
  ASSUME NEW L, NEW M, Prefix(L, M), NEW b \in DOMAIN L
  PROVE  Sealed(L, b) <=> Sealed(M, b)
  <1>1. \A kind : /\ BeforeState(M, b, kind) = BeforeState(L, b, kind)
                  /\ Named(M, BeforeState(M, b, kind)) = Named(L, BeforeState(L, b, kind))
    BY SameBefore
  <1>2. M[b] = L[b]
    BY OldOrNew
  <1> QED BY <1>1, <1>2 DEF Sealed

(* The lines of a kind in the beginning are lines of that kind.            *)
LEMMA SameLines ==
  ASSUME NEW L, NEW M, Prefix(L, M)
  PROVE  /\ Ours(L) = Ours(M) \cap DOMAIN L
         /\ \A kind : Of(L, kind) = Of(M, kind) \cap DOMAIN L
         /\ \A kind, n : OfCycle(L, kind, n) = OfCycle(M, kind, n) \cap DOMAIN L
         /\ Context(L) = Context(M) \cap DOMAIN L
         /\ \A i \in DOMAIN L : M[i] = L[i]
  <1>1. DOMAIN L \subseteq DOMAIN M /\ \A i \in DOMAIN L : M[i] = L[i]
    BY OldOrNew
  <1> QED BY <1>1 DEF Ours, Of, OfCycle, Context

(* What holds of a log holds of its beginning: a record that was written   *)
(* never needs one that was not.                                           *)
LEMMA PrefixInv ==
  ASSUME NEW L, NEW M, NEW n, Prefix(L, M), LogInv(M, n)
  PROVE  LogInv(L, n)
  <1>1. /\ Ours(L) = Ours(M) \cap DOMAIN L
        /\ \A kind : Of(L, kind) = Of(M, kind) \cap DOMAIN L
        /\ Context(L) = Context(M) \cap DOMAIN L
        /\ \A i \in DOMAIN L : M[i] = L[i]
    BY SameLines
  <1>2. DOMAIN L \subseteq DOMAIN M
    BY OldOrNew
  <1>3. L \in Seq(Line)
    BY DEF Prefix
  <1>4. NothingAhead(L, n)
    BY <1>1, <1>2 DEF NothingAhead, LogInv
  <1>5. StatesSeal(L)
    BY <1>1, SameSeal DEF StatesSeal, LogInv
  <1>6. OneState(L)
    BY <1>1 DEF OneState, LogInv
  <1>7. OneContext(L)
    BY <1>1 DEF OneContext, LogInv, Context, Of
  <1>8. Closed(L)
    <2>1. CASE Of(L, "completed_run") = {}
      BY <2>1 DEF Closed
    <2>2. CASE Of(L, "completed_run") # {}
      <3>1. PICK i \in Of(L, "completed_run") : TRUE
        BY <2>2
      <3>2. i \in DOMAIN L /\ i \in Of(M, "completed_run")
        BY <3>1, <1>1
      <3>3. i = Len(M)
        BY <3>2 DEF LogInv, Closed
      <3>4. i <= Len(L) /\ Len(L) \in Nat /\ Len(M) \in Nat /\ Len(L) <= Len(M)
        BY <3>2, Lines DEF Prefix
      <3>5. Len(L) = Len(M)
        BY <3>3, <3>4
      <3>6. L = M
        BY <3>5, SeqEqual DEF Prefix
      <3> QED BY <3>6 DEF LogInv
    <2> QED BY <2>1, <2>2
  <1> QED BY <1>3, <1>4, <1>5, <1>6, <1>7, <1>8 DEF LogInv

(* Records that are added neither by the core nor at the end.              *)
Quiet(L, M, n) ==
  \A i \in Added(L, M) :
    /\ M[i].attempt = attempt
    /\ M[i].kind \notin CoreKinds \cup {"completed_run"}
    /\ M[i].kind \in Projections => M[i].cycle <= n

(* A log that has not ended can be prolonged by them.                      *)
LEMMA QuietInv ==
  ASSUME NEW L, NEW M, NEW m \in Int, NEW n \in Int, m <= n, attempt \in Int,
         Prefix(L, M), LogInv(L, m), Of(L, "completed_run") = {}, Quiet(L, M, n)
  PROVE  LogInv(M, n)
  <1>1. \A i \in DOMAIN M : i \in DOMAIN L \/ i \in Added(L, M)
    BY OldOrNew
  <1>2. /\ Ours(L) = Ours(M) \cap DOMAIN L
        /\ \A kind : Of(L, kind) = Of(M, kind) \cap DOMAIN L
        /\ Context(L) = Context(M) \cap DOMAIN L
        /\ \A i \in DOMAIN L : M[i] = L[i]
    BY SameLines
  <1>3. M \in Seq(Line)
    BY DEF Prefix
  <1>4. /\ Of(M, "belief_state") = Of(L, "belief_state")
        /\ Of(M, "completed_run") = {}
        /\ Of(M, "external_signal") = Of(L, "external_signal")
    BY <1>1, <1>2 DEF Quiet, Of, Ours, CoreKinds
  <1>5. Context(M) = Context(L)
    BY <1>4, <1>2 DEF Context, Of, Ours
  <1>6. NothingAhead(M, n)
    <2>1. \A i \in DOMAIN M : M[i].attempt <= attempt
      BY <1>1, <1>2 DEF NothingAhead, LogInv, Quiet
    <2>2. ASSUME NEW i \in Ours(M),
                 M[i].kind \in CoreKinds \cup Projections \cup {"completed_run"}
          PROVE  M[i].cycle <= n
      <3>1. CASE i \in Added(L, M)
        BY <3>1, <2>2 DEF Quiet
      <3>2. CASE i \in DOMAIN L
        <4>1. i \in Ours(L) /\ M[i] = L[i]
          BY <3>2, <1>2
        <4>2. L[i].cycle <= m
          BY <4>1, <2>2 DEF NothingAhead, LogInv
        <4>3. L[i].cycle \in Int
          BY <3>2, Lines, LineTypes DEF Prefix
        <4> QED BY <4>1, <4>2, <4>3
      <3> QED BY <1>1, <3>1, <3>2 DEF Ours
    <2> QED BY <2>1, <2>2 DEF NothingAhead
  <1>7. StatesSeal(M)
    BY <1>2, <1>4, SameSeal DEF StatesSeal, LogInv
  <1>8. OneState(M)
    BY <1>2, <1>4 DEF OneState, LogInv
  <1>9. OneContext(M)
    BY <1>2, <1>5 DEF OneContext, LogInv
  <1>10. Closed(M)
    BY <1>4 DEF Closed
  <1> QED BY <1>3, <1>6, <1>7, <1>8, <1>9, <1>10 DEF LogInv

-----------------------------------------------------------------------------
(* The records of a cycle.                                                 *)

(* Questions and what else a record names are finitely many.               *)
LEMMA FiniteNames ==
  ASSUME NEW S, S \subseteq Questions \cup {"context", "told"}
  PROVE  IsFiniteSet(S)
  <1>1. IsFiniteSet(Questions)
    BY QuestionAssumption
  <1>2. IsFiniteSet(Questions \cup {"context"})
    BY <1>1, FS_AddElement
  <1>3. IsFiniteSet((Questions \cup {"context"}) \cup {"told"})
    BY <1>2, FS_AddElement
  <1>4. S \in SUBSET ((Questions \cup {"context"}) \cup {"told"})
    OBVIOUS
  <1> QED BY <1>3, <1>4, FS_Subset

(* SetToSeq numbers the elements of a finite set.                          *)
LEMMA Numbered ==
  ASSUME NEW S, IsFiniteSet(S)
  PROVE  /\ Cardinality(S) \in Nat
         /\ SetToSeq(S) \in [1 .. Cardinality(S) -> S]
         /\ \A i, j \in 1 .. Cardinality(S) : SetToSeq(S)[i] = SetToSeq(S)[j] => i = j
         /\ \A s \in S : \E i \in 1 .. Cardinality(S) : SetToSeq(S)[i] = s
  <1> DEFINE I == 1 .. Cardinality(S)
  <1>1. Cardinality(S) \in Nat /\ ExistsBijection(I, S)
    BY FS_CardinalityType
  <1>2. \E f \in [I -> S] : IsInjective(f)
    BY <1>1 DEF ExistsBijection, Bijection, Injection
  <1> DEFINE g == SetToSeq(S)
  <1>3. g \in [I -> S] /\ IsInjective(g)
    BY <1>2 DEF SetToSeq
  <1>4. IsFiniteSet(I) /\ Cardinality(I) = Cardinality(S)
    BY <1>1, FS_Interval
  <1> HIDE DEF g
  <1>5. g \in Injection(I, S)
    BY <1>3 DEF Injection
  <1>6. g \in Surjection(I, S)
    BY <1>4, <1>5, FS_Injection
  <1>7. \A s \in S : \E i \in I : g[i] = s
    BY <1>6 DEF Surjection
  <1>8. \A i, j \in I : g[i] = g[j] => i = j
    BY <1>3 DEF IsInjective
  <1> QED BY <1>1, <1>3, <1>7, <1>8 DEF g

(* r is written in a batch; a kind is written without repetition.          *)
Has(B, r) == \E k \in DOMAIN B : B[k] = r
Once(B, kind) == \A j, k \in DOMAIN B : B[j].kind = kind /\ B[j] = B[k] => j = k
Without(B, kind) == \A k \in DOMAIN B : B[k].kind # kind

(* What two batches have their concatenation has.                          *)
LEMMA Joined ==
  ASSUME NEW A \in Seq(Line), NEW B \in Seq(Line)
  PROVE  /\ A \o B \in Seq(Line)
         /\ \A r : Has(A \o B, r) <=> Has(A, r) \/ Has(B, r)
         /\ \A kind : Once(A, kind) /\ Without(B, kind) => Once(A \o B, kind)
         /\ \A kind : Once(B, kind) /\ Without(A, kind) => Once(A \o B, kind)
         /\ \A kind : Without(A, kind) /\ Without(B, kind) => Without(A \o B, kind)
  <1> DEFINE C == A \o B
  <1>1. /\ C \in Seq(Line) /\ Prefix(A, C)
        /\ \A i \in Added(A, C) : i - Len(A) \in DOMAIN B /\ C[i] = B[i - Len(A)]
        /\ \A k \in DOMAIN B : Len(A) + k \in Added(A, C) /\ C[Len(A) + k] = B[k]
    BY Prolong
  <1> HIDE DEF C
  <1>2. /\ DOMAIN A \subseteq DOMAIN C
        /\ \A i \in DOMAIN A : C[i] = A[i]
        /\ \A i \in DOMAIN C : i \in DOMAIN A \/ i \in Added(A, C)
        /\ \A i \in Added(A, C) : i \in DOMAIN C
    BY <1>1, OldOrNew DEF Added
  <1>3. \A r : Has(C, r) <=> Has(A, r) \/ Has(B, r)
    BY <1>1, <1>2 DEF Has
  <1>4. Len(A) \in Nat /\ \A i \in Added(A, C) : i \in Nat
    BY <1>1, Lines DEF Added
  <1>5. ASSUME NEW kind, Once(A, kind), Without(B, kind)
        PROVE  Once(C, kind)
    BY <1>1, <1>2, <1>5, SMTT(30) DEF Once, Without
  <1>6. ASSUME NEW kind, Once(B, kind), Without(A, kind)
        PROVE  Once(C, kind)
    <2> SUFFICES ASSUME NEW i \in DOMAIN C, NEW j \in DOMAIN C,
                        C[i].kind = kind, C[i] = C[j]
                 PROVE  i = j
      BY DEF Once
    <2>1. i \in Added(A, C) /\ j \in Added(A, C)
      BY <1>2, <1>6 DEF Without
    <2>2. i - Len(A) = j - Len(A)
      BY <1>1, <1>6, <2>1 DEF Once
    <2> QED BY <2>1, <2>2, <1>4
  <1>7. ASSUME NEW kind, Without(A, kind), Without(B, kind)
        PROVE  Without(C, kind)
    BY <1>1, <1>2, <1>7 DEF Without
  <1> QED BY <1>1, <1>3, <1>5, <1>6, <1>7 DEF C

(* R has one line for each element of S, and no two for the same.          *)
EachOf(R, kind, n, S) ==
  /\ R \in Seq(Line)
  /\ \A r : Has(R, r) <=> \E s \in S : r = Record(kind, n, {s})
  /\ Once(R, kind)
  /\ \A other : other # kind => Without(R, other)

(* That is what Records writes.                                            *)
LEMMA RecordsLines ==
  ASSUME NEW kind \in Kinds, NEW n \in 0 .. MaxCycles, attempt \in 1 .. MaxAttempts,
         NEW S, S \subseteq Questions \cup {"context", "told"}
  PROVE  EachOf(Records(kind, n, S), kind, n, S)
  <1> DEFINE c == Cardinality(S)
             g == SetToSeq(S)
             R == Records(kind, n, S)
  <1>1. IsFiniteSet(S)
    BY FiniteNames
  <1>2. /\ c \in Nat /\ g \in [1 .. c -> S]
        /\ \A i, j \in 1 .. c : g[i] = g[j] => i = j
        /\ \A s \in S : \E i \in 1 .. c : g[i] = s
    BY <1>1, Numbered
  <1>3. R = [i \in DOMAIN g |-> Record(kind, n, {g[i]})]
    BY DEF Records
  <1> HIDE DEF g, c, R
  <1>4. R = [i \in 1 .. c |-> Record(kind, n, {g[i]})]
    BY <1>2, <1>3
  <1>5. \A s \in S : Record(kind, n, {s}) \in Line
    BY DEF Record, Line, Names
  <1>6. R \in [1 .. c -> Line]
    BY <1>2, <1>4, <1>5
  <1>7. R \in Seq(Line)
    BY <1>2, <1>6, SeqDef
  <1>8. DOMAIN R = 1 .. c /\ \A i \in 1 .. c : R[i] = Record(kind, n, {g[i]})
    BY <1>4
  <1>9. \A r : Has(R, r) <=> \E s \in S : r = Record(kind, n, {s})
    <2> SUFFICES ASSUME NEW r
                 PROVE  Has(R, r) <=> \E s \in S : r = Record(kind, n, {s})
      OBVIOUS
    <2>1. ASSUME Has(R, r) PROVE \E s \in S : r = Record(kind, n, {s})
      <3>1. PICK i \in 1 .. c : r = Record(kind, n, {g[i]})
        BY <2>1, <1>8 DEF Has
      <3>2. g[i] \in S
        BY <1>2
      <3> QED BY <3>1, <3>2
    <2>2. ASSUME NEW s \in S, r = Record(kind, n, {s}) PROVE Has(R, r)
      <3>1. PICK i \in 1 .. c : g[i] = s
        BY <1>2
      <3>2. i \in DOMAIN R /\ R[i] = r
        BY <3>1, <2>2, <1>8
      <3> QED BY <3>2 DEF Has
    <2> QED BY <2>1, <2>2
  <1>10. Once(R, kind)
    <2> SUFFICES ASSUME NEW i \in 1 .. c, NEW j \in 1 .. c, R[i] = R[j]
                 PROVE  i = j
      BY <1>8 DEF Once
    <2>1. Record(kind, n, {g[i]}).names = Record(kind, n, {g[j]}).names
      BY <1>8
    <2>2. {g[i]} = {g[j]}
      BY <2>1 DEF Record
    <2> QED BY <2>2, <1>2
  <1>11. \A other : other # kind => Without(R, other)
    BY <1>8 DEF Without, Record
  <1> QED BY <1>7, <1>9, <1>10, <1>11 DEF R, EachOf

(* The records of cycle n before its belief state.                         *)
Opening(C, n) ==
  /\ C \in Seq(Line)
  /\ \A k \in DOMAIN C :
       /\ C[k].attempt = attempt /\ C[k].cycle = n
       /\ C[k].kind \in CoreKinds \ {"belief_state"}
       /\ C[k].kind \in {"external_signal", "evidence_event"} =>
            \E s \in signals : C[k].names = {s}
  /\ \E k \in DOMAIN C : C[k].kind = "cycle"
  /\ \E k \in DOMAIN C : C[k].kind = "probe_set"
  /\ \A s \in signals : Has(C, Record("external_signal", n, {s}))
  /\ \A s \in signals : Has(C, Record("evidence_event", n, {s}))
  /\ Once(C, "external_signal")

(* What the fields of a record are.                                        *)
LEMMA RecordFields ==
  ASSUME NEW kind, NEW n, NEW names
  PROVE  /\ Record(kind, n, names).attempt = attempt
         /\ Record(kind, n, names).kind = kind
         /\ Record(kind, n, names).cycle = n
         /\ Record(kind, n, names).names = names
  BY DEF Record

(* A record of the run is a line.                                          *)
LEMMA RecordIsLine ==
  ASSUME NEW kind \in Kinds, NEW n \in 0 .. MaxCycles, NEW names \in SUBSET Names,
         attempt \in 1 .. MaxAttempts
  PROVE  Record(kind, n, names) \in Line
  BY DEF Record, Line

(* A batch of one record.                                                  *)
LEMMA Single ==
  ASSUME NEW r \in Line
  PROVE  /\ <<r>> \in Seq(Line)
         /\ \A q : Has(<<r>>, q) <=> q = r
         /\ \A kind : kind # r.kind => Without(<<r>>, kind)
  <1>1. <<r>> \in Seq(Line) /\ DOMAIN <<r>> = {1} /\ <<r>>[1] = r
    BY OneRecord
  <1> DEFINE B == <<r>>
  <1> HIDE DEF B
  <1>2. B \in Seq(Line) /\ DOMAIN B = {1} /\ B[1] = r
    BY <1>1 DEF B
  <1>3. \A q : Has(B, q) <=> q = r
    BY <1>2 DEF Has
  <1>4. \A kind : kind # r.kind => Without(B, kind)
    BY <1>2 DEF Without
  <1> QED BY <1>2, <1>3, <1>4 DEF B

(* CoreRecords is an opening with a belief state behind it.                *)
LEMMA CoreOpening ==
  ASSUME NEW n \in 0 .. MaxCycles, NEW new, new \subseteq Candidates,
         selected \subseteq Candidates, attempt \in 1 .. MaxAttempts,
         signals \subseteq Questions \cup {"context", "told"}
  PROVE  /\ Record("belief_state", n, {}) \in Line
         /\ \E C : /\ Opening(C, n)
                   /\ CoreRecords(n, new) = C \o <<Record("belief_state", n, {})>>
  <1> DEFINE c == Record("cycle", n, {})
             p == Record("probe_set", n, Asks(selected))
             X == Records("external_signal", n, signals)
             E == Records("evidence_event", n, signals)
             P == Records("probe_candidate", n, Asks(new))
  <1>1. Asks(selected) \subseteq Questions /\ Asks(new) \subseteq Questions
    BY DEF Asks, Candidates
  <1>2. /\ "cycle" \in Kinds /\ "probe_set" \in Kinds /\ "belief_state" \in Kinds
        /\ "external_signal" \in Kinds /\ "evidence_event" \in Kinds
        /\ "probe_candidate" \in Kinds
    BY DEF Kinds, CoreKinds
  <1>3. c \in Line /\ p \in Line /\ Record("belief_state", n, {}) \in Line
    BY <1>1, <1>2, RecordIsLine DEF Names
  <1>x. EachOf(X, "external_signal", n, signals)
    BY <1>2, RecordsLines
  <1>e. EachOf(E, "evidence_event", n, signals)
    BY <1>2, RecordsLines
  <1>p. EachOf(P, "probe_candidate", n, Asks(new))
    BY <1>1, <1>2, RecordsLines
  <1> HIDE DEF X, E, P
  <1>4. /\ X \in Seq(Line) /\ Once(X, "external_signal")
        /\ \A r : Has(X, r) <=> \E s \in signals : r = Record("external_signal", n, {s})
    BY <1>x DEF EachOf
  <1>5. /\ E \in Seq(Line) /\ Without(E, "external_signal")
        /\ \A r : Has(E, r) <=> \E s \in signals : r = Record("evidence_event", n, {s})
    <2>1. \A other : other # "evidence_event" => Without(E, other)
      BY <1>e DEF EachOf
    <2>2. Without(E, "external_signal")
      BY <2>1
    <2>3. \A r : Has(E, r) <=> \E s \in signals : r = Record("evidence_event", n, {s})
      BY <1>e DEF EachOf
    <2> QED BY <2>2, <2>3, <1>e DEF EachOf
  <1>6. /\ P \in Seq(Line) /\ Without(P, "external_signal")
        /\ \A r : Has(P, r) <=> \E s \in Asks(new) : r = Record("probe_candidate", n, {s})
    <2>1. \A other : other # "probe_candidate" => Without(P, other)
      BY <1>p DEF EachOf
    <2>2. Without(P, "external_signal")
      BY <2>1
    <2>3. \A r : Has(P, r) <=> \E s \in Asks(new) : r = Record("probe_candidate", n, {s})
      BY <1>p DEF EachOf
    <2> QED BY <2>2, <2>3, <1>p DEF EachOf
  <1>7. c.kind = "cycle" /\ p.kind = "probe_set"
    BY RecordFields
  <1> CoreRecords(n, new)
        = <<c>> \o X \o <<p>> \o E \o P \o <<Record("belief_state", n, {})>>
    BY DEF CoreRecords, c, p, X, E, P
  <1> HIDE DEF c, p
  <1> DEFINE C1 == <<c>> \o X
             C2 == C1 \o <<p>>
             C3 == C2 \o E
             C4 == C3 \o P
  <1>8. /\ <<c>> \in Seq(Line) /\ \A r : Has(<<c>>, r) <=> r = c
        /\ Without(<<c>>, "external_signal")
    BY <1>3, <1>7, Single
  <1>9. /\ <<p>> \in Seq(Line) /\ \A r : Has(<<p>>, r) <=> r = p
        /\ Without(<<p>>, "external_signal")
    BY <1>3, <1>7, Single
  <1>10. /\ C1 \in Seq(Line) /\ Once(C1, "external_signal")
         /\ \A r : Has(C1, r) <=> Has(<<c>>, r) \/ Has(X, r)
    BY <1>4, <1>8, Joined
  <1> HIDE DEF C1
  <1>11. /\ C2 \in Seq(Line) /\ Once(C2, "external_signal")
         /\ \A r : Has(C2, r) <=> Has(C1, r) \/ Has(<<p>>, r)
    BY <1>9, <1>10, Joined
  <1> HIDE DEF C2
  <1>12. /\ C3 \in Seq(Line) /\ Once(C3, "external_signal")
         /\ \A r : Has(C3, r) <=> Has(C2, r) \/ Has(E, r)
    BY <1>5, <1>11, Joined
  <1> HIDE DEF C3
  <1>13. /\ C4 \in Seq(Line) /\ Once(C4, "external_signal")
         /\ \A r : Has(C4, r) <=> Has(C3, r) \/ Has(P, r)
    BY <1>6, <1>12, Joined
  <1> HIDE DEF C4
  <1>14. \A r : Has(C4, r) <=>
           \/ r = c \/ r = p
           \/ \E s \in signals : r = Record("external_signal", n, {s})
           \/ \E s \in signals : r = Record("evidence_event", n, {s})
           \/ \E s \in Asks(new) : r = Record("probe_candidate", n, {s})
    BY <1>4, <1>5, <1>6, <1>8, <1>9, <1>10, <1>11, <1>12, <1>13
  <1>15. \A k \in DOMAIN C4 :
           /\ C4[k].attempt = attempt /\ C4[k].cycle = n
           /\ C4[k].kind \in CoreKinds \ {"belief_state"}
           /\ C4[k].kind \in {"external_signal", "evidence_event"} =>
                \E s \in signals : C4[k].names = {s}
    <2> TAKE k \in DOMAIN C4
    <2> DEFINE r == C4[k]
    <2>1. Has(C4, r)
      BY DEF Has
    <2> HIDE DEF r
    <2>2. CASE r = c
      BY <2>2, RecordFields DEF c, CoreKinds, r
    <2>3. CASE r = p
      BY <2>3, RecordFields DEF p, CoreKinds, r
    <2>4. ASSUME NEW s \in signals,
                 \/ r = Record("external_signal", n, {s})
                 \/ r = Record("evidence_event", n, {s})
          PROVE  /\ r.attempt = attempt /\ r.cycle = n
                 /\ r.kind \in CoreKinds \ {"belief_state"} /\ r.names = {s}
      BY <2>4, RecordFields DEF CoreKinds
    <2>5. ASSUME NEW s, r = Record("probe_candidate", n, {s})
          PROVE  /\ r.attempt = attempt /\ r.cycle = n
                 /\ r.kind \in CoreKinds \ {"belief_state"}
                 /\ r.kind \notin {"external_signal", "evidence_event"}
      BY <2>5, RecordFields DEF CoreKinds
    <2> QED BY <2>1, <2>2, <2>3, <2>4, <2>5, <1>14 DEF r
  <1>16. \E k \in DOMAIN C4 : C4[k].kind = "cycle"
    BY <1>7, <1>14 DEF Has
  <1>17. \E k \in DOMAIN C4 : C4[k].kind = "probe_set"
    BY <1>7, <1>14 DEF Has
  <1>18. Opening(C4, n)
    BY <1>13, <1>14, <1>15, <1>16, <1>17 DEF Opening
  <1>19. CoreRecords(n, new) = C4 \o <<Record("belief_state", n, {})>>
    BY DEF C4, C3, C2, C1
  <1> QED BY <1>3, <1>18, <1>19

-----------------------------------------------------------------------------
(* Integrating a cycle.                                                    *)

(* A log that has not ended and knows nothing of cycle n, and the records  *)
(* of n before its belief state.                                           *)
Opens(L, C, m, n) ==
  /\ LogInv(L, m) /\ m \in Nat /\ n = m + 1 /\ n <= MaxCycles
  /\ attempt \in 1 .. MaxAttempts /\ Of(L, "completed_run") = {}
  /\ Opening(C, n)

(* What is behind the log is of cycle n; what the core wrote before is not.*)
Behind(L, C, M, n) ==
  \A i \in Added(L, M) :
    /\ i - Len(L) \in DOMAIN C /\ M[i] = C[i - Len(L)]
    /\ i \in Ours(M) /\ M[i].cycle = n /\ M[i].kind \in CoreKinds \ {"belief_state"}
    /\ M[i].kind \in {"external_signal", "evidence_event"} =>
         \E s \in signals : M[i].names = {s}

Placed(L, C, M) ==
  \A k \in DOMAIN C : Len(L) + k \in Added(L, M) /\ M[Len(L) + k] = C[k]

(* That is so of a log with an opening behind it.                          *)
LEMMA OpenedLines ==
  ASSUME NEW L, NEW C, NEW m, NEW n, Opens(L, C, m, n)
  PROVE  /\ Prefix(L, L \o C) /\ Behind(L, C, L \o C, n) /\ Placed(L, C, L \o C)
         /\ \A kind \in CoreKinds \cup Projections : OfCycle(L, kind, n) = {}
  <1>1. L \in Seq(Line) /\ C \in Seq(Line)
    BY DEF Opens, LogInv, Opening
  <1> DEFINE M == L \o C
  <1>2. /\ Prefix(L, M)
        /\ \A i \in Added(L, M) : i - Len(L) \in DOMAIN C /\ M[i] = C[i - Len(L)]
        /\ \A k \in DOMAIN C : Len(L) + k \in Added(L, M) /\ M[Len(L) + k] = C[k]
    BY <1>1, Prolong
  <1> HIDE DEF M
  <1>4. ASSUME NEW i \in Added(L, M)
        PROVE  /\ i \in Ours(M) /\ M[i].cycle = n
               /\ M[i].kind \in CoreKinds \ {"belief_state"}
               /\ M[i].kind \in {"external_signal", "evidence_event"} =>
                    \E s \in signals : M[i].names = {s}
    <2> DEFINE k == i - Len(L)
    <2>1. k \in DOMAIN C /\ M[i] = C[k]
      BY <1>2, <1>4
    <2> HIDE DEF k
    <2>2. Opening(C, n)
      BY DEF Opens
    <2>3. /\ C[k].attempt = attempt /\ C[k].cycle = n
          /\ C[k].kind \in CoreKinds \ {"belief_state"}
          /\ C[k].kind \in {"external_signal", "evidence_event"} =>
               \E s \in signals : C[k].names = {s}
      BY <2>1, <2>2 DEF Opening
    <2>4. i \in Ours(M)
      BY <1>4, <2>1, <2>3 DEF Added, Ours
    <2> QED BY <2>1, <2>3, <2>4
  <1>6. ASSUME NEW kind \in CoreKinds \cup Projections, NEW i \in OfCycle(L, kind, n)
        PROVE  FALSE
    <2>1. i \in Ours(L) /\ L[i].kind = kind /\ L[i].cycle = n
      BY <1>6 DEF OfCycle, Of
    <2>2. L[i].cycle <= m
      BY <2>1, <1>6 DEF Opens, LogInv, NothingAhead
    <2> QED BY <2>1, <2>2 DEF Opens
  <1>7. \A kind \in CoreKinds \cup Projections : OfCycle(L, kind, n) = {}
    BY <1>6
  <1>8. Behind(L, C, M, n)
    BY <1>2, <1>4 DEF Behind
  <1>9. Placed(L, C, M)
    BY <1>2 DEF Placed
  <1> QED BY <1>2, <1>7, <1>8, <1>9 DEF M

(* What the lines of cycle n are now.                                      *)
LEMMA OpenedCycle ==
  ASSUME NEW L, NEW C, NEW m, NEW n, Opens(L, C, m, n)
  PROVE  /\ Of(L \o C, "belief_state") = Of(L, "belief_state")
         /\ Of(L \o C, "completed_run") = {}
         /\ OfCycle(L \o C, "cycle", n) # {} /\ OfCycle(L \o C, "probe_set", n) # {}
         /\ OfCycle(L \o C, "probe_planning", n) = OfCycle(L, "probe_planning", n)
         /\ OfCycle(L \o C, "probe_execution", n) = OfCycle(L, "probe_execution", n)
         /\ Named(L \o C, OfCycle(L, "probe_execution", n))
              = Named(L, OfCycle(L, "probe_execution", n))
         /\ \A kind \in Projections : OfCycle(L \o C, kind, n) = {}
         /\ Named(L \o C, OfCycle(L \o C, "external_signal", n)) = signals
         /\ Named(L \o C, OfCycle(L \o C, "evidence_event", n)) = signals
  <1> DEFINE M == L \o C
  <1>x. /\ Prefix(L, M) /\ Behind(L, C, M, n) /\ Placed(L, C, M)
        /\ \A kind \in CoreKinds \cup Projections : OfCycle(L, kind, n) = {}
    BY OpenedLines
  <1> HIDE DEF M
  <1>n. \A i \in Added(L, M) :
          i \in Ours(M) /\ M[i].cycle = n /\ M[i].kind \in CoreKinds \ {"belief_state"}
    BY <1>x DEF Behind
  <1>s. \A i \in Added(L, M) :
          M[i].kind \in {"external_signal", "evidence_event"} =>
            \E s \in signals : M[i].names = {s}
    BY <1>x DEF Behind
  <1>p. \A k \in DOMAIN C : Len(L) + k \in Added(L, M) /\ M[Len(L) + k] = C[k]
    BY <1>x DEF Placed
  <1>d. /\ \A i \in DOMAIN M : i \in DOMAIN L \/ i \in Added(L, M)
        /\ \A i \in DOMAIN L : M[i] = L[i]
    BY <1>x, OldOrNew
  <1>o. \A kind : Of(L, kind) = Of(M, kind) \cap DOMAIN L
    BY <1>x, SameLines
  <1>2. \A kind : kind \notin CoreKinds \ {"belief_state"} => Of(M, kind) = Of(L, kind)
    BY <1>n, <1>d, <1>o DEF Of, Ours
  <1>3. \A kind : kind \notin CoreKinds \ {"belief_state"} =>
                    OfCycle(M, kind, n) = OfCycle(L, kind, n)
    <2> SUFFICES ASSUME NEW kind, kind \notin CoreKinds \ {"belief_state"}
                 PROVE  OfCycle(M, kind, n) = OfCycle(L, kind, n)
      OBVIOUS
    <2>1. Of(M, kind) = Of(L, kind)
      BY <1>2
    <2>2. \A i \in Of(L, kind) : M[i] = L[i]
      BY <1>d DEF Of, Ours
    <2> QED BY <2>1, <2>2 DEF OfCycle
  <1>4. /\ Of(M, "belief_state") = Of(L, "belief_state")
        /\ Of(M, "completed_run") = {}
    BY <1>2 DEF CoreKinds, Opens
  <1>5. /\ OfCycle(M, "probe_planning", n) = OfCycle(L, "probe_planning", n)
        /\ OfCycle(M, "probe_execution", n) = OfCycle(L, "probe_execution", n)
        /\ \A kind \in Projections : OfCycle(M, kind, n) = {}
    BY <1>x, <1>3 DEF CoreKinds, Projections
  <1>6. Named(M, OfCycle(L, "probe_execution", n)) = Named(L, OfCycle(L, "probe_execution", n))
    <2>1. \A i \in OfCycle(L, "probe_execution", n) : M[i] = L[i]
      BY <1>d DEF OfCycle, Of, Ours
    <2> QED BY <2>1 DEF Named
  <1>7. ASSUME NEW k \in DOMAIN C
        PROVE  Len(L) + k \in OfCycle(M, C[k].kind, n)
    BY <1>n, <1>p, <1>7 DEF OfCycle, Of
  <1>8. OfCycle(M, "cycle", n) # {} /\ OfCycle(M, "probe_set", n) # {}
    BY <1>7 DEF Opens, Opening
  <1>9. ASSUME NEW kind \in {"external_signal", "evidence_event"},
               \A s \in signals : Has(C, Record(kind, n, {s}))
        PROVE  Named(M, OfCycle(M, kind, n)) = signals
    <2>1. ASSUME NEW i \in OfCycle(M, kind, n) PROVE M[i].names \subseteq signals
      <3>1. i \in DOMAIN M /\ i \in Of(M, kind) /\ M[i].kind = kind /\ M[i].cycle = n
        BY <2>1 DEF OfCycle, Of, Ours
      <3>2. kind \in CoreKinds
        BY <1>9 DEF CoreKinds
      <3>3. i \notin DOMAIN L
        <4> SUFFICES ASSUME i \in DOMAIN L PROVE FALSE
          OBVIOUS
        <4>1. i \in Of(L, kind) /\ L[i].cycle = n
          BY <3>1, <1>o, <1>d
        <4> QED BY <4>1, <3>2, <1>x DEF OfCycle
      <3>4. i \in Added(L, M)
        BY <1>d, <3>1, <3>3
      <3> QED BY <3>4, <3>1, <1>s, <1>9
    <2>2. ASSUME NEW s \in signals
          PROVE  \E i \in OfCycle(M, kind, n) : s \in M[i].names
      <3>1. PICK k \in DOMAIN C : C[k] = Record(kind, n, {s})
        BY <1>9 DEF Has
      <3>2. C[k].kind = kind /\ C[k].names = {s}
        BY <3>1, RecordFields
      <3>3. Len(L) + k \in OfCycle(M, kind, n) /\ M[Len(L) + k] = C[k]
        BY <3>2, <1>7, <1>p
      <3> QED BY <3>2, <3>3
    <2> QED BY <2>1, <2>2 DEF Named
  <1>10. /\ \A s \in signals : Has(C, Record("external_signal", n, {s}))
         /\ \A s \in signals : Has(C, Record("evidence_event", n, {s}))
    BY DEF Opens, Opening
  <1>11. Named(M, OfCycle(M, "external_signal", n)) = signals
    BY <1>9, <1>10
  <1>12. Named(M, OfCycle(M, "evidence_event", n)) = signals
    BY <1>9, <1>10
  <1> QED BY <1>4, <1>5, <1>6, <1>8, <1>11, <1>12 DEF M

(* What has been asked of cycle n, and that its first signals hold the     *)
(* context, once.                                                          *)
AskedOf(L, n) ==
  /\ OfCycle(L, "probe_planning", n) # {} <=> OfCycle(L, "probe_execution", n) # {}
  /\ config.regime = "question" => OfCycle(L, "probe_planning", n) # {}
  /\ signals \ {"context", "told"} = Named(L, OfCycle(L, "probe_execution", n))
  /\ "context" \in signals => n = 1

(* The context is one signal only.                                         *)
LEMMA OpenedContext ==
  ASSUME NEW L, NEW C, NEW m, NEW n, Opens(L, C, m, n), AskedOf(L, n)
  PROVE  OneContext(L \o C)
  <1> DEFINE M == L \o C
  <1>x. Prefix(L, M) /\ Behind(L, C, M, n)
    BY OpenedLines
  <1>y. Opens(L, C, m, n)
    OBVIOUS
  <1> HIDE DEF M
  <1>1. /\ \A i \in DOMAIN M : i \in DOMAIN L \/ i \in Added(L, M)
        /\ \A i \in DOMAIN L : M[i] = L[i]
    BY <1>x, OldOrNew
  <1>2. Context(L) = Context(M) \cap DOMAIN L
    BY <1>x, SameLines
  <1>3. m \in Nat /\ n = m + 1 /\ LogInv(L, m) /\ Opening(C, n)
    BY <1>y DEF Opens
  <1>4. ASSUME NEW i \in Context(M), i \notin DOMAIN L
        PROVE  /\ i \in Added(L, M) /\ M[i].cycle = n /\ m = 0
               /\ M[i].attempt = attempt /\ M[i].kind = "external_signal"
               /\ M[i].names = {"context"}
    <2>1. i \in DOMAIN M /\ i \in Ours(M) /\ M[i].kind = "external_signal"
          /\ "context" \in M[i].names /\ M[i].attempt = attempt
      BY <1>4 DEF Context, Of, Ours
    <2>2. i \in Added(L, M)
      BY <2>1, <1>1, <1>4
    <2>3. PICK s \in signals : M[i].names = {s}
      BY <2>1, <2>2, <1>x DEF Behind
    <2>4. s = "context" /\ n = 1
      BY <2>1, <2>3 DEF AskedOf
    <2>5. M[i].cycle = n
      BY <2>2, <1>x DEF Behind
    <2>6. m = 0
      BY <2>4, <1>3
    <2> QED BY <2>1, <2>2, <2>3, <2>4, <2>5, <2>6
  <1>5. ASSUME NEW i \in Context(L) PROVE m >= 1
    <2>1. i \in Ours(L) /\ L[i].kind = "external_signal" /\ L[i].cycle = 1
      BY <1>3 DEF LogInv, OneContext, Context, Of
    <2>2. L[i].cycle <= m
      BY <2>1, <1>3 DEF LogInv, NothingAhead, CoreKinds
    <2> QED BY <2>1, <2>2
  <1>6. ASSUME NEW i \in Context(M), NEW j \in Context(M) PROVE i = j
    <2>1. CASE i \in DOMAIN L /\ j \in DOMAIN L
      BY <2>1, <1>2, <1>3, <1>6 DEF LogInv, OneContext
    <2>2. CASE i \notin DOMAIN L /\ j \notin DOMAIN L
      <3>1. /\ i \in Added(L, M) /\ j \in Added(L, M)
            /\ M[i].kind = "external_signal"
            /\ M[i].attempt = M[j].attempt /\ M[i].kind = M[j].kind
            /\ M[i].cycle = M[j].cycle /\ M[i].names = M[j].names
        BY <2>2, <1>4, <1>6
      <3>2. M[i] \in Line /\ M[j] \in Line
        BY <1>x, <3>1, Lines DEF Prefix, Added
      <3>3. M[i] = M[j]
        BY <3>1, <3>2 DEF Line
      <3>4. /\ i - Len(L) \in DOMAIN C /\ M[i] = C[i - Len(L)]
            /\ j - Len(L) \in DOMAIN C /\ M[j] = C[j - Len(L)]
        BY <3>1, <1>x DEF Behind
      <3>5. i - Len(L) = j - Len(L)
        BY <3>1, <3>3, <3>4, <1>3 DEF Opening, Once
      <3>6. i \in Nat /\ j \in Nat /\ Len(L) \in Nat
        BY <1>x, <3>1, Lines DEF Prefix, Added
      <3> QED BY <3>5, <3>6
    <2>3. CASE i \in DOMAIN L /\ j \notin DOMAIN L
      BY <2>3, <1>2, <1>4, <1>5, <1>6
    <2>4. CASE i \notin DOMAIN L /\ j \in DOMAIN L
      BY <2>4, <1>2, <1>4, <1>5, <1>6
    <2> QED BY <2>1, <2>2, <2>3, <2>4
  <1>7. ASSUME NEW i \in Context(M) PROVE M[i].cycle = 1
    <2>1. CASE i \in DOMAIN L
      BY <2>1, <1>1, <1>2, <1>3, <1>7 DEF LogInv, OneContext
    <2>2. CASE i \notin DOMAIN L
      BY <2>2, <1>3, <1>4, <1>7
    <2> QED BY <2>1, <2>2
  <1> QED BY <1>6, <1>7 DEF OneContext, M

(* The opening alone keeps the log in order.                               *)
LEMMA OpenedInv ==
  ASSUME NEW L, NEW C, NEW m, NEW n, Opens(L, C, m, n), AskedOf(L, n)
  PROVE  LogInv(L \o C, n)
  <1> DEFINE M == L \o C
  <1>x. Prefix(L, M) /\ Behind(L, C, M, n)
    BY OpenedLines
  <1>y. Opens(L, C, m, n)
    OBVIOUS
  <1>o. OneContext(M)
    BY OpenedContext
  <1>s. /\ Of(M, "belief_state") = Of(L, "belief_state")
        /\ Of(M, "completed_run") = {}
    BY OpenedCycle
  <1> HIDE DEF M
  <1>1. /\ \A i \in DOMAIN M : i \in DOMAIN L \/ i \in Added(L, M)
        /\ \A i \in DOMAIN L : M[i] = L[i]
    BY <1>x, OldOrNew
  <1>2. /\ Ours(L) = Ours(M) \cap DOMAIN L
        /\ \A kind : Of(L, kind) \subseteq DOMAIN L
    BY <1>x, SameLines DEF Of, Ours
  <1>3. m \in Nat /\ n = m + 1 /\ LogInv(L, m) /\ attempt \in Nat
    BY <1>y, QuestionAssumption DEF Opens
  <1>4. \A i \in Added(L, M) : M[i].attempt = attempt /\ M[i].cycle = n
    BY <1>x DEF Behind, Ours
  <1>5. \A i \in DOMAIN M : M[i].attempt <= attempt
    BY <1>1, <1>3, <1>4 DEF LogInv, NothingAhead
  <1>6. ASSUME NEW i \in Ours(M),
               M[i].kind \in CoreKinds \cup Projections \cup {"completed_run"}
        PROVE  M[i].cycle <= n
    <2>1. CASE i \in Added(L, M)
      BY <2>1, <1>3, <1>4
    <2>2. CASE i \in DOMAIN L
      <3>1. i \in Ours(L) /\ M[i] = L[i]
        BY <2>2, <1>1, <1>2
      <3>2. L[i].cycle <= m
        BY <3>1, <1>3, <1>6 DEF LogInv, NothingAhead
      <3>3. L[i].cycle \in Nat
        BY <2>2, <1>x, Lines, LineTypes DEF Prefix
      <3> QED BY <3>1, <3>2, <3>3, <1>3
    <2> QED BY <1>1, <2>1, <2>2 DEF Ours
  <1>7. NothingAhead(M, n)
    BY <1>5, <1>6 DEF NothingAhead
  <1>8. StatesSeal(M)
    BY <1>x, <1>s, <1>2, <1>3, SameSeal DEF StatesSeal, LogInv
  <1>9. OneState(M)
    BY <1>s, <1>1, <1>2, <1>3 DEF OneState, LogInv
  <1>10. Closed(M)
    BY <1>s DEF Closed
  <1>11. M \in Seq(Line)
    BY <1>x DEF Prefix
  <1> QED BY <1>o, <1>7, <1>8, <1>9, <1>10, <1>11 DEF LogInv, M

(* One record more.                                                        *)
LEMMA OneMore ==
  ASSUME NEW L \in Seq(Line), NEW r \in Line
  PROVE  /\ Prefix(L, L \o <<r>>) /\ Len(L \o <<r>>) = Len(L) + 1
         /\ Added(L, L \o <<r>>) = {Len(L) + 1}
         /\ (L \o <<r>>)[Len(L) + 1] = r
  <1> DEFINE M == L \o <<r>>
  <1>1. <<r>> \in Seq(Line) /\ Len(<<r>>) = 1
    BY OneRecord
  <1>2. /\ M \in Seq(Line) /\ Prefix(L, M) /\ Len(M) = Len(L) + 1
    BY <1>1, Prolong
  <1>3. M[Len(L) + 1] = r
    OBVIOUS
  <1> HIDE DEF M
  <1>4. DOMAIN M = 1 .. Len(M) /\ Len(L) \in Nat
    BY <1>2, Lines
  <1>5. Added(L, M) = {Len(L) + 1}
    BY <1>2, <1>4 DEF Added
  <1> QED BY <1>2, <1>3, <1>5 DEF M

(* The belief state that closes cycle n: what was there before it is all   *)
(* that is there of n.                                                     *)
LEMMA Seals ==
  ASSUME NEW L, NEW C, NEW m, NEW n, Opens(L, C, m, n), AskedOf(L, n),
         NEW s \in Line, s = Record("belief_state", n, {})
  PROVE  LogInv((L \o C) \o <<s>>, n)
  <1> DEFINE M == L \o C
             N == M \o <<s>>
             e == Len(M) + 1
  <1>1. LogInv(M, n) /\ OneContext(M)
    BY OpenedInv DEF LogInv
  <1>2. m \in Nat /\ n = m + 1 /\ LogInv(L, m) /\ attempt \in Nat
    BY QuestionAssumption DEF Opens
  <1>3. /\ Of(M, "belief_state") = Of(L, "belief_state")
        /\ Of(M, "completed_run") = {}
    BY OpenedCycle
  <1>4. /\ OfCycle(M, "cycle", n) # {} /\ OfCycle(M, "probe_set", n) # {}
        /\ OfCycle(M, "probe_planning", n) # {} <=> OfCycle(M, "probe_execution", n) # {}
        /\ config.regime = "question" => OfCycle(M, "probe_planning", n) # {}
        /\ Named(M, OfCycle(M, "external_signal", n)) \ {"context", "told"}
             = Named(M, OfCycle(M, "probe_execution", n))
        /\ Named(M, OfCycle(M, "evidence_event", n))
             = Named(M, OfCycle(M, "external_signal", n))
        /\ OfCycle(M, "answer_projection", n) = {}
        /\ OfCycle(M, "belief_state_projection", n) = {}
    BY OpenedCycle DEF AskedOf, Projections
  <1>x. Prefix(L, M)
    BY OpenedLines
  <1> HIDE DEF M
  <1>5. M \in Seq(Line)
    BY <1>1 DEF LogInv
  <1>6. Prefix(M, N) /\ Len(N) = e /\ Added(M, N) = {e} /\ N[e] = s
    BY <1>5, OneMore
  <1> HIDE DEF N
  <1>7. Len(M) \in Nat /\ DOMAIN M = 1 .. Len(M)
    BY <1>5, Lines
  <1>8. s.attempt = attempt /\ s.cycle = n /\ s.kind = "belief_state"
    BY RecordFields
  <1>9. /\ \A i \in DOMAIN N : i \in DOMAIN M \/ i = e
        /\ \A i \in DOMAIN M : N[i] = M[i] /\ i < e
        /\ e \in DOMAIN N /\ ~(e \in DOMAIN M)
    BY <1>6, <1>7, OldOrNew
  <1> HIDE DEF e
  <1>10. /\ Ours(M) = Ours(N) \cap DOMAIN M
         /\ \A kind : Of(M, kind) = Of(N, kind) \cap DOMAIN M
         /\ Context(M) = Context(N) \cap DOMAIN M
    BY <1>6, SameLines
  <1>e. ASSUME NEW kind, kind # "belief_state" PROVE Of(N, kind) = Of(M, kind)
    <2>1. N[e].kind # kind
      BY <1>6, <1>8, <1>e
    <2>2. Of(N, kind) \subseteq DOMAIN M
      BY <1>9, <2>1 DEF Of, Ours
    <2> QED BY <2>2, <1>10
  <1>11. Context(N) = Context(M)
    <2>1. Of(N, "external_signal") = Of(M, "external_signal")
      BY <1>e
    <2>2. \A i \in Of(M, "external_signal") : N[i] = M[i]
      BY <1>9 DEF Of, Ours
    <2> QED BY <2>1, <2>2 DEF Context
  <1>12. OneContext(N)
    BY <1>1, <1>9, <1>11 DEF OneContext, Context, Of, Ours
  <1>13. Of(N, "completed_run") = {}
    BY <1>3, <1>e
  <1>14. Closed(N)
    BY <1>13 DEF Closed
  <1>15. \A i \in DOMAIN N : N[i].attempt <= attempt
    BY <1>1, <1>2, <1>6, <1>8, <1>9 DEF LogInv, NothingAhead
  <1>16. ASSUME NEW i \in Ours(N),
                N[i].kind \in CoreKinds \cup Projections \cup {"completed_run"}
         PROVE  N[i].cycle <= n
    <2>1. CASE i = e
      BY <2>1, <1>2, <1>6, <1>8
    <2>2. CASE i \in DOMAIN M
      BY <2>2, <1>1, <1>9, <1>10, <1>16 DEF LogInv, NothingAhead
    <2> QED BY <1>9, <2>1, <2>2 DEF Ours
  <1>17. NothingAhead(N, n)
    BY <1>15, <1>16 DEF NothingAhead
  <1>18. \A b \in Of(N, "belief_state") : b = e \/ b \in Of(M, "belief_state")
    BY <1>9, <1>10 DEF Of, Ours
  <1>19. ASSUME NEW b \in Of(M, "belief_state")
         PROVE  b \in DOMAIN M /\ M[b].cycle <= m /\ M[b].cycle \in Nat
    <2>1. b \in Ours(L) /\ L[b].kind = "belief_state" /\ b \in DOMAIN L
      BY <1>3, <1>19 DEF Of, Ours
    <2>2. L[b].cycle <= m
      BY <1>2, <2>1 DEF LogInv, NothingAhead, CoreKinds
    <2>3. M[b] = L[b] /\ b \in DOMAIN M
      BY <1>x, <2>1, OldOrNew
    <2>4. L[b].cycle \in Nat
      BY <1>x, <2>1, Lines, LineTypes DEF Prefix
    <2> QED BY <2>2, <2>3, <2>4
  <1>20. ASSUME NEW i \in Of(N, "belief_state"), NEW j \in Of(N, "belief_state"),
                N[i].cycle = N[j].cycle
         PROVE  i = j
    <2>1. CASE i \in Of(M, "belief_state") /\ j \in Of(M, "belief_state")
      BY <2>1, <1>1, <1>9, <1>19, <1>20 DEF LogInv, OneState
    <2>2. CASE i = e /\ j \in Of(M, "belief_state")
      BY <2>2, <1>2, <1>6, <1>8, <1>9, <1>19, <1>20
    <2>3. CASE j = e /\ i \in Of(M, "belief_state")
      BY <2>3, <1>2, <1>6, <1>8, <1>9, <1>19, <1>20
    <2> QED BY <1>18, <2>1, <2>2, <2>3
  <1>21. OneState(N)
    BY <1>20 DEF OneState
  <1>22. ASSUME NEW b \in Of(M, "belief_state") PROVE Sealed(N, b)
    BY <1>1, <1>6, <1>19, SameSeal DEF LogInv, StatesSeal
  <1>23. \A kind : BeforeState(N, e, kind) = OfCycle(M, kind, n)
    <2>1. \A i \in DOMAIN N : i < e => i \in DOMAIN M
      <3> TAKE i \in DOMAIN N
      <3>1. N \in Seq(Line) /\ i \in Nat
        BY <1>6, Lines DEF Prefix
      <3>2. e \in Nat
        BY <1>7 DEF e
      <3> QED BY <3>1, <3>2, <1>9
    <2>2. N[e].cycle = n
      BY <1>6, <1>8
    <2>3. ASSUME NEW kind, NEW i \in OfCycle(M, kind, n)
          PROVE  i \in BeforeState(N, e, kind)
      <3>1. i \in DOMAIN M /\ i \in Of(M, kind) /\ M[i].cycle = n
        BY <2>3 DEF OfCycle, Of, Ours
      <3>2. N[i] = M[i] /\ i < e /\ i \in Of(N, kind)
        BY <3>1, <1>9, <1>10
      <3> QED BY <3>1, <3>2, <2>2 DEF BeforeState, OfCycle
    <2>4. \A kind : BeforeState(N, e, kind) \subseteq OfCycle(M, kind, n)
      BY <2>1, <2>2, <1>9 DEF BeforeState, OfCycle, Of, Ours
    <2> SUFFICES ASSUME NEW kind
                 PROVE  BeforeState(N, e, kind) = OfCycle(M, kind, n)
      OBVIOUS
    <2>5. OfCycle(M, kind, n) \subseteq BeforeState(N, e, kind)
      BY <2>3
    <2> QED BY <2>4, <2>5
  <1>24. \A kind : Named(N, OfCycle(M, kind, n)) = Named(M, OfCycle(M, kind, n))
    <2> TAKE kind
    <2>1. \A i \in OfCycle(M, kind, n) : N[i] = M[i]
      BY <1>9 DEF OfCycle, Of, Ours
    <2> QED BY <2>1 DEF Named
  <1>25. Sealed(N, e)
    BY <1>4, <1>23, <1>24 DEF Sealed
  <1>26. StatesSeal(N)
    BY <1>18, <1>22, <1>25 DEF StatesSeal
  <1>27. N \in Seq(Line)
    BY <1>6 DEF Prefix
  <1> QED BY <1>12, <1>14, <1>17, <1>21, <1>26, <1>27 DEF LogInv, N, M

(* What IntegrateCycle, IntegrateRound and IntegrateSignals add to a log.  *)
Ready(L, m, n) ==
  /\ LogInv(L, m) /\ m \in Nat /\ n = m + 1 /\ n <= MaxCycles
  /\ attempt \in 1 .. MaxAttempts /\ Of(L, "completed_run") = {}
  /\ selected \subseteq Candidates
  /\ signals \subseteq Questions \cup {"context", "told"}
  /\ AskedOf(L, n)

Closes(L, N, n) ==
  /\ LogInv(N, n) /\ Of(N, "completed_run") = {} /\ Prefix(L, N)
  /\ \A i \in Added(L, N) : i \in Ours(N) /\ N[i].cycle = n
  /\ OfCycle(N, "belief_state", n) # {}
  /\ "context" \in signals => Context(N) # {}

(* The records of the core are the records of a cycle from beginning to    *)
(* end, and leave the log in order.                                        *)
LEMMA Integrated ==
  ASSUME NEW L, NEW m, NEW n, Ready(L, m, n), NEW new, new \subseteq Candidates,
         NEW N, N = L \o CoreRecords(n, new)
  PROVE  CoreRecords(n, new) \in Seq(Line) /\ Closes(L, N, n)
  <1> DEFINE s == Record("belief_state", n, {})
  <1>1. n \in 0 .. MaxCycles /\ attempt \in 1 .. MaxAttempts /\ attempt \in Nat
    BY QuestionAssumption DEF Ready
  <1>2. s \in Line /\ \E C : Opening(C, n) /\ CoreRecords(n, new) = C \o <<s>>
    <2>1. /\ selected \subseteq Candidates
          /\ signals \subseteq Questions \cup {"context", "told"}
      BY DEF Ready
    <2> QED BY <1>1, <2>1, CoreOpening
  <1>3. PICK C : Opening(C, n) /\ CoreRecords(n, new) = C \o <<s>>
    BY <1>2
  <1>4. Opens(L, C, m, n) /\ AskedOf(L, n)
    BY <1>3 DEF Ready, Opens
  <1>s. s = Record("belief_state", n, {})
    OBVIOUS
  <1>f. s.attempt = attempt /\ s.cycle = n /\ s.kind = "belief_state"
    BY RecordFields
  <1> HIDE DEF s
  <1>5. L \in Seq(Line) /\ C \in Seq(Line) /\ <<s>> \in Seq(Line)
    BY <1>2, <1>4, OneRecord DEF Opens, LogInv, Opening
  <1>6. N = (L \o C) \o <<s>>
    <2>1. (L \o C) \o <<s>> = L \o (C \o <<s>>)
      BY <1>5, ConcatAssociative
    <2> QED BY <2>1, <1>3
  <1>7. CoreRecords(n, new) \in Seq(Line)
    BY <1>3, <1>5, ConcatProperties
  <1>8. LogInv(N, n)
    BY <1>2, <1>4, <1>6, <1>s, Seals
  <1> DEFINE M == L \o C
             e == Len(M) + 1
  <1>9. /\ Prefix(L, M) /\ Behind(L, C, M, n) /\ Placed(L, C, M)
        /\ M \in Seq(Line)
    BY <1>4, OpenedLines DEF Prefix
  <1>o. Of(M, "completed_run") = {}
    BY <1>4, OpenedCycle
  <1>10. N = M \o <<s>>
    BY <1>6
  <1> HIDE DEF M
  <1>11. Prefix(M, N) /\ Added(M, N) = {e} /\ N[e] = s
    BY <1>2, <1>9, <1>10, OneMore
  <1> HIDE DEF e
  <1>w. /\ DOMAIN M \subseteq DOMAIN N /\ \A i \in DOMAIN M : N[i] = M[i]
        /\ \A i \in DOMAIN N : i \in DOMAIN M \/ i = e
    <2>1. /\ DOMAIN M \subseteq DOMAIN N /\ \A i \in DOMAIN M : N[i] = M[i]
          /\ \A i \in DOMAIN N : i \in DOMAIN M \/ i \in Added(M, N)
      <3>1. Prefix(M, N)
        BY <1>11
      <3> QED BY <3>1, OldOrNew
    <2> QED BY <2>1, <1>11
  <1>12. Prefix(L, N)
    BY <1>5, <1>7, Prolong
  <1>13. e \in DOMAIN N
    BY <1>11 DEF Added
  <1>14. OfCycle(N, "belief_state", n) # {}
    BY <1>11, <1>13, <1>f DEF OfCycle, Of, Ours
  <1>15. ASSUME NEW i \in Added(L, N)
         PROVE  i \in Ours(N) /\ N[i].cycle = n
    <2>1. CASE i = e
      BY <2>1, <1>11, <1>13, <1>f DEF Ours
    <2>2. CASE i # e
      <3>1. i \in DOMAIN M /\ N[i] = M[i] /\ i \in DOMAIN N
        BY <2>2, <1>15, <1>w DEF Added
      <3>2. i \in Added(L, M)
        BY <3>1, <1>15 DEF Added
      <3>3. i \in Ours(M) /\ M[i].cycle = n
        BY <3>2, <1>9 DEF Behind
      <3> QED BY <3>1, <3>3 DEF Ours
    <2> QED BY <2>1, <2>2
  <1>16. Of(N, "completed_run") = {}
    <2> SUFFICES ASSUME NEW i \in Of(N, "completed_run") PROVE FALSE
      OBVIOUS
    <2>1. i \in DOMAIN N /\ N[i].kind = "completed_run"
      BY DEF Of, Ours
    <2>2. i # e
      BY <2>1, <1>11, <1>f
    <2>3. i \in DOMAIN M
      BY <2>1, <2>2, <1>w
    <2>4. i \in Of(M, "completed_run")
      BY <2>3, <1>11, SameLines
    <2> QED BY <2>4, <1>o
  <1>17. ASSUME "context" \in signals PROVE Context(N) # {}
    <2>1. Has(C, Record("external_signal", n, {"context"}))
      BY <1>3, <1>17 DEF Opening
    <2>2. PICK k \in DOMAIN C : C[k] = Record("external_signal", n, {"context"})
      BY <2>1 DEF Has
    <2>3. /\ C[k].kind = "external_signal" /\ C[k].names = {"context"}
          /\ C[k].attempt = attempt
      BY <2>2, RecordFields
    <2>4. Len(L) + k \in Added(L, M) /\ M[Len(L) + k] = C[k]
      BY <1>9 DEF Placed
    <2>5. Len(L) + k \in DOMAIN M
      BY <2>4 DEF Added
    <2>6. Len(L) + k \in DOMAIN N /\ N[Len(L) + k] = C[k]
      BY <2>4, <2>5, <1>w
    <2> QED BY <2>3, <2>6 DEF Context, Of, Ours
  <1> QED BY <1>7, <1>8, <1>12, <1>14, <1>15, <1>16, <1>17 DEF Closes

-----------------------------------------------------------------------------
(* Steps of the log.                                                       *)

(* The sets of lines after a step of the same attempt.                     *)
LEMMA SetsAfter ==
  ASSUME attempt' = attempt
  PROVE  /\ Ours(log)' = Ours(log')
         /\ \A kind : Of(log, kind)' = Of(log', kind)
         /\ \A kind, n : OfCycle(log, kind, n)' = OfCycle(log', kind, n)
         /\ Context(log)' = Context(log')
         /\ \A n : Ahead(log, n)' = Ahead(log', n)
  <1>1. Ours(log)' = Ours(log')
    BY DEF Ours
  <1>2. \A kind : Of(log, kind)' = Of(log', kind)
    BY <1>1 DEF Of
  <1>3. \A kind, n : OfCycle(log, kind, n)' = OfCycle(log', kind, n)
    BY <1>2 DEF OfCycle
  <1>4. Context(log)' = Context(log')
    BY <1>2 DEF Context
  <1>5. \A n : Ahead(log, n)' = Ahead(log', n)
    BY <1>1 DEF Ahead
  <1> QED BY <1>1, <1>2, <1>3, <1>4, <1>5

(* The invariant of the log after a step of the same attempt.              *)
LEMMA InvAfter ==
  ASSUME attempt' = attempt, config' = config, LogInv(log', cycle')
  PROVE  LogInv(log, cycle)'
  <1>1. /\ Ours(log)' = Ours(log')
        /\ \A kind : Of(log, kind)' = Of(log', kind)
        /\ \A kind, n : OfCycle(log, kind, n)' = OfCycle(log', kind, n)
        /\ Context(log)' = Context(log')
    BY SetsAfter
  <1>2. (log \in Seq(Line))'
    BY DEF LogInv, Line
  <1>3. NothingAhead(log, cycle)'
    BY <1>1 DEF LogInv, NothingAhead
  <1>4. \A b, kind : BeforeState(log, b, kind)' = BeforeState(log', b, kind)
    BY <1>1 DEF BeforeState
  <1>5. \A lines : Named(log, lines)' = Named(log', lines)
    BY DEF Named
  <1>6. \A b : Sealed(log, b)' <=> Sealed(log', b)
    BY <1>4, <1>5 DEF Sealed
  <1>7. StatesSeal(log)'
    BY <1>1, <1>6 DEF LogInv, StatesSeal
  <1>8. OneState(log)'
    BY <1>1 DEF LogInv, OneState
  <1>9. OneContext(log)'
    BY <1>1 DEF LogInv, OneContext
  <1>10. Closed(log)'
    BY <1>1 DEF LogInv, Closed
  <1> QED BY <1>2, <1>3, <1>7, <1>8, <1>9, <1>10 DEF LogInv

(* The log is a log, and all of it is ledger when nothing is being written.*)
LEMMA LogType ==
  ASSUME ledger \in Seq(Line), todo \in Seq(Line)
  PROVE  /\ log \in Seq(Line) /\ Prefix(ledger, log)
         /\ todo = <<>> => log = ledger
  BY Prolong, ConcatEmptySeq DEF log

(* A call that comes back with records to write adds them to the log.      *)
LEMMA Calls ==
  ASSUME ledger \in Seq(Line), todo = <<>>, ledger' = ledger
  PROVE  log' = log \o todo'
  <1>1. log = ledger
    BY EmptySeq, LogType
  <1> QED BY <1>1 DEF log

(* What the invariant says of the log when nothing is being written and    *)
(* the run has not ended.                                                  *)
LEMMA Standing ==
  ASSUME IInv, todo = <<>>, stage \notin Ended
  PROVE  /\ ledger \in Seq(Line) /\ log \in Seq(Line) /\ log = ledger
         /\ LogInv(log, cycle) /\ Of(log, "completed_run") = {} /\ AllWhole(log)
         /\ attempt \in 1 .. MaxAttempts /\ attempt \in Nat /\ attempt \in Int
         /\ cycle \in 0 .. MaxCycles /\ cycle \in Nat /\ cycle \in Int
         /\ MaxCycles \in Nat
  <1>1. /\ ledger \in Seq(Line) /\ todo \in Seq(Line)
        /\ attempt \in 1 .. MaxAttempts /\ cycle \in 0 .. MaxCycles
    BY DEF IInv, Written, RunInv, Types
  <1>2. log \in Seq(Line) /\ log = ledger
    BY <1>1, LogType
  <1>3. LogInv(log, cycle) /\ Of(log, "completed_run") = {} /\ AllWhole(log)
    BY DEF IInv, StageInv, Open, Whole, Ended
  <1> QED BY <1>1, <1>2, <1>3, QuestionAssumption

(* Planning, execution, projection: what such records leave as it is.      *)
LEMMA QuietLog ==
  ASSUME NEW L, NEW M, NEW n \in Int, NEW m \in Int, m <= n, attempt \in Int,
         Prefix(L, M), LogInv(L, m), Of(L, "completed_run") = {}, Quiet(L, M, n),
         AllWhole(L)
  PROVE  /\ LogInv(M, n) /\ Of(M, "completed_run") = {} /\ AllWhole(M)
         /\ \A k : OfCycle(M, "belief_state", k) = OfCycle(L, "belief_state", k)
         /\ \A kind, k : OfCycle(L, kind, k) \subseteq OfCycle(M, kind, k)
         /\ Context(M) = Context(L)
         /\ \A k : Ahead(M, k) = Ahead(L, k) \cup {i \in Added(L, M) : M[i].cycle > k}
         /\ Added(L, M) \subseteq Ours(M)
  <1>1. LogInv(M, n)
    BY QuietInv
  <1>2. /\ DOMAIN L \subseteq DOMAIN M
        /\ \A i \in DOMAIN L : M[i] = L[i]
        /\ \A i \in DOMAIN M : i \in DOMAIN L \/ i \in Added(L, M)
    BY OldOrNew
  <1>3. /\ Ours(L) = Ours(M) \cap DOMAIN L
        /\ \A kind : Of(L, kind) = Of(M, kind) \cap DOMAIN L
        /\ \A kind, k : OfCycle(L, kind, k) = OfCycle(M, kind, k) \cap DOMAIN L
        /\ Context(L) = Context(M) \cap DOMAIN L
    BY SameLines
  <1>4. \A kind \in CoreKinds \cup {"completed_run"} : Of(M, kind) = Of(L, kind)
    BY <1>2, <1>3 DEF Quiet, Of, Ours
  <1>5. Of(M, "completed_run") = {} /\ Of(M, "belief_state") = Of(L, "belief_state")
        /\ Of(M, "external_signal") = Of(L, "external_signal")
    BY <1>4 DEF CoreKinds
  <1>6. \A k : OfCycle(M, "belief_state", k) = OfCycle(L, "belief_state", k)
    BY <1>2, <1>5 DEF OfCycle, Of, Ours
  <1>7. Context(M) = Context(L)
    BY <1>2, <1>5 DEF Context, Of, Ours
  <1>8. Added(L, M) \subseteq Ours(M)
    BY DEF Quiet, Added, Ours
  <1>9. \A k : Ahead(M, k) = Ahead(L, k) \cup {i \in Added(L, M) : M[i].cycle > k}
    <2> TAKE k
    <2>1. Ahead(M, k) \subseteq Ahead(L, k) \cup {i \in Added(L, M) : M[i].cycle > k}
      BY <1>2, <1>3 DEF Ahead, Ours
    <2>2. Ahead(L, k) \subseteq Ahead(M, k)
      BY <1>2, <1>3 DEF Ahead, Ours
    <2>3. {i \in Added(L, M) : M[i].cycle > k} \subseteq Ahead(M, k)
      BY <1>8 DEF Ahead
    <2> QED BY <2>1, <2>2, <2>3
  <1>10. AllWhole(M)
    <2> SUFFICES ASSUME NEW i \in Ours(M), M[i].kind \in CoreKinds
                 PROVE  OfCycle(M, "belief_state", M[i].cycle) # {}
      BY DEF AllWhole
    <2>1. i \in DOMAIN L
      BY <1>2 DEF Ours, Quiet
    <2>2. i \in Ours(L) /\ M[i] = L[i]
      BY <2>1, <1>2, <1>3
    <2> QED BY <2>2, <1>6 DEF AllWhole
  <1> QED BY <1>1, <1>3, <1>5, <1>6, <1>7, <1>8, <1>9, <1>10

-----------------------------------------------------------------------------
(* Steps of the run: what does not speak of the log.                       *)

(* Whatever leaves the run at an end keeps its variables in their types.   *)
LEMMA LeavesKeepRun ==
  ASSUME RunInv, stage' \in Ended,
         stage' = "dead" => attempt < MaxAttempts /\ config.regime = "question",
         UNCHANGED <<config, attempt, cycle>>,
         pool' = pool, proposed' \in {proposed, {}}, selected' \in {selected, {}},
         signals' \in {signals, {}, {"told"}}, stop' \in StopReasons
  PROVE  RunInv'
  <1>1. Types'
    BY DEF RunInv, Types, Ended, Fresh, QuestionStages, RoundStages, LoopStages,
           Projecting
  <1>2. Proposals'
    BY DEF RunInv, Proposals, Ended
  <1>3. Signals'
    BY DEF RunInv, Signals, Ended, RoundStages, LoopStages
  <1>4. Stops'
    BY DEF Stops, Ended
  <1> QED BY <1>1, <1>2, <1>3, <1>4 DEF RunInv

(* The designer's proposals for the first cycle.                           *)
LEMMA DesignFirstRun ==
  ASSUME RunInv, DesignFirst
  PROVE  RunInv'
  <1>1. Types'
    BY QuestionAssumption
    DEF DesignFirst, RunInv, Types, At, Ended, Fresh, QuestionStages,
        RoundStages, LoopStages, Projecting
  <1>2. Proposals'
    BY QuestionAssumption DEF DesignFirst, RunInv, Types, Proposals, At, Candidates
  <1>3. Signals'
    BY QuestionAssumption
    DEF DesignFirst, RunInv, Types, Signals, At, RoundStages, LoopStages
  <1>4. Stops'
    BY QuestionAssumption DEF DesignFirst, RunInv, Types, Stops, At
  <1> QED BY <1>1, <1>2, <1>3, <1>4 DEF RunInv

(* The initializer's candidates are of cycle 0.                            *)
LEMMA InitializeRun ==
  ASSUME RunInv, Initialize
  PROVE  RunInv'
  <1>1. Types'
    BY QuestionAssumption
    DEF Initialize, Initializes, FirstCandidates, RunInv, Types, At, Ended,
        Fresh, QuestionStages, RoundStages, LoopStages, Projecting
  <1>2. Proposals'
    BY QuestionAssumption
    DEF Initialize, Initializes, FirstCandidates, RunInv, Types, Proposals, At,
        Candidates
  <1>3. Signals'
    BY QuestionAssumption
    DEF Initialize, Initializes, FirstCandidates, RunInv, Types, Signals, At,
        RoundStages, LoopStages
  <1>4. Stops'
    BY QuestionAssumption
    DEF Initialize, Initializes, FirstCandidates, RunInv, Types, Stops, At
  <1> QED BY <1>1, <1>2, <1>3, <1>4 DEF RunInv

(* So are those of the rounds.                                             *)
LEMMA BeginRoundsRun ==
  ASSUME RunInv, BeginRounds
  PROVE  RunInv'
  <1>1. Types'
    BY QuestionAssumption
    DEF BeginRounds, Initializes, FirstCandidates, RunInv, Types, At, Ended,
        Fresh, QuestionStages, RoundStages, LoopStages, Projecting
  <1>2. Proposals'
    BY QuestionAssumption
    DEF BeginRounds, Initializes, FirstCandidates, RunInv, Types, Proposals, At,
        Candidates
  <1>3. Signals'
    BY QuestionAssumption
    DEF BeginRounds, Initializes, FirstCandidates, RunInv, Types, Signals, At,
        RoundStages, LoopStages
  <1>4. Stops'
    BY QuestionAssumption
    DEF BeginRounds, Initializes, FirstCandidates, RunInv, Types, Stops, At
  <1> QED BY <1>1, <1>2, <1>3, <1>4 DEF RunInv

(* The planner chooses from the pool.                                      *)
LEMMA PlanProbesRun ==
  ASSUME RunInv, PlanProbes
  PROVE  RunInv'
  <1>1. Types'
    BY QuestionAssumption
    DEF PlanProbes, RunInv, Types, At, Ended, Fresh, QuestionStages,
        RoundStages, LoopStages, Projecting
  <1>2. Proposals'
    BY QuestionAssumption DEF PlanProbes, RunInv, Types, Proposals, At, Candidates
  <1>3. Signals'
    BY QuestionAssumption
    DEF PlanProbes, RunInv, Types, Signals, At, RoundStages, LoopStages
  <1>4. Stops'
    BY QuestionAssumption DEF PlanProbes, RunInv, Types, Stops, At
  <1> QED BY <1>1, <1>2, <1>3, <1>4 DEF RunInv

(* The context is a signal of the first cycle.                             *)
LEMMA ExecuteProbesRun ==
  ASSUME RunInv, ExecuteProbes
  PROVE  RunInv'
  <1>1. Types'
    BY QuestionAssumption
    DEF ExecuteProbes, InitialContext, Asks, Candidates, RunInv, Types, At,
        Ended, Fresh, QuestionStages, RoundStages, LoopStages, Projecting
  <1>2. Proposals'
    BY QuestionAssumption
    DEF ExecuteProbes, InitialContext, Asks, Candidates, RunInv, Types,
        Proposals, At, Candidates
  <1>5. Asks(selected) \subseteq Questions
    BY DEF RunInv, Proposals, Asks, Candidates
  <1>6. PICK active \in SUBSET Asks(selected) : signals' = active \cup InitialContext(cycle)
    BY DEF ExecuteProbes
  <1>7. /\ signals' \subseteq Questions \cup {"context", "told"}
        /\ "told" \notin signals'
        /\ "context" \in signals' <=> config.context /\ cycle = 0
    BY <1>5, <1>6, QuestionAssumption DEF InitialContext
  <1>3. Signals'
    BY <1>7 DEF ExecuteProbes, RunInv, Signals, RoundStages, LoopStages
  <1>4. Stops'
    BY QuestionAssumption
    DEF ExecuteProbes, InitialContext, Asks, Candidates, RunInv, Types, Stops,
        At
  <1> QED BY <1>1, <1>2, <1>3, <1>4 DEF RunInv

(* A passive round has a signal of the others only.                        *)
LEMMA PassiveRoundRun ==
  ASSUME RunInv, PassiveRound
  PROVE  RunInv'
  <1>1. Types'
    BY QuestionAssumption
    DEF PassiveRound, RunInv, Types, At, Ended, Fresh, QuestionStages,
        RoundStages, LoopStages, Projecting
  <1>2. Proposals'
    BY QuestionAssumption DEF PassiveRound, RunInv, Types, Proposals, At, Candidates
  <1>3. Signals'
    BY QuestionAssumption
    DEF PassiveRound, RunInv, Types, Signals, At, RoundStages, LoopStages
  <1>4. Stops'
    BY QuestionAssumption DEF PassiveRound, RunInv, Types, Stops, At
  <1> QED BY <1>1, <1>2, <1>3, <1>4 DEF RunInv

(* The other rounds have probes.                                           *)
LEMMA PlanRoundRun ==
  ASSUME RunInv, PlanRound
  PROVE  RunInv'
  <1>1. Types'
    BY QuestionAssumption
    DEF PlanRound, Plannable, RunInv, Types, At, Ended, Fresh, QuestionStages,
        RoundStages, LoopStages, Projecting
  <1>2. Proposals'
    BY QuestionAssumption
    DEF PlanRound, Plannable, RunInv, Types, Proposals, At, Candidates
  <1>3. Signals'
    BY QuestionAssumption
    DEF PlanRound, Plannable, RunInv, Types, Signals, At, RoundStages,
        LoopStages
  <1>4. Stops'
    BY QuestionAssumption DEF PlanRound, Plannable, RunInv, Types, Stops, At
  <1> QED BY <1>1, <1>2, <1>3, <1>4 DEF RunInv

(* What the probes of a round bring is a question of theirs.               *)
LEMMA ExecuteRoundRun ==
  ASSUME RunInv, ExecuteRound
  PROVE  RunInv'
  <1>1. Types'
    BY QuestionAssumption
    DEF ExecuteRound, Asks, Candidates, RunInv, Types, At, Ended, Fresh,
        QuestionStages, RoundStages, LoopStages, Projecting
  <1>2. Proposals'
    BY QuestionAssumption
    DEF ExecuteRound, Asks, Candidates, RunInv, Types, Proposals, At, Candidates
  <1>5. Asks(selected) \subseteq Questions
    BY DEF RunInv, Proposals, Asks, Candidates
  <1>6. PICK active \in SUBSET Asks(selected) : signals' = active \cup signals
    BY DEF ExecuteRound
  <1>7. signals \subseteq {"told"} /\ selected # {}
    BY DEF ExecuteRound, RunInv, Signals, At
  <1>8. signals' \subseteq Questions \cup {"told"} /\ "context" \notin signals'
    BY <1>5, <1>6, <1>7, QuestionAssumption
  <1>3. Signals'
    BY <1>7, <1>8 DEF ExecuteRound, Signals, RoundStages, LoopStages
  <1>4. Stops'
    BY QuestionAssumption
    DEF ExecuteRound, Asks, Candidates, RunInv, Types, Stops, At
  <1> QED BY <1>1, <1>2, <1>3, <1>4 DEF RunInv

(* The projector is told that the run stops when it does.                  *)
LEMMA ProjectAnswerRun ==
  ASSUME RunInv, ProjectAnswer
  PROVE  RunInv'
  <1>1. Types'
    BY QuestionAssumption
    DEF ProjectAnswer, cyclic, ProspectiveStop, StopReasons, RunInv, Types, At,
        Ended, Fresh, QuestionStages, RoundStages, LoopStages, Projecting
  <1>2. Proposals'
    BY QuestionAssumption
    DEF ProjectAnswer, cyclic, ProspectiveStop, StopReasons, RunInv, Types,
        Proposals, At, Candidates
  <1>3. Signals'
    BY QuestionAssumption
    DEF ProjectAnswer, cyclic, ProspectiveStop, StopReasons, RunInv, Types,
        Signals, At, RoundStages, LoopStages
  <1>4. Stops'
    BY QuestionAssumption
    DEF ProjectAnswer, cyclic, ProspectiveStop, StopReasons, RunInv, Types,
        Stops, At, Fresh, QuestionStages, RoundStages, LoopStages, Projecting
  <1> QED BY <1>1, <1>2, <1>3, <1>4 DEF RunInv

(* The next pool is of questions not asked and of new ones.                *)
LEMMA AdvanceRun ==
  ASSUME RunInv, Advance
  PROVE  RunInv'
  <1>1. Types'
    BY QuestionAssumption
    DEF Advance, NextPool, Asks, StopReasons, RunInv, Types, At, Ended, Fresh,
        QuestionStages, RoundStages, LoopStages, Projecting
  <1>2. Proposals'
    BY QuestionAssumption
    DEF Advance, NextPool, Asks, StopReasons, RunInv, Types, Proposals, At,
        Candidates
  <1>3. Signals'
    BY QuestionAssumption
    DEF Advance, NextPool, Asks, StopReasons, RunInv, Types, Signals, At,
        RoundStages, LoopStages
  <1>4. Stops'
    BY QuestionAssumption
    DEF Advance, NextPool, Asks, StopReasons, RunInv, Types, Stops, At, Fresh,
        QuestionStages, RoundStages, LoopStages, Projecting
  <1> QED BY <1>1, <1>2, <1>3, <1>4 DEF RunInv

(* So is the next pool of the rounds.                                      *)
LEMMA ProjectRoundRun ==
  ASSUME RunInv, ProjectRound
  PROVE  RunInv'
  <1>1. Types'
    BY QuestionAssumption
    DEF ProjectRound, StopReasons, RunInv, Types, At, Ended, Fresh,
        QuestionStages, RoundStages, LoopStages, Projecting
  <1>2. Proposals'
    BY QuestionAssumption
    DEF ProjectRound, StopReasons, RunInv, Types, Proposals, At, Candidates
  <1>3. Signals'
    BY QuestionAssumption
    DEF ProjectRound, StopReasons, RunInv, Types, Signals, At, RoundStages,
        LoopStages
  <1>4. Stops'
    BY QuestionAssumption
    DEF ProjectRound, StopReasons, RunInv, Types, Stops, At, Fresh,
        QuestionStages, RoundStages, LoopStages, Projecting
  <1> QED BY <1>1, <1>2, <1>3, <1>4 DEF RunInv

(* The loop projects every cycle.                                          *)
LEMMA ProjectSignalsRun ==
  ASSUME RunInv, ProjectSignals
  PROVE  RunInv'
  <1>1. Types'
    BY QuestionAssumption
    DEF ProjectSignals, cyclic, RunInv, Types, At, Ended, Fresh, QuestionStages,
        RoundStages, LoopStages, Projecting
  <1>2. Proposals'
    BY QuestionAssumption
    DEF ProjectSignals, cyclic, RunInv, Types, Proposals, At, Candidates
  <1>3. Signals'
    BY QuestionAssumption
    DEF ProjectSignals, cyclic, RunInv, Types, Signals, At, RoundStages,
        LoopStages
  <1>4. Stops'
    BY QuestionAssumption DEF ProjectSignals, cyclic, RunInv, Types, Stops, At
  <1> QED BY <1>1, <1>2, <1>3, <1>4 DEF RunInv

(* A run that died begins with nothing.                                    *)
LEMMA RunAgainRun ==
  ASSUME RunInv, RunAgain
  PROVE  RunInv'
  <1>1. Types'
    BY QuestionAssumption
    DEF RunAgain, StopReasons, RunInv, Types, At, Ended, Fresh, QuestionStages,
        RoundStages, LoopStages, Projecting
  <1>2. Proposals'
    BY QuestionAssumption
    DEF RunAgain, StopReasons, RunInv, Types, Proposals, At, Candidates
  <1>3. Signals'
    BY QuestionAssumption
    DEF RunAgain, StopReasons, RunInv, Types, Signals, At, RoundStages,
        LoopStages
  <1>4. Stops'
    BY QuestionAssumption
    DEF RunAgain, StopReasons, RunInv, Types, Stops, At, Fresh, QuestionStages,
        RoundStages, LoopStages, Projecting
  <1> QED BY <1>1, <1>2, <1>3, <1>4 DEF RunInv

(* The core counts the cycle, and its candidates come from it.             *)
LEMMA IntegrateCycleRun ==
  ASSUME RunInv, IntegrateCycle
  PROVE  RunInv'
  <1>1. Types'
    BY QuestionAssumption
    DEF IntegrateCycle, Integrates, ShapeKept, RunInv, Types, At, Ended, Fresh,
        QuestionStages, RoundStages, LoopStages, Projecting
  <1>5. cycle' = cycle + 1 /\ cycle' \in 0 .. MaxCycles /\ cycle \in Nat
    BY QuestionAssumption DEF IntegrateCycle, Integrates, RunInv, Types, At, Fresh,
       QuestionStages, RoundStages, LoopStages, Projecting
  <1>6. /\ proposed' \subseteq Candidates /\ \A c \in proposed' : c.from = cycle'
    BY <1>5 DEF IntegrateCycle, Integrates, Candidates
  <1>7. \A c \in pool' : c.from <= cycle' /\ c.from < cycle'
    BY <1>5 DEF IntegrateCycle, Integrates, RunInv, Proposals, Candidates
  <1>2. Proposals'
    BY <1>5, <1>6, <1>7 DEF IntegrateCycle, Integrates, RunInv, Proposals
  <1>3. Signals'
    BY QuestionAssumption
    DEF IntegrateCycle, Integrates, ShapeKept, RunInv, Types, Signals, At,
        RoundStages, LoopStages
  <1>4. Stops'
    BY QuestionAssumption
    DEF IntegrateCycle, Integrates, ShapeKept, RunInv, Types, Stops, At
  <1> QED BY <1>1, <1>2, <1>3, <1>4 DEF RunInv

(* So it does in the rounds.                                               *)
LEMMA IntegrateRoundRun ==
  ASSUME RunInv, IntegrateRound
  PROVE  RunInv'
  <1>1. Types'
    BY QuestionAssumption
    DEF IntegrateRound, Integrates, ShapeKept, RunInv, Types, At, Ended, Fresh,
        QuestionStages, RoundStages, LoopStages, Projecting
  <1>5. cycle' = cycle + 1 /\ cycle' \in 0 .. MaxCycles /\ cycle \in Nat
    BY QuestionAssumption DEF IntegrateRound, Integrates, RunInv, Types, At, Fresh,
       QuestionStages, RoundStages, LoopStages, Projecting
  <1>6. /\ proposed' \subseteq Candidates /\ \A c \in proposed' : c.from = cycle'
    BY <1>5 DEF IntegrateRound, Integrates, Candidates
  <1>7. \A c \in pool' : c.from <= cycle' /\ c.from < cycle'
    BY <1>5 DEF IntegrateRound, Integrates, RunInv, Proposals, Candidates
  <1>2. Proposals'
    BY <1>5, <1>6, <1>7 DEF IntegrateRound, Integrates, RunInv, Proposals
  <1>3. Signals'
    BY QuestionAssumption
    DEF IntegrateRound, Integrates, ShapeKept, RunInv, Types, Signals, At,
        RoundStages, LoopStages
  <1>4. Stops'
    BY QuestionAssumption
    DEF IntegrateRound, Integrates, ShapeKept, RunInv, Types, Stops, At
  <1> QED BY <1>1, <1>2, <1>3, <1>4 DEF RunInv

(* And in the loop.                                                        *)
LEMMA IntegrateSignalsRun ==
  ASSUME RunInv, IntegrateSignals
  PROVE  RunInv'
  <1>1. Types'
    BY QuestionAssumption
    DEF IntegrateSignals, Integrates, ShapeKept, RunInv, Types, At, Ended,
        Fresh, QuestionStages, RoundStages, LoopStages, Projecting
  <1>5. cycle' = cycle + 1 /\ cycle' \in 0 .. MaxCycles /\ cycle \in Nat
    BY QuestionAssumption
    DEF IntegrateSignals, Integrates, RunInv, Types, At, Fresh, QuestionStages,
        RoundStages, LoopStages, Projecting
  <1>6. /\ proposed' \subseteq Candidates /\ \A c \in proposed' : c.from = cycle'
    BY <1>5 DEF IntegrateSignals, Integrates, Candidates
  <1>7. \A c \in pool' : c.from <= cycle' /\ c.from < cycle'
    BY <1>5 DEF IntegrateSignals, Integrates, RunInv, Proposals, Candidates
  <1>2. Proposals'
    BY <1>5, <1>6, <1>7 DEF IntegrateSignals, Integrates, RunInv, Proposals
  <1>3. Signals'
    BY QuestionAssumption
    DEF IntegrateSignals, Integrates, ShapeKept, RunInv, Types, Signals, At,
        RoundStages, LoopStages
  <1>4. Stops'
    BY QuestionAssumption
    DEF IntegrateSignals, Integrates, ShapeKept, RunInv, Types, Stops, At
  <1> QED BY <1>1, <1>2, <1>3, <1>4 DEF RunInv

-----------------------------------------------------------------------------
(* Steps of the run: the parts of the invariant that speak of the log.     *)

(* An attempt that has not ended stays open and whole.                     *)
LEMMA OpenAfter ==
  ASSUME attempt' = attempt, Of(log', "completed_run") = {}, AllWhole(log')
  PROVE  Open(log)' /\ Whole(log)'
  <1>1. /\ Ours(log)' = Ours(log') /\ \A kind : Of(log, kind)' = Of(log', kind)
        /\ \A kind, n : OfCycle(log, kind, n)' = OfCycle(log', kind, n)
    BY SetsAfter
  <1>2. Open(log)'
    BY <1>1 DEF Open
  <1>3. AllWhole(log)'
    BY <1>1 DEF AllWhole
  <1> QED BY <1>2, <1>3 DEF Whole

(* The chain of cycles after a step.                                       *)
LEMMA ChainAfter ==
  ASSUME attempt' = attempt, config' = config,
         stage' \in Begun =>
           /\ States(log', cycle')
           /\ Projected(log', IF stage' \in Projecting THEN cycle' - 1 ELSE cycle')
           /\ config.context /\ cycle' > 0 => Context(log') # {}
  PROVE  Chain(log)'
  <1>1. /\ \A kind, n : OfCycle(log, kind, n)' = OfCycle(log', kind, n)
        /\ Context(log)' = Context(log')
    BY SetsAfter
  <1>2. \A n : States(log, n)' <=> States(log', n)
    BY <1>1 DEF States
  <1>3. \A n : Projected(log, n)' <=> Projected(log', n)
    BY <1>1 DEF Projected
  <1> QED BY <1>1, <1>2, <1>3 DEF Chain, Begun, Projecting, QuestionStages, RoundStages

(* Nothing has been asked of the next cycle yet.                           *)
LEMMA NothingAsked ==
  ASSUME attempt' = attempt, Ahead(log', cycle') = {},
         stage' \in Fresh => Ours(log') = {},
         stage' \notin {"execute", "round_execute", "integrate"},
         stage' = "round_integrate" => selected' = {}
  PROVE  Asked(log)'
  <1>1. Ours(log)' = Ours(log') /\ \A n : Ahead(log, n)' = Ahead(log', n)
    BY SetsAfter
  <1>2. Ahead(log, cycle)' = {}
    BY <1>1
  <1> QED BY <1>1, <1>2 DEF Asked, Fresh, LoopStages, Projecting

(* A run at its end asks nothing any more.                                 *)
LEMMA AskedAtEnd ==
  ASSUME stage' \in Ended \cup {"result"}
  PROVE  Asked(log)'
  BY DEF Asked, Ended, Fresh, LoopStages, Projecting

(* A run that leaves without a record.                                     *)
LEMMA LeavesStep ==
  ASSUME IInv, todo = <<>>, stage \notin Ended,
         stage' \in {"raised", "refused", "returned"},
         UNCHANGED <<config, ledger, attempt, todo, cycle>>,
         pool' = pool, proposed' \in {proposed, {}}, selected' \in {selected, {}},
         signals' \in {signals, {}, {"told"}}, stop' \in StopReasons
  PROVE  IInv'
  <1>1. RunInv'
    <2>1. RunInv /\ stage' \in Ended /\ stage' # "dead"
      BY DEF IInv, Ended
    <2> QED BY <2>1, LeavesKeepRun
  <1>2. /\ ledger \in Seq(Line) /\ LogInv(log, cycle)
        /\ Of(log, "completed_run") = {} /\ AllWhole(log)
    BY Standing
  <1>3. Written'
    BY <1>2, EmptySeq DEF Written, Line
  <1>4. log' = log
    BY DEF log
  <1>5. LogInv(log, cycle)'
    BY <1>2, <1>4, InvAfter
  <1>6. Open(log)' /\ Whole(log)'
    BY <1>2, <1>4, OpenAfter
  <1>7. Asked(log)'
    BY AskedAtEnd DEF Ended
  <1>8. Chain(log)'
    BY ChainAfter DEF Begun, QuestionStages, RoundStages
  <1> QED BY <1>1, <1>3, <1>5, <1>6, <1>7, <1>8 DEF IInv, StageInv

(* A run that is cut off: what has not been written is lost.               *)
LEMMA CutStep ==
  ASSUME IInv, stage' \in {"unwritten", "dead"}, todo' = <<>>,
         stage' = "dead" => attempt < MaxAttempts /\ config.regime = "question",
         UNCHANGED <<config, ledger, attempt, cycle, cyclic, stop>>
  PROVE  IInv'
  <1>1. RunInv'
    <2>1. RunInv /\ stage' \in Ended /\ stop' \in StopReasons
      BY DEF IInv, Ended, RunInv, Types
    <2>2. pool' = pool /\ proposed' = proposed /\ selected' = selected /\ signals' = signals
      BY DEF cyclic
    <2> QED BY <2>1, <2>2, LeavesKeepRun
  <1>2. ledger \in Seq(Line) /\ todo \in Seq(Line) /\ LogInv(log, cycle)
    BY DEF IInv, Written
  <1>3. Written'
    BY <1>2, EmptySeq DEF Written, Line
  <1>4. log' = ledger
    BY <1>2, ConcatEmptySeq DEF log
  <1>5. LogInv(ledger, cycle)
    BY <1>2, LogType, PrefixInv
  <1>6. LogInv(log, cycle)'
    BY <1>4, <1>5, InvAfter
  <1>7. Asked(log)'
    BY AskedAtEnd DEF Ended
  <1>8. Chain(log)'
    BY ChainAfter DEF Begun, QuestionStages, RoundStages
  <1>9. Open(log)' /\ Whole(log)'
    BY DEF Open, Whole
  <1> QED BY <1>1, <1>3, <1>6, <1>7, <1>8, <1>9 DEF IInv, StageInv

(* A step of the control alone, within the cycles.                         *)
LEMMA ControlStep ==
  ASSUME IInv, todo = <<>>, stage \notin Ended, RunInv',
         UNCHANGED <<config, ledger, attempt, todo, cycle>>,
         Ahead(log, cycle) = {}, stage' \in Fresh => Ours(log) = {},
         stage' \notin {"execute", "round_execute", "integrate"},
         stage' = "round_integrate" => selected' = {},
         stage' \in Begun => stage \in Begun,
         stage' \in Begun => (stage \in Projecting <=> stage' \in Projecting)
  PROVE  IInv'
  <1>1. /\ ledger \in Seq(Line) /\ LogInv(log, cycle)
        /\ Of(log, "completed_run") = {} /\ AllWhole(log)
    BY Standing
  <1>2. Written'
    BY <1>1, EmptySeq DEF Written, Line
  <1>3. log' = log
    BY DEF log
  <1>4. LogInv(log, cycle)'
    BY <1>1, <1>3, InvAfter
  <1>5. Open(log)' /\ Whole(log)'
    BY <1>1, <1>3, OpenAfter
  <1>6. Asked(log)'
    BY <1>3, NothingAsked
  <1>7. Chain(log)
    BY DEF IInv, StageInv
  <1>8. Chain(log)'
    BY <1>3, <1>7, ChainAfter DEF Chain
  <1> QED BY <1>2, <1>4, <1>5, <1>6, <1>8 DEF IInv, StageInv

(* A line that is written was in the log already.                          *)
LEMMA AppendStep ==
  ASSUME IInv, Append1
  PROVE  IInv'
  <1>1. ledger \in Seq(Line) /\ todo \in Seq(Line) /\ todo # <<>>
    BY DEF IInv, Written, Append1
  <1>2. /\ ledger' = Append(ledger, Head(todo)) /\ todo' = Tail(todo)
        /\ UNCHANGED <<config, attempt, stage, cycle, stop>>
        /\ UNCHANGED <<pool, selected, signals, proposed>>
    BY DEF Append1, cyclic
  <1>3. /\ ledger' \in Seq(Line) /\ todo' \in Seq(Line) /\ ledger' \o todo' = ledger \o todo
    BY <1>1, <1>2, HeadMoves
  <1>4. log' = log
    BY <1>3 DEF log
  <1>5. Written'
    BY <1>3 DEF Written, Line
  <1>6. LogInv(log, cycle)'
    BY <1>2, <1>4, InvAfter DEF IInv
  <1>7. RunInv'
    BY <1>2 DEF IInv, RunInv, Types, Proposals, Signals, Stops
  <1>8. /\ Ours(log)' = Ours(log)
        /\ \A kind : Of(log, kind)' = Of(log, kind)
        /\ \A kind, n : OfCycle(log, kind, n)' = OfCycle(log, kind, n)
        /\ Context(log)' = Context(log)
        /\ \A n : Ahead(log, n)' = Ahead(log, n)
    BY <1>2, <1>4, SetsAfter
  <1>9. Asked(log)'
    BY <1>2, <1>4, <1>8 DEF IInv, StageInv, Asked, PlansOnly, PlansExecuted, Brought
  <1>10. Chain(log)'
    BY <1>2, <1>4, ChainAfter DEF IInv, StageInv, Chain
  <1>11. Open(log)'
    BY <1>2, <1>8 DEF IInv, StageInv, Open
  <1>12. Whole(log)'
    BY <1>2, <1>4, <1>8 DEF IInv, StageInv, Whole, AllWhole
  <1> QED BY <1>5, <1>6, <1>7, <1>9, <1>10, <1>11, <1>12 DEF IInv, StageInv

(* A run that died begins again: it has no lines yet.                      *)
LEMMA RunAgainStep ==
  ASSUME IInv, RunAgain
  PROVE  IInv'
  <1>1. /\ attempt' = attempt + 1 /\ stage' = "admit" /\ cycle' = 0
        /\ UNCHANGED <<config, ledger, todo>>
    BY DEF RunAgain
  <1>2. RunInv'
    BY RunAgainRun DEF IInv
  <1>3. log' = log /\ Written'
    BY <1>1 DEF log, IInv, Written, Line
  <1>4. LogInv(log, cycle) /\ attempt \in Nat
    BY QuestionAssumption DEF IInv, RunInv, Types
  <1>5. \A i \in DOMAIN log : log[i].attempt <= attempt /\ log[i].attempt \in Nat
    BY <1>4, Lines, LineTypes DEF LogInv, NothingAhead
  <1>6. \A i \in DOMAIN log' : log'[i].attempt < attempt' /\ log'[i].attempt <= attempt'
    <2>1. \A i \in DOMAIN log : log[i].attempt < attempt + 1 /\ log[i].attempt <= attempt + 1
      BY <1>4, <1>5
    <2> QED BY <2>1, <1>1, <1>3
  <1>7. Ours(log)' = {}
    <2> SUFFICES ASSUME NEW i \in DOMAIN log', log'[i].attempt = attempt' PROVE FALSE
      BY DEF Ours
    <2>1. attempt' \in Nat
      BY <1>1, <1>4
    <2> QED BY <2>1, <1>6
  <1>8. /\ \A kind : Of(log, kind)' = {}
        /\ \A n : Ahead(log, n)' = {} /\ Context(log)' = {}
    BY <1>7 DEF Of, Ahead, Context
  <1>9. LogInv(log, cycle)'
    <2>1. (log \in Seq(Line))'
      BY <1>3, <1>4 DEF LogInv, Line
    <2>2. NothingAhead(log, cycle)'
      BY <1>6, <1>7 DEF NothingAhead
    <2>3. StatesSeal(log)' /\ OneState(log)' /\ OneContext(log)' /\ Closed(log)'
      BY <1>8 DEF StatesSeal, OneState, OneContext, Closed
    <2> QED BY <2>1, <2>2, <2>3 DEF LogInv
  <1>10. Asked(log)'
    BY <1>1, <1>7, <1>8 DEF Asked
  <1>11. Chain(log)'
    BY <1>1 DEF Chain, Begun, QuestionStages, RoundStages
  <1>12. Open(log)' /\ Whole(log)'
    BY <1>7, <1>8 DEF Open, Whole, AllWhole
  <1> QED BY <1>2, <1>3, <1>9, <1>10, <1>11, <1>12 DEF IInv, StageInv

(* A call that comes back with one record of the planner, the executor or  *)
(* the projector, or of a task that is refused.                            *)
LEMMA QuietStep ==
  ASSUME IInv, todo = <<>>, stage \notin Ended,
         UNCHANGED <<config, ledger, attempt, cycle>>,
         NEW r \in Line, todo' = <<r>>, r.attempt = attempt,
         r.kind \notin CoreKinds \cup {"completed_run"},
         r.kind \in Projections => r.cycle <= cycle
  PROVE  /\ Written' /\ LogInv(log, cycle)' /\ Open(log)' /\ Whole(log)'
         /\ \E e : /\ e \in Ours(log') /\ log'[e] = r
                   /\ \A k : Ahead(log', k) = Ahead(log, k) \cup {i \in {e} : r.cycle > k}
         /\ \A i \in DOMAIN log : log'[i] = log[i]
         /\ \A kind : Of(log, kind) \subseteq Of(log', kind)
         /\ \A kind, k : OfCycle(log, kind, k) \subseteq OfCycle(log', kind, k)
         /\ Context(log') = Context(log)
         /\ \A k : States(log, k) => States(log', k)
         /\ \A k : Projected(log, k) => Projected(log', k)
  <1> DEFINE e == Len(log) + 1
  <1>1. /\ ledger \in Seq(Line) /\ log \in Seq(Line) /\ LogInv(log, cycle)
        /\ Of(log, "completed_run") = {} /\ AllWhole(log)
        /\ attempt \in Int /\ cycle \in Int /\ cycle <= cycle
    BY Standing
  <1>2. <<r>> \in Seq(Line)
    BY OneRecord
  <1>3. Written'
    BY <1>1, <1>2 DEF Written, Line
  <1>4. log' = log \o <<r>>
    BY <1>1, Calls
  <1>5. Prefix(log, log') /\ Added(log, log') = {e} /\ log'[e] = r
    BY <1>1, <1>4, OneMore
  <1> HIDE DEF e
  <1>6. Quiet(log, log', cycle)
    BY <1>5 DEF Quiet
  <1>7. /\ LogInv(log', cycle) /\ Of(log', "completed_run") = {} /\ AllWhole(log')
        /\ \A k : OfCycle(log', "belief_state", k) = OfCycle(log, "belief_state", k)
        /\ \A kind, k : OfCycle(log, kind, k) \subseteq OfCycle(log', kind, k)
        /\ Context(log') = Context(log)
        /\ \A k : Ahead(log', k) = Ahead(log, k) \cup {i \in Added(log, log') : log'[i].cycle > k}
        /\ Added(log, log') \subseteq Ours(log')
    BY <1>1, <1>5, <1>6, QuietLog
  <1>8. LogInv(log, cycle)'
    BY <1>7, InvAfter
  <1>9. Open(log)' /\ Whole(log)'
    BY <1>7, OpenAfter
  <1>10. e \in Ours(log') /\ \A k : Ahead(log', k) = Ahead(log, k) \cup {i \in {e} : r.cycle > k}
    BY <1>5, <1>7
  <1>11. \A k : States(log, k) => States(log', k)
    BY <1>7 DEF States
  <1>12. \A k : Projected(log, k) => Projected(log', k)
    BY <1>7 DEF Projected
  <1>13. \A i \in DOMAIN log : log'[i] = log[i]
    BY <1>5, OldOrNew
  <1>14. \A kind : Of(log, kind) \subseteq Of(log', kind)
    BY <1>5, SameLines
  <1> QED BY <1>3, <1>5, <1>7, <1>8, <1>9, <1>10, <1>11, <1>12, <1>13, <1>14

-----------------------------------------------------------------------------
(* The steps of a run, one after the other.                                *)

(* Whatever raises leaves the log as it is.                                *)
LEMMA RaiseSteps ==
  ASSUME IInv,
         \/ Raises \/ DesignRaises \/ NoSignalShape \/ NothingToPlan
         \/ RoundShapeRaises \/ NoSignalRaises \/ RegimeRaises \/ StopRaises
  PROVE  IInv'
  <1>1. stop \in StopReasons
    BY DEF IInv, RunInv, Types
  <1>2. /\ todo = <<>> /\ stage \notin Ended /\ stage' = "raised"
        /\ UNCHANGED <<config, ledger, attempt, todo, cycle, cyclic, stop>>
    <2>1. CASE Raises
      BY <2>1 DEF Raises, Ended
    <2>2. CASE DesignRaises
      BY <2>2 DEF DesignRaises, At, Ended
    <2>3. CASE NoSignalShape
      BY <2>3 DEF NoSignalShape, At, Ended
    <2>4. CASE NothingToPlan
      BY <2>4 DEF NothingToPlan, Leaves, At, Ended
    <2>5. CASE RoundShapeRaises
      BY <2>5 DEF RoundShapeRaises, Leaves, At, Ended
    <2>6. CASE NoSignalRaises
      BY <2>6 DEF NoSignalRaises, Leaves, At, Ended
    <2>7. CASE RegimeRaises
      BY <2>7 DEF RegimeRaises, Leaves, Ended
    <2>8. CASE StopRaises
      BY <2>8 DEF StopRaises, Leaves, At, Ended
    <2> QED BY <2>1, <2>2, <2>3, <2>4, <2>5, <2>6, <2>7, <2>8
  <1>3. /\ pool' = pool /\ proposed' \in {proposed, {}} /\ selected' \in {selected, {}}
        /\ signals' \in {signals, {}, {"told"}} /\ stop' \in StopReasons
    BY <1>1, <1>2 DEF cyclic
  <1> QED BY <1>2, <1>3, LeavesStep

(* What is true at the stages at which nothing of the next cycle is there. *)
LEMMA QuietStages ==
  ASSUME IInv, At(stage),
         stage \in Fresh \cup LoopStages \cup Projecting
                   \cup {"design", "plan", "advance", "round"}
  PROVE  todo = <<>> /\ stage \notin Ended /\ Ahead(log, cycle) = {}
  <1>1. stage \notin Ended
    BY DEF Fresh, LoopStages, Projecting, Ended
  <1> QED BY <1>1 DEF At, IInv, StageInv, Asked

(* A task is admitted, or refused with a record.                           *)
LEMMA AdmitStep ==
  ASSUME IInv, Admit
  PROVE  IInv'
  <1>1. /\ stage = "admit" /\ todo = <<>> /\ stage \notin Ended
        /\ UNCHANGED <<config, ledger, attempt, cycle, cyclic, stop>>
    BY DEF Admit, At, Ended
  <1>2. Ahead(log, cycle) = {} /\ Ours(log) = {}
    BY <1>1 DEF IInv, StageInv, Asked, Fresh
  <1>3. CASE stage' = "initialize" /\ todo' = todo
    <2>1. RunInv'
      BY <1>1, <1>3 DEF IInv, RunInv, Types, Proposals, Signals, Stops, cyclic,
         Fresh, QuestionStages, RoundStages, LoopStages, Projecting
    <2> QED BY <1>1, <1>2, <1>3, <2>1, ControlStep DEF Begun, QuestionStages, RoundStages
  <1>4. CASE stage' = "refused" /\ todo' = <<Record("task_admission", 0, {})>>
    <2> DEFINE r == Record("task_admission", 0, {})
    <2>1. RunInv'
      <3>1. RunInv /\ stage' \in Ended /\ stage' # "dead" /\ stop' \in StopReasons
        BY <1>1, <1>4 DEF IInv, RunInv, Types, Ended
      <3>2. pool' = pool /\ proposed' = proposed /\ selected' = selected /\ signals' = signals
        BY <1>1 DEF cyclic
      <3> QED BY <1>1, <3>1, <3>2, LeavesKeepRun
    <2>2. attempt \in 1 .. MaxAttempts /\ 0 \in 0 .. MaxCycles
      BY QuestionAssumption DEF IInv, RunInv, Types
    <2>3. r \in Line /\ r.attempt = attempt /\ r.kind = "task_admission"
      <3>1. "task_admission" \in Kinds /\ {} \in SUBSET Names
        BY DEF Kinds
      <3>2. r \in Line
        BY <2>2, <3>1, RecordIsLine
      <3> QED BY <3>2, RecordFields
    <2>4. r.kind \notin CoreKinds \cup {"completed_run"} /\ r.kind \notin Projections
      BY <2>3 DEF CoreKinds, Projections
    <2> HIDE DEF r
    <2>5. todo' = <<r>>
      BY <1>4 DEF r
    <2>6. Written' /\ LogInv(log, cycle)' /\ Open(log)' /\ Whole(log)'
      BY <1>1, <2>3, <2>4, <2>5, QuietStep
    <2>7. Asked(log)'
      BY <1>4, AskedAtEnd DEF Ended
    <2>8. Chain(log)'
      BY <1>4 DEF Chain, Begun, QuestionStages, RoundStages
    <2> QED BY <2>1, <2>6, <2>7, <2>8 DEF IInv, StageInv
  <1> QED BY <1>3, <1>4 DEF Admit

(* The designer is asked before the first cycle.                           *)
LEMMA DesignFirstStep ==
  ASSUME IInv, DesignFirst
  PROVE  IInv'
  <1>1. /\ At(stage) /\ stage = "design" /\ stage' = "plan"
        /\ UNCHANGED <<config, ledger, attempt, todo, cycle>>
    BY DEF DesignFirst, At
  <1>2. todo = <<>> /\ stage \notin Ended /\ Ahead(log, cycle) = {}
    BY <1>1, QuietStages
  <1>3. RunInv'
    BY DesignFirstRun DEF IInv
  <1> QED BY <1>1, <1>2, <1>3, ControlStep DEF Begun, QuestionStages, RoundStages,
        Projecting, Fresh

(* A passive round takes its signals from the others.                      *)
LEMMA PassiveRoundStep ==
  ASSUME IInv, PassiveRound
  PROVE  IInv'
  <1>1. /\ At(stage) /\ stage = "round" /\ stage' = "round_integrate" /\ selected' = {}
        /\ UNCHANGED <<config, ledger, attempt, todo, cycle>>
    BY DEF PassiveRound, At
  <1>2. todo = <<>> /\ stage \notin Ended /\ Ahead(log, cycle) = {}
    BY <1>1, QuietStages
  <1>3. RunInv'
    BY PassiveRoundRun DEF IInv
  <1> QED BY <1>1, <1>2, <1>3, ControlStep DEF Begun, QuestionStages, RoundStages,
        Projecting, Fresh

(* The pool is made for the next cycle, or the run stops.                  *)
LEMMA AdvanceStep ==
  ASSUME IInv, Advance
  PROVE  IInv'
  <1>1. /\ At(stage) /\ stage = "advance" /\ stage' \in {"plan", "result"}
        /\ UNCHANGED <<config, ledger, attempt, todo, cycle>>
    BY DEF Advance, At
  <1>2. todo = <<>> /\ stage \notin Ended /\ Ahead(log, cycle) = {}
    BY <1>1, QuietStages
  <1>3. RunInv'
    BY AdvanceRun DEF IInv
  <1> QED BY <1>1, <1>2, <1>3, ControlStep DEF Begun, QuestionStages, RoundStages,
        Projecting, Fresh

(* The loop collects signals or stops without any.                         *)
LEMMA CollectSignalsStep ==
  ASSUME IInv, CollectSignals
  PROVE  IInv'
  <1>1. /\ At(stage) /\ stage = "collect"
        /\ UNCHANGED <<config, ledger, attempt, todo, cycle, pool, selected, proposed>>
    BY DEF CollectSignals, At
  <1>2. todo = <<>> /\ stage \notin Ended /\ Ahead(log, cycle) = {}
    BY <1>1, QuietStages DEF LoopStages
  <1>3. CASE stage' = "loop_integrate" /\ stop' = stop /\ signals' \in {{}, {"told"}}
    <2>1. RunInv'
      BY <1>1, <1>3, QuestionAssumption
      DEF IInv, RunInv, Types, Proposals, Signals, Stops, Fresh, QuestionStages,
          RoundStages, LoopStages, Projecting
    <2> QED BY <1>1, <1>2, <1>3, <2>1, ControlStep DEF Begun, QuestionStages,
          RoundStages, Fresh
  <1>4. CASE stage' = "returned" /\ stop' = "no_signals" /\ signals' = {}
    <2>1. stop' \in StopReasons
      BY <1>4 DEF StopReasons
    <2> QED BY <1>1, <1>2, <1>4, <2>1, LeavesStep
  <1> QED BY <1>3, <1>4 DEF CollectSignals

(* The loop goes on or stops after a cycle.                                *)
LEMMA StopLoopStep ==
  ASSUME IInv, StopLoop
  PROVE  IInv'
  <1>1. /\ At(stage) /\ stage = "loop_stop" /\ signals' = {} /\ proposed' = {}
        /\ UNCHANGED <<config, ledger, attempt, todo, cycle, pool, selected>>
    BY DEF StopLoop, At
  <1>2. todo = <<>> /\ stage \notin Ended /\ Ahead(log, cycle) = {}
    BY <1>1, QuietStages DEF LoopStages
  <1>3. stop' \in StopReasons
    BY DEF StopLoop, StopReasons
  <1>4. CASE stage' = "collect" /\ cycle # MaxCycles
    <2>1. RunInv'
      BY <1>1, <1>3, <1>4, QuestionAssumption
      DEF IInv, RunInv, Types, Proposals, Signals, Stops, Fresh, QuestionStages,
          RoundStages, LoopStages, Projecting
    <2> QED BY <1>1, <1>2, <1>4, <2>1, ControlStep DEF Begun, QuestionStages,
          RoundStages, Fresh
  <1>5. CASE stage' = "returned"
    BY <1>1, <1>2, <1>3, <1>5, LeavesStep
  <1>6. stop' = "none" => cycle # MaxCycles
    BY DEF StopLoop
  <1> QED BY <1>4, <1>5, <1>6 DEF StopLoop

(* A record of the running attempt, and its fields.                        *)
LEMMA Ourselves ==
  ASSUME attempt \in 1 .. MaxAttempts, NEW kind \in Kinds, NEW n \in 0 .. MaxCycles,
         NEW names \in SUBSET Names, NEW r, r = Record(kind, n, names)
  PROVE  /\ r \in Line /\ r.attempt = attempt /\ r.kind = kind
         /\ r.cycle = n /\ r.names = names
  BY RecordIsLine, RecordFields

(* Questions are asked of candidates.                                      *)
LEMMA AsksQuestions ==
  ASSUME NEW S, S \subseteq Candidates
  PROVE  Asks(S) \subseteq Questions /\ Asks(S) \subseteq Names
  BY DEF Asks, Candidates, Names

(* A plan is recorded before its probes are executed.                      *)
LEMMA Planned ==
  ASSUME IInv, At(stage), stage \in {"plan", "round"}, RunInv',
         NEW names, names \subseteq Names,
         todo' = <<Record("probe_planning", cycle + 1, names)>>,
         stage' \in {"execute", "round_execute", "result"},
         stage' = "result" => stage = "plan",
         UNCHANGED <<config, ledger, attempt, cycle>>
  PROVE  IInv'
  <1> DEFINE r == Record("probe_planning", cycle + 1, names)
  <1>1. todo = <<>> /\ stage \notin Ended /\ Ahead(log, cycle) = {}
    BY QuietStages
  <1>2. attempt \in 1 .. MaxAttempts /\ cycle \in Nat /\ cycle + 1 \in 0 .. MaxCycles
    BY QuestionAssumption
    DEF IInv, RunInv, Types, QuestionStages, RoundStages, Projecting
  <1>3. "probe_planning" \in Kinds /\ names \in SUBSET Names
    BY DEF Kinds
  <1>4. /\ r \in Line /\ r.attempt = attempt /\ r.kind = "probe_planning"
        /\ r.cycle = cycle + 1 /\ r.names = names
    BY <1>2, <1>3, Ourselves
  <1>r. todo' = <<r>>
    OBVIOUS
  <1> HIDE DEF r
  <1>5. r.kind \notin CoreKinds \cup {"completed_run"} /\ r.kind \notin Projections
    BY <1>4 DEF CoreKinds, Projections
  <1>6. /\ Written' /\ LogInv(log, cycle)' /\ Open(log)' /\ Whole(log)'
        /\ \E e : /\ e \in Ours(log') /\ log'[e] = r
                  /\ \A k : Ahead(log', k) = Ahead(log, k) \cup {i \in {e} : r.cycle > k}
        /\ Context(log') = Context(log)
        /\ \A k : States(log, k) => States(log', k)
        /\ \A k : Projected(log, k) => Projected(log', k)
    BY <1>1, <1>r, <1>4, <1>5, QuietStep
  <1>7. PICK e : /\ e \in Ours(log') /\ log'[e] = r
                 /\ \A k : Ahead(log', k) = Ahead(log, k) \cup {i \in {e} : r.cycle > k}
    BY <1>6
  <1>8. Ahead(log', cycle) = {e}
    <2>1. r.cycle > cycle
      BY <1>2, <1>4
    <2> QED BY <2>1, <1>1, <1>7
  <1>9. PlansOnly(log', cycle)
    BY <1>4, <1>7, <1>8 DEF PlansOnly
  <1>10. PlansOnly(log, cycle)'
    BY <1>9, SetsAfter DEF PlansOnly
  <1>11. Asked(log)'
    BY <1>10 DEF Asked, Fresh, LoopStages, Projecting
  <1>12. Chain(log)
    BY DEF IInv, StageInv
  <1>13. Chain(log)'
    BY <1>6, <1>12, ChainAfter
    DEF Chain, Begun, QuestionStages, RoundStages, Projecting
  <1> QED BY <1>6, <1>11, <1>13 DEF IInv, StageInv

(* Probes are planned.                                                     *)
LEMMA PlanProbesStep ==
  ASSUME IInv, PlanProbes
  PROVE  IInv'
  <1>1. /\ At(stage) /\ stage = "plan" /\ stage' = "execute"
        /\ UNCHANGED <<config, ledger, attempt, cycle>>
    BY DEF PlanProbes, At
  <1>2. PICK chosen \in SUBSET pool :
          todo' = <<Record("probe_planning", cycle + 1, Asks(chosen))>>
    BY DEF PlanProbes
  <1>3. Asks(chosen) \subseteq Names
    BY <1>2, AsksQuestions DEF IInv, RunInv, Proposals
  <1>4. RunInv'
    BY PlanProbesRun DEF IInv
  <1> QED BY <1>1, <1>2, <1>3, <1>4, Planned

(* A round is planned.                                                     *)
LEMMA PlanRoundStep ==
  ASSUME IInv, PlanRound
  PROVE  IInv'
  <1>1. /\ At(stage) /\ stage = "round" /\ stage' = "round_execute"
        /\ UNCHANGED <<config, ledger, attempt, cycle>>
    BY DEF PlanRound, At
  <1>2. PICK chosen \in SUBSET pool :
          todo' = <<Record("probe_planning", cycle + 1, Asks(chosen))>>
    BY DEF PlanRound
  <1>3. Asks(chosen) \subseteq Names
    BY <1>2, AsksQuestions DEF IInv, RunInv, Proposals
  <1>4. RunInv'
    BY PlanRoundRun DEF IInv
  <1> QED BY <1>1, <1>2, <1>3, <1>4, Planned

(* There is nothing to plan.                                               *)
LEMMA PlanNothingStep ==
  ASSUME IInv, PlanNothing
  PROVE  IInv'
  <1>1. /\ At(stage) /\ stage = "plan" /\ selected' = {} /\ todo = <<>> /\ stage \notin Ended
        /\ UNCHANGED <<config, ledger, attempt, cycle, pool, signals, proposed>>
    BY DEF PlanNothing, At, Ended
  <1>t. stop \in StopReasons
    BY DEF IInv, RunInv, Types
  <1>2. CASE ~config.stopOnNoProbes
    <2>1. stage' = "raised" /\ todo' = todo /\ stop' = stop
      BY <1>2 DEF PlanNothing
    <2> QED BY <2>1, <1>1, <1>t, LeavesStep
  <1>3. CASE config.stopOnNoProbes
    <2>1. /\ todo' = <<Record("probe_planning", cycle + 1, {})>>
          /\ \/ stage' = "result" /\ stop' = "no_probes" /\ InitialContext(cycle) = {}
             \/ stage' = "execute" /\ stop' = stop
      BY <1>3 DEF PlanNothing
    <2>2. cycle \in Nat /\ cycle # MaxCycles
      BY <1>1, QuestionAssumption
      DEF IInv, RunInv, Types, QuestionStages, Projecting
    <2>3. InitialContext(cycle) = {} /\ config.context => cycle > 0
      BY <2>2 DEF InitialContext
    <2>4. Types'
      BY <1>1, <1>t, <2>1 DEF StopReasons, IInv, RunInv, Types, Ended, Fresh,
         QuestionStages, RoundStages, LoopStages, Projecting
    <2>5. Proposals'
      BY <1>1, <2>1 DEF IInv, RunInv, Proposals
    <2>6. Signals'
      BY <1>1, <2>1 DEF IInv, RunInv, Signals, RoundStages, LoopStages
    <2>7. Stops'
      BY <1>1, <2>1, <2>2, <2>3 DEF Stops
    <2>8. RunInv'
      BY <2>4, <2>5, <2>6, <2>7 DEF RunInv
    <2> QED BY <1>1, <2>1, <2>8, Planned
  <1> QED BY <1>2, <1>3

(* What the executor lists is recorded behind the plan.                    *)
LEMMA Executed ==
  ASSUME IInv, At(stage), stage \in {"execute", "round_execute"}, RunInv',
         NEW active, active \subseteq Questions,
         todo' = <<Record("probe_execution", cycle + 1, active)>>,
         Brought' = active,
         stage' \in {"integrate", "round_integrate"},
         stage' = "round_integrate" => selected' # {},
         UNCHANGED <<config, ledger, attempt, cycle>>
  PROVE  IInv'
  <1> DEFINE r == Record("probe_execution", cycle + 1, active)
  <1>1. todo = <<>> /\ stage \notin Ended /\ PlansOnly(log, cycle)
    BY DEF At, IInv, StageInv, Asked, Ended
  <1>2. attempt \in 1 .. MaxAttempts /\ cycle \in Nat /\ cycle + 1 \in 0 .. MaxCycles
    BY QuestionAssumption
    DEF IInv, RunInv, Types, QuestionStages, RoundStages, Projecting
  <1>3. "probe_execution" \in Kinds /\ active \in SUBSET Names
    BY DEF Kinds, Names
  <1>4. /\ r \in Line /\ r.attempt = attempt /\ r.kind = "probe_execution"
        /\ r.cycle = cycle + 1 /\ r.names = active
    BY <1>2, <1>3, Ourselves
  <1>r. todo' = <<r>>
    OBVIOUS
  <1> HIDE DEF r
  <1>5. r.kind \notin CoreKinds \cup {"completed_run"} /\ r.kind \notin Projections
    BY <1>4 DEF CoreKinds, Projections
  <1>6. /\ Written' /\ LogInv(log, cycle)' /\ Open(log)' /\ Whole(log)'
        /\ \E e : /\ e \in Ours(log') /\ log'[e] = r
                  /\ \A k : Ahead(log', k) = Ahead(log, k) \cup {i \in {e} : r.cycle > k}
        /\ \A i \in DOMAIN log : log'[i] = log[i]
        /\ \A kind : Of(log, kind) \subseteq Of(log', kind)
        /\ Context(log') = Context(log)
        /\ \A k : States(log, k) => States(log', k)
        /\ \A k : Projected(log, k) => Projected(log', k)
    BY <1>1, <1>r, <1>4, <1>5, QuietStep
  <1>7. PICK e : /\ e \in Ours(log') /\ log'[e] = r
                 /\ \A k : Ahead(log', k) = Ahead(log, k) \cup {i \in {e} : r.cycle > k}
    BY <1>6
  <1>8. Ahead(log', cycle) = Ahead(log, cycle) \cup {e}
    <2>1. r.cycle > cycle
      BY <1>2, <1>4
    <2> QED BY <2>1, <1>7
  <1>9. ASSUME NEW i \in Ahead(log, cycle)
        PROVE  /\ log'[i] = log[i] /\ log[i].kind = "probe_planning"
               /\ log[i].cycle = cycle + 1 /\ i \in Of(log', "probe_planning")
    <2>1. /\ i \in Ours(log) /\ i \in DOMAIN log /\ log[i].kind = "probe_planning"
          /\ log[i].cycle = cycle + 1
      BY <1>1, <1>9 DEF PlansOnly, Ahead, Ours
    <2>2. i \in Of(log, "probe_planning")
      BY <2>1 DEF Of
    <2> QED BY <2>1, <2>2, <1>6
  <1>10. \A i \in Ahead(log', cycle) :
           /\ log'[i].kind \in {"probe_planning", "probe_execution"}
           /\ log'[i].cycle = cycle + 1
           /\ log'[i].kind = "probe_execution" => log'[i].names = active
    BY <1>4, <1>7, <1>8, <1>9
  <1>11. Ahead(log', cycle) \cap Of(log', "probe_planning") # {}
    <2>1. PICK i \in Ahead(log, cycle) : TRUE
      BY <1>1 DEF PlansOnly
    <2> QED BY <2>1, <1>8, <1>9
  <1>12. Ahead(log', cycle) \cap Of(log', "probe_execution") # {}
    <2>1. e \in Of(log', "probe_execution")
      BY <1>4, <1>7 DEF Of
    <2> QED BY <2>1, <1>8
  <1>13. PlansExecuted(log', cycle, active)
    BY <1>10, <1>11, <1>12 DEF PlansExecuted
  <1>14. PlansExecuted(log, cycle, Brought)'
    <2>1. /\ Ahead(log, cycle)' = Ahead(log', cycle)
          /\ Of(log, "probe_planning")' = Of(log', "probe_planning")
          /\ Of(log, "probe_execution")' = Of(log', "probe_execution")
      BY SetsAfter
    <2> QED BY <1>13, <2>1 DEF PlansExecuted
  <1>15. Asked(log)'
    BY <1>14 DEF Asked, Fresh, LoopStages, Projecting
  <1>16. Chain(log)
    BY DEF IInv, StageInv
  <1>17. Chain(log)'
    BY <1>6, <1>16, ChainAfter
    DEF Chain, Begun, QuestionStages, RoundStages, Projecting
  <1> QED BY <1>6, <1>15, <1>17 DEF IInv, StageInv

(* The probes of a question are executed.                                  *)
LEMMA ExecuteProbesStep ==
  ASSUME IInv, ExecuteProbes
  PROVE  IInv'
  <1>1. /\ At(stage) /\ stage = "execute" /\ stage' = "integrate"
        /\ UNCHANGED <<config, ledger, attempt, cycle>>
    BY DEF ExecuteProbes, At
  <1>2. PICK active \in SUBSET Asks(selected) :
          /\ todo' = <<Record("probe_execution", cycle + 1, active)>>
          /\ signals' = active \cup InitialContext(cycle)
    BY DEF ExecuteProbes, ExecutionRecords
  <1>3. active \subseteq Questions
    BY <1>2, AsksQuestions DEF IInv, RunInv, Proposals
  <1>4. Brought' = active
    BY <1>2, <1>3, QuestionAssumption DEF Brought, InitialContext
  <1>5. RunInv'
    BY ExecuteProbesRun DEF IInv
  <1> QED BY <1>1, <1>2, <1>3, <1>4, <1>5, Executed

(* The probes of a round are executed.                                     *)
LEMMA ExecuteRoundStep ==
  ASSUME IInv, ExecuteRound
  PROVE  IInv'
  <1>1. /\ At(stage) /\ stage = "round_execute" /\ stage' = "round_integrate"
        /\ UNCHANGED <<config, ledger, attempt, cycle, selected>>
    BY DEF ExecuteRound, At
  <1>2. PICK active \in SUBSET Asks(selected) :
          /\ todo' = <<Record("probe_execution", cycle + 1, active)>>
          /\ signals' = active \cup signals
    BY DEF ExecuteRound, ExecutionRecords
  <1>3. active \subseteq Questions
    BY <1>2, AsksQuestions DEF IInv, RunInv, Proposals
  <1>s. signals \subseteq {"told"} /\ selected' # {}
    BY <1>1 DEF IInv, RunInv, Signals
  <1>4. Brought' = active
    BY <1>2, <1>3, <1>s, QuestionAssumption DEF Brought
  <1>5. RunInv'
    BY ExecuteRoundRun DEF IInv
  <1> QED BY <1>1, <1>2, <1>3, <1>4, <1>5, <1>s, Executed

(* A projection is recorded behind the belief state of its cycle.          *)
LEMMA ProjectsStep ==
  ASSUME IInv, At(stage), stage \in Projecting, RunInv',
         NEW kind \in Projections, todo' = <<Record(kind, cycle, {})>>,
         stage' \notin Projecting \cup Fresh,
         stage' \notin {"execute", "round_execute", "integrate", "round_integrate"},
         stage' \in Begun => stage # "loop_project",
         UNCHANGED <<config, ledger, attempt, cycle>>
  PROVE  IInv'
  <1> DEFINE r == Record(kind, cycle, {})
  <1>1. todo = <<>> /\ stage \notin Ended /\ Ahead(log, cycle) = {}
    BY QuietStages
  <1>2. attempt \in 1 .. MaxAttempts /\ cycle \in Nat /\ cycle \in 0 .. MaxCycles /\ cycle > 0
    BY QuestionAssumption DEF IInv, RunInv, Types
  <1>3. kind \in Kinds /\ {} \in SUBSET Names
    BY DEF Kinds, Projections
  <1>4. /\ r \in Line /\ r.attempt = attempt /\ r.kind = kind /\ r.cycle = cycle
    BY <1>2, <1>3, Ourselves
  <1>r. todo' = <<r>>
    OBVIOUS
  <1> HIDE DEF r
  <1>5. /\ r.kind \notin CoreKinds \cup {"completed_run"}
        /\ r.kind \in Projections => r.cycle <= cycle
    BY <1>2, <1>4 DEF CoreKinds, Projections
  <1>6. /\ Written' /\ LogInv(log, cycle)' /\ Open(log)' /\ Whole(log)'
        /\ \E e : /\ e \in Ours(log') /\ log'[e] = r
                  /\ \A k : Ahead(log', k) = Ahead(log, k) \cup {i \in {e} : r.cycle > k}
        /\ Context(log') = Context(log)
        /\ \A k : States(log, k) => States(log', k)
        /\ \A k : Projected(log, k) => Projected(log', k)
    BY <1>1, <1>r, <1>4, <1>5, QuietStep
  <1>7. PICK e : /\ e \in Ours(log') /\ log'[e] = r
                 /\ \A k : Ahead(log', k) = Ahead(log, k) \cup {i \in {e} : r.cycle > k}
    BY <1>6
  <1>8. Ahead(log', cycle) = {}
    <2>1. ~(r.cycle > cycle)
      BY <1>2, <1>4
    <2> QED BY <2>1, <1>1, <1>7
  <1>9. Asked(log)'
    BY <1>8, NothingAsked
  <1>10. e \in OfCycle(log', kind, cycle)
    BY <1>4, <1>7 DEF OfCycle, Of
  <1>11. stage' \in Begun => stage \in Begun
    BY DEF Projecting, Begun, QuestionStages, RoundStages
  <1>12. ASSUME stage' \in Begun
         PROVE  /\ States(log', cycle) /\ Projected(log', cycle)
                /\ config.context /\ cycle > 0 => Context(log') # {}
    <2>1. /\ States(log, cycle) /\ Projected(log, cycle - 1)
          /\ config.context /\ cycle > 0 => Context(log) # {}
      BY <1>11, <1>12 DEF IInv, StageInv, Chain
    <2>2. States(log', cycle) /\ Projected(log', cycle - 1)
      BY <2>1, <1>6
    <2>3. \A k \in 1 .. cycle : k = cycle \/ k \in 1 .. cycle - 1
      BY <1>2
    <2>4. Projected(log', cycle)
      BY <2>2, <2>3, <1>10 DEF Projected, Projections
    <2> QED BY <2>1, <2>2, <2>4, <1>6
  <1>13. Chain(log)'
    BY <1>12, ChainAfter
  <1> QED BY <1>6, <1>9, <1>13 DEF IInv, StageInv

(* The answer is projected.                                                *)
LEMMA ProjectAnswerStep ==
  ASSUME IInv, ProjectAnswer
  PROVE  IInv'
  <1>1. /\ At(stage) /\ stage = "project" /\ stage' \in {"advance", "result"}
        /\ todo' = <<Record("answer_projection", cycle, {})>>
        /\ UNCHANGED <<config, ledger, attempt, cycle>>
    BY DEF ProjectAnswer, At
  <1>2. RunInv'
    BY ProjectAnswerRun DEF IInv
  <1> QED BY <1>1, <1>2, ProjectsStep DEF Projecting, Projections, Fresh

(* A round is projected.                                                   *)
LEMMA ProjectRoundStep ==
  ASSUME IInv, ProjectRound
  PROVE  IInv'
  <1>1. /\ At(stage) /\ stage = "round_project" /\ stage' \in {"round", "result"}
        /\ todo' = <<Record("belief_state_projection", cycle, {})>>
        /\ UNCHANGED <<config, ledger, attempt, cycle>>
    BY DEF ProjectRound, At
  <1>2. RunInv'
    BY ProjectRoundRun DEF IInv
  <1> QED BY <1>1, <1>2, ProjectsStep DEF Projecting, Projections, Fresh

(* A cycle of the loop is projected.                                       *)
LEMMA ProjectSignalsStep ==
  ASSUME IInv, ProjectSignals
  PROVE  IInv'
  <1>1. /\ At(stage) /\ stage = "loop_project" /\ stage' = "loop_stop"
        /\ todo' = <<Record("answer_projection", cycle, {})>>
        /\ UNCHANGED <<config, ledger, attempt, cycle>>
    BY DEF ProjectSignals, At
  <1>2. RunInv'
    BY ProjectSignalsRun DEF IInv
  <1>3. stage' \notin Begun
    BY <1>1 DEF Begun, QuestionStages, RoundStages
  <1> QED BY <1>1, <1>2, <1>3, ProjectsStep DEF Projecting, Projections, Fresh

(* Probes planned and executed are what the next cycle is made of.         *)
LEMMA PlansAsk ==
  ASSUME NEW L, NEW m \in Nat, PlansExecuted(L, m, Brought),
         "context" \in signals => m = 0
  PROVE  AskedOf(L, m + 1)
  <1> DEFINE n == m + 1
  <1>1. n > m
    OBVIOUS
  <1>2. \A kind : OfCycle(L, kind, n) \subseteq Ahead(L, m)
    BY <1>1 DEF OfCycle, Of, Ahead
  <1>3. PICK p : p \in Ahead(L, m) /\ p \in Of(L, "probe_planning")
    BY DEF PlansExecuted
  <1>4. PICK x : x \in Ahead(L, m) /\ x \in Of(L, "probe_execution")
    BY DEF PlansExecuted
  <1>5. p \in OfCycle(L, "probe_planning", n) /\ x \in OfCycle(L, "probe_execution", n)
    BY <1>3, <1>4 DEF PlansExecuted, OfCycle
  <1>6. \A i \in OfCycle(L, "probe_execution", n) : L[i].names = Brought
    BY <1>2 DEF PlansExecuted, OfCycle, Of
  <1>7. Named(L, OfCycle(L, "probe_execution", n)) = Brought
    BY <1>5, <1>6 DEF Named
  <1>8. "context" \in signals => n = 1
    OBVIOUS
  <1> QED BY <1>5, <1>7, <1>8 DEF AskedOf, Brought

(* So is nothing at all, when the signals are of the others.               *)
LEMMA NothingAsks ==
  ASSUME NEW L, NEW m \in Nat, Ahead(L, m) = {}, signals \subseteq {"told"},
         config.regime # "question"
  PROVE  AskedOf(L, m + 1)
  <1> DEFINE n == m + 1
  <1>1. \A kind : OfCycle(L, kind, n) \subseteq Ahead(L, m)
    BY DEF OfCycle, Of, Ahead
  <1>2. OfCycle(L, "probe_planning", n) = {} /\ OfCycle(L, "probe_execution", n) = {}
    BY <1>1
  <1>3. Named(L, OfCycle(L, "probe_execution", n)) = {}
    BY <1>2 DEF Named
  <1> QED BY <1>2, <1>3 DEF AskedOf

(* The core integrates a cycle.                                            *)
LEMMA IntegratesStep ==
  ASSUME IInv, RunInv', At(stage), NEW next, Integrates(next),
         stage \in {"integrate", "round_integrate", "loop_integrate"},
         next \in Projecting, next \in Begun => stage \in Begun,
         AskedOf(log, cycle + 1),
         \A i \in Ahead(log, cycle) : log[i].cycle = cycle + 1,
         next \in Begun /\ config.context /\ cycle = 0 => "context" \in signals
  PROVE  IInv'
  <1> DEFINE n == cycle + 1
  <1>1. todo = <<>> /\ stage \notin Ended
    BY DEF At, Ended
  <1>2. /\ ledger \in Seq(Line) /\ log \in Seq(Line) /\ LogInv(log, cycle)
        /\ Of(log, "completed_run") = {} /\ AllWhole(log)
        /\ attempt \in 1 .. MaxAttempts /\ cycle \in Nat
    BY <1>1, Standing
  <1>3. /\ UNCHANGED <<config, ledger, attempt, pool, selected, signals, stop>>
        /\ cycle' = n /\ stage' = next
    BY DEF Integrates
  <1>4. n \in 0 .. MaxCycles /\ n <= MaxCycles
    BY <1>2, QuestionAssumption
    DEF IInv, RunInv, Types, QuestionStages, RoundStages, LoopStages, Projecting
  <1>5. PICK new \in SUBSET [asks: Questions, from: {n}] : todo' = CoreRecords(n, new)
    BY DEF Integrates
  <1>6. new \subseteq Candidates
    BY <1>4 DEF Candidates
  <1>7. Ready(log, cycle, n)
    <2>1. /\ selected \subseteq Candidates
          /\ signals \subseteq Questions \cup {"context", "told"}
      BY DEF IInv, RunInv, Proposals, Signals
    <2> QED BY <1>2, <1>4, <2>1 DEF Ready
  <1>8. log' = log \o CoreRecords(n, new)
    BY <1>1, <1>2, <1>3, <1>5, Calls
  <1> HIDE DEF n
  <1> DEFINE N == log \o CoreRecords(n, new)
  <1>q. Ready(log, cycle, n) /\ new \subseteq Candidates
    BY <1>6, <1>7
  <1>s. CoreRecords(n, new) \in Seq(Line) /\ Closes(log, N, n)
    BY <1>q, Integrated
  <1>e. log' = N
    BY <1>8
  <1> HIDE DEF N
  <1>9. /\ CoreRecords(n, new) \in Seq(Line)
        /\ LogInv(log', n) /\ Of(log', "completed_run") = {} /\ Prefix(log, log')
        /\ \A i \in Added(log, log') : i \in Ours(log') /\ log'[i].cycle = n
        /\ OfCycle(log', "belief_state", n) # {}
        /\ "context" \in signals => Context(log') # {}
    BY <1>s, <1>e DEF Closes
  <1>10. Written'
    BY <1>2, <1>3, <1>5, <1>9 DEF Written, Line
  <1>11. LogInv(log, cycle)'
    BY <1>3, <1>9, InvAfter
  <1>12. /\ DOMAIN log \subseteq DOMAIN log' /\ \A i \in DOMAIN log : log'[i] = log[i]
         /\ \A i \in DOMAIN log' : i \in DOMAIN log \/ i \in Added(log, log')
    BY <1>9, OldOrNew
  <1>13. /\ Ours(log) = Ours(log') \cap DOMAIN log
         /\ \A kind, k : OfCycle(log, kind, k) = OfCycle(log', kind, k) \cap DOMAIN log
         /\ Context(log) = Context(log') \cap DOMAIN log
    BY <1>9, SameLines
  <1>14. AllWhole(log')
    <2> SUFFICES ASSUME NEW i \in Ours(log'), log'[i].kind \in CoreKinds
                 PROVE  OfCycle(log', "belief_state", log'[i].cycle) # {}
      BY DEF AllWhole
    <2>1. CASE i \in Added(log, log')
      BY <2>1, <1>9
    <2>2. CASE i \in DOMAIN log
      <3>1. i \in Ours(log) /\ log'[i] = log[i]
        BY <2>2, <1>12, <1>13
      <3>2. OfCycle(log, "belief_state", log[i].cycle) # {}
        BY <3>1, <1>2 DEF AllWhole
      <3> QED BY <3>1, <3>2, <1>13
    <2> QED BY <2>1, <2>2, <1>12 DEF Ours
  <1>15. Open(log)' /\ Whole(log)'
    BY <1>3, <1>9, <1>14, OpenAfter
  <1>16. Ahead(log', n) = {}
    <2> SUFFICES ASSUME NEW i \in Ours(log'), log'[i].cycle > n PROVE FALSE
      BY DEF Ahead
    <2>1. n \in Nat /\ n = cycle + 1
      BY <1>2 DEF n
    <2>2. ~(i \in Added(log, log'))
      BY <2>1, <1>9
    <2>3. i \in Ours(log) /\ log'[i] = log[i]
      BY <2>2, <1>12, <1>13 DEF Ours
    <2>4. log[i].cycle \in Nat
      BY <2>3, <1>2, Lines, LineTypes DEF Ours
    <2>5. i \in Ahead(log, cycle)
      BY <2>1, <2>3, <2>4, <1>2 DEF Ahead
    <2> QED BY <2>1, <2>3, <2>5
  <1>17. Asked(log)'
    BY <1>3, <1>16, NothingAsked DEF Projecting, Fresh
  <1>18. ASSUME stage' \in Begun
         PROVE  /\ States(log', n) /\ Projected(log', n - 1)
                /\ config.context /\ n > 0 => Context(log') # {}
    <2>1. Chain(log) /\ stage \in Begun /\ stage \notin Projecting
      BY <1>3, <1>18 DEF IInv, StageInv, Projecting
    <2>2. /\ States(log, cycle) /\ Projected(log, cycle)
          /\ config.context /\ cycle > 0 => Context(log) # {}
      BY <2>1 DEF Chain
    <2>3. \A k \in 0 .. n : k = n \/ k \in 0 .. cycle
      BY <1>2 DEF n
    <2>4. States(log', n)
      BY <2>2, <2>3, <1>9, <1>13 DEF States
    <2>5. Projected(log', n - 1)
      <3>1. n - 1 = cycle
        BY <1>2 DEF n
      <3> QED BY <2>2, <3>1, <1>13 DEF Projected
    <2>6. ASSUME config.context PROVE Context(log') # {}
      <3>1. CASE cycle = 0
        BY <3>1, <2>6, <1>3, <1>9, <1>18
      <3>2. CASE cycle > 0
        BY <3>2, <2>2, <2>6, <1>13
      <3> QED BY <3>1, <3>2, <1>2
    <2> QED BY <2>4, <2>5, <2>6
  <1>19. Chain(log)'
    BY <1>3, <1>18, ChainAfter
  <1> QED BY <1>10, <1>11, <1>15, <1>17, <1>19 DEF IInv, StageInv

(* A cycle of a question is integrated.                                    *)
LEMMA IntegrateCycleStep ==
  ASSUME IInv, IntegrateCycle
  PROVE  IInv'
  <1>1. At(stage) /\ stage = "integrate" /\ Integrates("project")
    BY DEF IntegrateCycle, At
  <1>2. PlansExecuted(log, cycle, Brought) /\ cycle \in Nat
    BY <1>1, QuestionAssumption DEF IInv, RunInv, Types, StageInv, Asked
  <1>3. "context" \in signals <=> config.context /\ cycle = 0
    BY <1>1 DEF IInv, RunInv, Signals
  <1>4. AskedOf(log, cycle + 1)
    BY <1>2, <1>3, PlansAsk
  <1>5. \A i \in Ahead(log, cycle) : log[i].cycle = cycle + 1
    BY <1>2 DEF PlansExecuted
  <1>6. RunInv'
    BY IntegrateCycleRun DEF IInv
  <1> QED BY <1>1, <1>3, <1>4, <1>5, <1>6, IntegratesStep DEF Projecting, Begun, QuestionStages

(* A round is integrated.                                                  *)
LEMMA IntegrateRoundStep ==
  ASSUME IInv, IntegrateRound
  PROVE  IInv'
  <1>1. At(stage) /\ stage = "round_integrate" /\ Integrates("round_project")
    BY DEF IntegrateRound, At
  <1>2. /\ IF selected = {} THEN Ahead(log, cycle) = {} ELSE PlansExecuted(log, cycle, Brought)
        /\ cycle \in Nat /\ config.regime = "rounds" /\ ~config.context
    BY <1>1, QuestionAssumption
    DEF IInv, RunInv, Types, StageInv, Asked, RoundStages, Configs
  <1>3. "context" \notin signals /\ (selected = {} => signals = {"told"})
    BY <1>1 DEF IInv, RunInv, Signals, RoundStages
  <1>4. AskedOf(log, cycle + 1)
    <2>1. CASE selected = {}
      BY <2>1, <1>2, <1>3, NothingAsks
    <2>2. CASE selected # {}
      BY <2>2, <1>2, <1>3, PlansAsk
    <2> QED BY <2>1, <2>2
  <1>5. \A i \in Ahead(log, cycle) : log[i].cycle = cycle + 1
    BY <1>2 DEF PlansExecuted
  <1>6. RunInv'
    BY IntegrateRoundRun DEF IInv
  <1> QED BY <1>1, <1>2, <1>4, <1>5, <1>6, IntegratesStep DEF Projecting, Begun, RoundStages

(* A cycle of the loop is integrated.                                      *)
LEMMA IntegrateSignalsStep ==
  ASSUME IInv, IntegrateSignals
  PROVE  IInv'
  <1>1. At(stage) /\ stage = "loop_integrate" /\ Integrates("loop_project")
    BY DEF IntegrateSignals, At
  <1>2. Ahead(log, cycle) = {} /\ cycle \in Nat /\ config.regime = "loop"
    BY <1>1, QuestionAssumption DEF IInv, RunInv, Types, StageInv, Asked, LoopStages
  <1>3. signals \subseteq {"told"}
    BY <1>1 DEF IInv, RunInv, Signals
  <1>4. AskedOf(log, cycle + 1)
    BY <1>2, <1>3, NothingAsks
  <1>5. RunInv'
    BY IntegrateSignalsRun DEF IInv
  <1>6. "loop_project" \notin Begun
    BY DEF Begun, QuestionStages, RoundStages
  <1> QED BY <1>1, <1>2, <1>4, <1>5, <1>6, IntegratesStep DEF Projecting

-----------------------------------------------------------------------------
(* The end and the beginning of a run.                                     *)

(* The record of the end names a chain of cycles that is complete.         *)
LEMMA ResultStep ==
  ASSUME IInv, Result
  PROVE  IInv'
  <1> DEFINE r == Record("completed_run", cycle, {stop})
             e == Len(log) + 1
  <1>1. /\ stage = "result" /\ todo = <<>> /\ stage \notin Ended /\ stage' = "returned"
        /\ UNCHANGED <<config, ledger, attempt, cycle, cyclic, stop>>
    BY DEF Result, At, Ended
  <1>t. stop \in StopReasons
    BY DEF IInv, RunInv, Types
  <1>2. /\ ledger \in Seq(Line) /\ log \in Seq(Line) /\ LogInv(log, cycle)
        /\ Of(log, "completed_run") = {} /\ AllWhole(log)
        /\ attempt \in 1 .. MaxAttempts /\ attempt \in Nat
        /\ cycle \in 0 .. MaxCycles /\ cycle \in Nat
    BY <1>1, Standing
  <1>3. "completed_run" \in Kinds /\ {stop} \in SUBSET Names
    BY <1>t DEF Kinds, Names
  <1>4. /\ r \in Line /\ r.attempt = attempt /\ r.kind = "completed_run"
        /\ r.cycle = cycle /\ r.names = {stop}
    BY <1>2, <1>3, Ourselves
  <1>r. todo' = <<r>>
    BY DEF Result, FinalCycle
  <1> HIDE DEF r
  <1>5. Written'
    BY <1>1, <1>2, <1>r, <1>4, OneRecord DEF Written, Line
  <1>6. log' = log \o <<r>>
    BY <1>1, <1>2, <1>r, Calls
  <1>7. Prefix(log, log') /\ Len(log') = e /\ Added(log, log') = {e} /\ log'[e] = r
    BY <1>2, <1>4, <1>6, OneMore
  <1> HIDE DEF e
  <1>8. /\ DOMAIN log \subseteq DOMAIN log' /\ \A i \in DOMAIN log : log'[i] = log[i]
        /\ \A i \in DOMAIN log' : i \in DOMAIN log \/ i \in {e}
        /\ e \in DOMAIN log'
    BY <1>7, OldOrNew DEF Added
  <1>9. /\ Ours(log) = Ours(log') \cap DOMAIN log
        /\ \A kind : Of(log, kind) = Of(log', kind) \cap DOMAIN log
        /\ \A kind, k : OfCycle(log, kind, k) = OfCycle(log', kind, k) \cap DOMAIN log
        /\ Context(log) = Context(log') \cap DOMAIN log
    BY <1>7, SameLines
  <1>10. \A kind \in CoreKinds : Of(log', kind) = Of(log, kind)
    <2> SUFFICES ASSUME NEW kind \in CoreKinds PROVE Of(log', kind) = Of(log, kind)
      OBVIOUS
    <2>1. log'[e].kind # kind
      BY <1>4, <1>7 DEF CoreKinds
    <2>2. Of(log', kind) \subseteq DOMAIN log
      BY <1>8, <2>1 DEF Of, Ours
    <2> QED BY <2>2, <1>9
  <1>11. /\ Of(log', "belief_state") = Of(log, "belief_state")
         /\ Of(log', "external_signal") = Of(log, "external_signal")
    BY <1>10 DEF CoreKinds
  <1>12. Of(log', "completed_run") = {e}
    <2>1. Of(log', "completed_run") \subseteq {e}
      BY <1>2, <1>8, <1>9 DEF Of, Ours
    <2>2. e \in Of(log', "completed_run")
      BY <1>4, <1>7, <1>8 DEF Of, Ours
    <2> QED BY <2>1, <2>2
  <1>13. Context(log') = Context(log)
    BY <1>8, <1>11 DEF Context, Of, Ours
  <1>14. NothingAhead(log', cycle)
    <2>1. \A i \in DOMAIN log' : log'[i].attempt <= attempt
      BY <1>2, <1>4, <1>7, <1>8 DEF LogInv, NothingAhead
    <2>2. ASSUME NEW i \in Ours(log'),
                 log'[i].kind \in CoreKinds \cup Projections \cup {"completed_run"}
          PROVE  log'[i].cycle <= cycle
      <3>1. CASE i = e
        BY <3>1, <1>2, <1>4, <1>7
      <3>2. CASE i \in DOMAIN log
        BY <3>2, <2>2, <1>2, <1>8, <1>9 DEF LogInv, NothingAhead
      <3> QED BY <3>1, <3>2, <1>8 DEF Ours
    <2> QED BY <2>1, <2>2 DEF NothingAhead
  <1>15. StatesSeal(log')
    BY <1>2, <1>7, <1>9, <1>11, SameSeal DEF StatesSeal, LogInv
  <1>16. OneState(log')
    BY <1>2, <1>8, <1>9, <1>11 DEF OneState, LogInv
  <1>17. OneContext(log')
    BY <1>2, <1>8, <1>9, <1>13 DEF OneContext, LogInv
  <1>18. /\ States(log, cycle) /\ Projected(log, cycle)
         /\ config.context /\ cycle > 0 => Context(log) # {}
    BY <1>1 DEF IInv, StageInv, Chain, Begun, Projecting
  <1>19. /\ stop \in {"max_cycles", "fixed_rounds_completed"} <=> cycle = MaxCycles
         /\ config.context => cycle > 0
    BY <1>1 DEF IInv, RunInv, Stops
  <1>20. \A n \in 0 .. cycle : OfCycle(log', "belief_state", n) # {}
    BY <1>9, <1>18 DEF States
  <1>21. \A b \in Of(log', "belief_state") : log'[b].cycle <= cycle
    BY <1>14 DEF NothingAhead, CoreKinds, Of
  <1>22. \A n \in 1 .. cycle : OfCycle(log', "answer_projection", n) \cup
                               OfCycle(log', "belief_state_projection", n) # {}
    BY <1>9, <1>18 DEF Projected
  <1>23. r.names \cap {"max_cycles", "fixed_rounds_completed"} # {} <=> cycle = MaxCycles
    BY <1>4, <1>19
  <1>24. config.context => Context(log') # {}
    BY <1>13, <1>18, <1>19
  <1>25. Closed(log')
    BY <1>4, <1>7, <1>12, <1>20, <1>21, <1>22, <1>23, <1>24 DEF Closed
  <1>26. LogInv(log', cycle)
    BY <1>7, <1>14, <1>15, <1>16, <1>17, <1>25 DEF LogInv, Prefix
  <1>27. LogInv(log, cycle)'
    BY <1>1, <1>26, InvAfter
  <1>28. RunInv'
    <2>1. RunInv /\ stage' \in Ended /\ stage' # "dead" /\ stop' \in StopReasons
      BY <1>1, <1>t DEF IInv, Ended
    <2>2. pool' = pool /\ proposed' = proposed /\ selected' = selected /\ signals' = signals
      BY <1>1 DEF cyclic
    <2> QED BY <1>1, <2>1, <2>2, LeavesKeepRun
  <1>29. Asked(log)'
    BY <1>1, AskedAtEnd DEF Ended
  <1>30. Chain(log)'
    BY <1>1 DEF Chain, Begun, QuestionStages, RoundStages
  <1>31. Open(log)'
    BY <1>1 DEF Open
  <1>32. AllWhole(log')
    <2> SUFFICES ASSUME NEW i \in Ours(log'), log'[i].kind \in CoreKinds
                 PROVE  OfCycle(log', "belief_state", log'[i].cycle) # {}
      BY DEF AllWhole
    <2>1. i # e
      BY <1>4, <1>7 DEF CoreKinds
    <2>2. i \in Ours(log) /\ log'[i] = log[i]
      BY <2>1, <1>8, <1>9 DEF Ours
    <2>3. OfCycle(log, "belief_state", log[i].cycle) # {}
      BY <2>2, <1>2 DEF AllWhole
    <2> QED BY <2>2, <2>3, <1>9
  <1>33. Whole(log)'
    <2>1. AllWhole(log)'
      BY <1>1, <1>32, SetsAfter DEF AllWhole
    <2> QED BY <2>1 DEF Whole
  <1> QED BY <1>5, <1>27, <1>28, <1>29, <1>30, <1>31, <1>33 DEF IInv, StageInv

(* The first records of a run.                                             *)
FirstRecords(first) ==
  <<Record("task_admission", 0, {}), Record("task_frame", 0, {}),
    Record("run", 0, {}), Record("belief_state", 0, {})>>
    \o Records("probe_candidate", 0, Asks(first))

FirstKinds == {"task_admission", "task_frame", "run", "belief_state", "probe_candidate"}

Beginning(B) ==
  /\ B \in Seq(Line)
  /\ \A k \in DOMAIN B : /\ B[k].attempt = attempt /\ B[k].cycle = 0
                         /\ B[k].kind \in FirstKinds
                         /\ B[k].kind = "belief_state" => B[k] = Record("belief_state", 0, {})
  /\ \E k \in DOMAIN B : B[k].kind = "belief_state"
  /\ Once(B, "belief_state")

(* They are of cycle 0, and one of them is its belief state.               *)
LEMMA FirstBatch ==
  ASSUME NEW first, first \subseteq Candidates, attempt \in 1 .. MaxAttempts
  PROVE  Beginning(FirstRecords(first))
  <1> DEFINE a == Record("task_admission", 0, {})
             f == Record("task_frame", 0, {})
             u == Record("run", 0, {})
             b == Record("belief_state", 0, {})
             H == <<a, f, u, b>>
             P == Records("probe_candidate", 0, Asks(first))
  <1>1. /\ "task_admission" \in Kinds /\ "task_frame" \in Kinds /\ "run" \in Kinds
        /\ "belief_state" \in Kinds /\ "probe_candidate" \in Kinds
        /\ 0 \in 0 .. MaxCycles /\ {} \in SUBSET Names
    BY QuestionAssumption DEF Kinds, CoreKinds
  <1>2. /\ a \in Line /\ a.attempt = attempt /\ a.cycle = 0 /\ a.kind = "task_admission"
        /\ f \in Line /\ f.attempt = attempt /\ f.cycle = 0 /\ f.kind = "task_frame"
    BY <1>1, Ourselves
  <1>3. /\ u \in Line /\ u.attempt = attempt /\ u.cycle = 0 /\ u.kind = "run"
        /\ b \in Line /\ b.attempt = attempt /\ b.cycle = 0 /\ b.kind = "belief_state"
    BY <1>1, Ourselves
  <1>4. EachOf(P, "probe_candidate", 0, Asks(first))
    BY <1>1, AsksQuestions, RecordsLines
  <1>b. b = Record("belief_state", 0, {})
    OBVIOUS
  <1>F. FirstRecords(first) = H \o P
    BY DEF FirstRecords
  <1> HIDE DEF a, f, u, b, P
  <1>5. /\ H \in Seq(Line) /\ DOMAIN H = 1 .. 4
        /\ H[1] = a /\ H[2] = f /\ H[3] = u /\ H[4] = b
    BY <1>2, <1>3
  <1> HIDE DEF H
  <1>6. \A r : Has(H, r) <=> r \in {a, f, u, b}
    <2>1. \A k \in DOMAIN H : k = 1 \/ k = 2 \/ k = 3 \/ k = 4
      BY <1>5
    <2>2. 1 \in DOMAIN H /\ 2 \in DOMAIN H /\ 3 \in DOMAIN H /\ 4 \in DOMAIN H
      BY <1>5
    <2> QED BY <2>1, <2>2, <1>5 DEF Has
  <1>7. Once(H, "belief_state")
    <2> SUFFICES ASSUME NEW j \in DOMAIN H, NEW k \in DOMAIN H,
                        H[j].kind = "belief_state", H[j] = H[k]
                 PROVE  j = k
      BY DEF Once
    <2>1. \A i \in DOMAIN H : H[i].kind = "belief_state" => i = 4
      <3>1. \A i \in DOMAIN H : i = 1 \/ i = 2 \/ i = 3 \/ i = 4
        BY <1>5
      <3> QED BY <3>1, <1>2, <1>3, <1>5
    <2> QED BY <2>1
  <1>8. /\ P \in Seq(Line) /\ Without(P, "belief_state")
        /\ \A r : Has(P, r) <=> \E s \in Asks(first) : r = Record("probe_candidate", 0, {s})
    <2>1. \A other : other # "probe_candidate" => Without(P, other)
      BY <1>4 DEF EachOf
    <2>2. Without(P, "belief_state")
      BY <2>1
    <2>3. \A r : Has(P, r) <=> \E s \in Asks(first) : r = Record("probe_candidate", 0, {s})
      BY <1>4 DEF EachOf
    <2> QED BY <2>2, <2>3, <1>4 DEF EachOf
  <1> DEFINE B == H \o P
  <1>9. /\ B \in Seq(Line) /\ Once(B, "belief_state")
        /\ \A r : Has(B, r) <=> Has(H, r) \/ Has(P, r)
    BY <1>5, <1>7, <1>8, Joined
  <1> HIDE DEF B
  <1>10. ASSUME NEW k \in DOMAIN B
         PROVE  /\ B[k].attempt = attempt /\ B[k].cycle = 0 /\ B[k].kind \in FirstKinds
                /\ B[k].kind = "belief_state" => B[k] = b
    <2> DEFINE r == B[k]
    <2>1. Has(B, r)
      BY DEF Has
    <2> HIDE DEF r
    <2>2. CASE r \in {a, f, u}
      BY <2>2, <1>2, <1>3 DEF FirstKinds, r
    <2>3. CASE r = b
      BY <2>3, <1>3 DEF FirstKinds, r
    <2>4. ASSUME NEW s, r = Record("probe_candidate", 0, {s})
          PROVE  /\ r.attempt = attempt /\ r.cycle = 0 /\ r.kind \in FirstKinds
                 /\ r.kind # "belief_state"
      BY <2>4, RecordFields DEF FirstKinds
    <2> QED BY <2>1, <2>2, <2>3, <2>4, <1>6, <1>8, <1>9 DEF r
  <1>11. \E k \in DOMAIN B : B[k].kind = "belief_state"
    <2>1. Has(B, b)
      BY <1>6, <1>9
    <2> QED BY <2>1, <1>3 DEF Has
  <1>12. Beginning(B)
    BY <1>9, <1>10, <1>11, <1>b DEF Beginning
  <1> QED BY <1>12, <1>F DEF B

(* M is L with B behind it.                                                 *)
Grows(L, B, M) == M = L \o B

(* A log without a line of the attempt, and its first records behind it.   *)
LEMMA Begins ==
  ASSUME NEW L, LogInv(L, 0), Ours(L) = {}, attempt \in 1 .. MaxAttempts,
         NEW B, Beginning(B), NEW M, Grows(L, B, M)
  PROVE  /\ LogInv(M, 0) /\ Of(M, "completed_run") = {} /\ AllWhole(M)
         /\ Ahead(M, 0) = {} /\ States(M, 0) /\ Projected(M, 0)
  <1>1. L \in Seq(Line) /\ B \in Seq(Line) /\ attempt \in Nat
    BY QuestionAssumption DEF LogInv, Beginning
  <1>2. /\ Prefix(L, M)
        /\ \A i \in Added(L, M) : i - Len(L) \in DOMAIN B /\ M[i] = B[i - Len(L)]
        /\ \A k \in DOMAIN B : Len(L) + k \in Added(L, M) /\ M[Len(L) + k] = B[k]
    BY <1>1, Prolong DEF Grows
  <1>p. Prefix(L, M)
    BY <1>2
  <1>3. /\ \A i \in DOMAIN L : M[i] = L[i]
        /\ \A i \in DOMAIN M : i \in DOMAIN L \/ i \in Added(L, M)
    BY <1>p, OldOrNew
  <1>4. Ours(L) = Ours(M) \cap DOMAIN L
    BY <1>2, SameLines
  <1>5. Ours(M) \subseteq Added(L, M)
    BY <1>3, <1>4 DEF Ours
  <1>6. ASSUME NEW i \in Added(L, M)
        PROVE  /\ i - Len(L) \in DOMAIN B /\ M[i] = B[i - Len(L)]
               /\ M[i].attempt = attempt /\ M[i].cycle = 0 /\ M[i].kind \in FirstKinds
               /\ M[i].kind = "belief_state" => M[i] = Record("belief_state", 0, {})
    <2> DEFINE k == i - Len(L)
    <2>1. k \in DOMAIN B /\ M[i] = B[k]
      BY <1>2, <1>6
    <2> HIDE DEF k
    <2>2. /\ B[k].attempt = attempt /\ B[k].cycle = 0 /\ B[k].kind \in FirstKinds
          /\ B[k].kind = "belief_state" => B[k] = Record("belief_state", 0, {})
      BY <2>1 DEF Beginning
    <2> QED BY <2>1, <2>2 DEF k
  <1>7. \A kind : kind \notin FirstKinds => Of(M, kind) = {}
    BY <1>5, <1>6 DEF Of
  <1>8. Of(M, "completed_run") = {} /\ Of(M, "external_signal") = {}
    BY <1>7 DEF FirstKinds
  <1>z. \A i \in Ours(M) : M[i].cycle <= 0 /\ ~(M[i].cycle > 0)
    <2> SUFFICES ASSUME NEW i \in Ours(M)
                 PROVE  M[i].cycle <= 0 /\ ~(M[i].cycle > 0)
      OBVIOUS
    <2>1. M[i].cycle = 0
      BY <1>5, <1>6
    <2> QED BY <2>1
  <1>b. \A i \in Ours(M) : M[i].kind = "belief_state" => M[i] = Record("belief_state", 0, {})
    BY <1>5, <1>6
  <1>a. PICK t \in DOMAIN B : B[t].kind = "belief_state"
    BY DEF Beginning
  <1> DEFINE e == Len(L) + t
  <1>9. e \in Added(L, M) /\ M[e].kind = "belief_state"
    BY <1>2, <1>a
  <1> HIDE DEF e
  <1>10. e \in OfCycle(M, "belief_state", 0)
    BY <1>6, <1>9 DEF OfCycle, Of, Ours, Added
  <1>11. States(M, 0)
    BY <1>10 DEF States
  <1>12. Projected(M, 0)
    BY DEF Projected
  <1>13. Ahead(M, 0) = {}
    <2>1. \A i \in Ours(M) : ~(M[i].cycle > 0)
      BY <1>z
    <2> QED BY <2>1 DEF Ahead
  <1>14. AllWhole(M)
    BY <1>5, <1>6, <1>10 DEF AllWhole
  <1>15. NothingAhead(M, 0)
    <2>1. \A i \in DOMAIN M : M[i].attempt <= attempt
      BY <1>1, <1>3, <1>6 DEF LogInv, NothingAhead
    <2>2. \A i \in Ours(M) : M[i].cycle <= 0
      BY <1>z
    <2> QED BY <2>1, <2>2 DEF NothingAhead
  <1>16. StatesSeal(M)
    <2>1. \A i \in Of(M, "belief_state") : ~(M[i].cycle > 0)
      BY <1>z DEF Of
    <2> QED BY <2>1 DEF StatesSeal, Sealed
  <1>17. OneState(M)
    <2> SUFFICES ASSUME NEW i \in Of(M, "belief_state"), NEW j \in Of(M, "belief_state")
                 PROVE  i = j
      BY DEF OneState
    <2>1. /\ i \in Added(L, M) /\ M[i].kind = "belief_state"
          /\ j \in Added(L, M) /\ M[j].kind = "belief_state"
      BY <1>5 DEF Of
    <2>2. M[i] = M[j]
      BY <1>b DEF Of
    <2> DEFINE k == i - Len(L)
               l == j - Len(L)
    <2>a. k \in DOMAIN B /\ M[i] = B[k] /\ l \in DOMAIN B /\ M[j] = B[l]
      BY <1>2, <2>1
    <2> HIDE DEF k, l
    <2>b. B[k] = B[l] /\ B[k].kind = "belief_state"
      BY <2>1, <2>2, <2>a
    <2>c. k = l
      BY <2>a, <2>b DEF Beginning, Once
    <2>3. i - Len(L) = j - Len(L)
      BY <2>c DEF k, l
    <2>4. i \in Nat /\ j \in Nat /\ Len(L) \in Nat
      BY <1>2, <2>1, Lines DEF Prefix, Added
    <2> QED BY <2>3, <2>4
  <1>18. OneContext(M) /\ Closed(M)
    BY <1>8 DEF OneContext, Context, Closed
  <1>19. M \in Seq(Line)
    BY <1>2 DEF Prefix
  <1> QED BY <1>8, <1>11, <1>12, <1>13, <1>14, <1>15, <1>16, <1>17, <1>18, <1>19 DEF LogInv

(* The initializer writes them.                                            *)
LEMMA InitializesStep ==
  ASSUME IInv, RunInv', At(stage), stage \in {"initialize", "begin"},
         NEW first, first \subseteq Candidates, Initializes(first),
         stage' \in {"design", "plan", "round"}
  PROVE  IInv'
  <1>1. /\ todo = <<>> /\ stage \notin Ended
        /\ UNCHANGED <<config, ledger, attempt, cycle>> /\ todo' = FirstRecords(first)
    BY DEF At, Ended, Initializes, FirstRecords
  <1>2. /\ ledger \in Seq(Line) /\ LogInv(log, cycle) /\ attempt \in 1 .. MaxAttempts
    BY <1>1, Standing
  <1>3. Ours(log) = {} /\ cycle = 0
    BY DEF IInv, RunInv, Types, StageInv, Asked, Fresh
  <1> DEFINE B == FirstRecords(first)
  <1>4. Beginning(B)
    BY <1>2, FirstBatch
  <1>5. log' = log \o B
    BY <1>1, <1>2, Calls
  <1>6. todo' = B
    BY <1>1
  <1> HIDE DEF B
  <1>7. /\ LogInv(log', 0) /\ Of(log', "completed_run") = {} /\ AllWhole(log')
        /\ Ahead(log', 0) = {} /\ States(log', 0) /\ Projected(log', 0)
    BY <1>2, <1>3, <1>4, <1>5, Begins DEF Grows
  <1>8. Written'
    BY <1>1, <1>2, <1>4, <1>6 DEF Written, Line, Beginning
  <1>9. LogInv(log, cycle)'
    BY <1>1, <1>3, <1>7, InvAfter
  <1>10. Open(log)' /\ Whole(log)'
    BY <1>1, <1>7, OpenAfter
  <1>11. Asked(log)'
    BY <1>1, <1>3, <1>7, NothingAsked DEF Fresh
  <1>12. Chain(log)'
    BY <1>1, <1>3, <1>7, ChainAfter DEF Projecting
  <1> QED BY <1>8, <1>9, <1>10, <1>11, <1>12 DEF IInv, StageInv

(* The first candidates are candidates.                                    *)
LEMMA FirstAreCandidates ==
  ASSUME NEW first \in FirstCandidates
  PROVE  first \subseteq Candidates
  BY QuestionAssumption DEF FirstCandidates, Candidates

(* The task of a question is initialized.                                  *)
LEMMA InitializeStep ==
  ASSUME IInv, Initialize
  PROVE  IInv'
  <1>1. At(stage) /\ stage = "initialize" /\ stage' \in {"design", "plan", "round"}
    BY DEF Initialize, At
  <1>2. PICK first \in FirstCandidates : Initializes(first)
    BY DEF Initialize
  <1>3. RunInv'
    BY InitializeRun DEF IInv
  <1> QED BY <1>1, <1>2, <1>3, FirstAreCandidates, InitializesStep

(* So are the rounds.                                                      *)
LEMMA BeginRoundsStep ==
  ASSUME IInv, BeginRounds
  PROVE  IInv'
  <1>1. At(stage) /\ stage = "begin" /\ stage' \in {"design", "plan", "round"}
    BY DEF BeginRounds, At
  <1>2. PICK first \in FirstCandidates : Initializes(first)
    BY DEF BeginRounds
  <1>3. RunInv'
    BY BeginRoundsRun DEF IInv
  <1> QED BY <1>1, <1>2, <1>3, FirstAreCandidates, InitializesStep

-----------------------------------------------------------------------------
(* Every state.                                                            *)

(* Nothing changes.                                                        *)
LEMMA StutterStep ==
  ASSUME IInv, UNCHANGED vars
  PROVE  IInv'
  <1>1. /\ UNCHANGED <<config, ledger, attempt, stage, todo, cycle>>
        /\ UNCHANGED <<pool, selected, signals, proposed, stop>>
    BY DEF vars, cyclic
  <1>2. log' = log
    BY <1>1 DEF log
  <1>3. /\ Ours(log)' = Ours(log)
        /\ \A kind : Of(log, kind)' = Of(log, kind)
        /\ \A kind, n : OfCycle(log, kind, n)' = OfCycle(log, kind, n)
        /\ Context(log)' = Context(log)
        /\ \A n : Ahead(log, n)' = Ahead(log, n)
    BY <1>1, <1>2, SetsAfter
  <1>4. RunInv'
    BY <1>1 DEF IInv, RunInv, Types, Proposals, Signals, Stops
  <1>5. Written'
    BY <1>1 DEF IInv, Written
  <1>6. LogInv(log, cycle)'
    BY <1>1, <1>2, InvAfter DEF IInv
  <1>7. Asked(log)'
    BY <1>1, <1>2, <1>3
    DEF IInv, StageInv, Asked, PlansOnly, PlansExecuted, Brought
  <1>8. Chain(log)'
    BY <1>1, <1>3 DEF IInv, StageInv, Chain, States, Projected
  <1>9. Open(log)' /\ Whole(log)'
    BY <1>1, <1>2, <1>3 DEF IInv, StageInv, Open, Whole, AllWhole
  <1> QED BY <1>4, <1>5, <1>6, <1>7, <1>8, <1>9 DEF IInv, StageInv

(* An append fails or the process dies.                                    *)
LEMMA BreakSteps ==
  ASSUME IInv, AppendFails \/ Dies
  PROVE  IInv'
  <1>1. CASE AppendFails
    BY <1>1, CutStep DEF AppendFails
  <1>2. CASE Dies
    BY <1>2, CutStep DEF Dies
  <1> QED BY <1>1, <1>2

(* Every step of every regime.                                             *)
LEMMA NextStep ==
  ASSUME IInv, [RegimeNext]_vars
  PROVE  IInv'
  <1>1. ASSUME Step
        PROVE  IInv'
    BY <1>1, AppendStep, AdmitStep, InitializeStep, DesignFirstStep, PlanProbesStep,
       PlanNothingStep, ExecuteProbesStep, IntegrateCycleStep, RaiseSteps,
       ProjectAnswerStep, AdvanceStep, ResultStep, RunAgainStep DEF Step
  <1>2. ASSUME Others
        PROVE  IInv'
    BY <1>2, BeginRoundsStep, PassiveRoundStep, PlanRoundStep, RaiseSteps,
       ExecuteRoundStep, IntegrateRoundStep, ProjectRoundStep, CollectSignalsStep,
       IntegrateSignalsStep, ProjectSignalsStep, StopLoopStep DEF Others
  <1>3. ASSUME Raises \/ DesignRaises \/ RegimeRaises \/ StopRaises
        PROVE  IInv'
    BY <1>3, RaiseSteps
  <1>4. ASSUME AppendFails \/ Dies
        PROVE  IInv'
    BY <1>4, BreakSteps
  <1>5. ASSUME Finished \/ UNCHANGED vars
        PROVE  IInv'
    BY <1>5, StutterStep DEF Finished
  <1> QED BY <1>1, <1>2, <1>3, <1>4, <1>5 DEF RegimeNext, Next

(* The first state of each regime: nothing is written.                     *)
LEMMA StartsInv ==
  ASSUME RegimeInit
  PROVE  IInv
  <1>1. /\ config \in Configs /\ (config.context => config.regime = "question")
        /\ \/ config.regime = "question" /\ stage = "admit"
           \/ config.regime = "rounds" /\ stage = "begin"
           \/ config.regime = "loop" /\ stage = "collect"
    <2>1. CASE Init
      BY <2>1 DEF Init, Starts
    <2>2. CASE config = [regime |-> "rounds", context |-> FALSE, stopOnNoProbes |-> FALSE]
               /\ Starts("begin")
      BY <2>2 DEF Starts, Configs
    <2>3. CASE config \in [regime: {"loop"}, context: {FALSE}, stopOnNoProbes: BOOLEAN]
               /\ Starts("collect")
      <3>1. config.regime = "loop" /\ config.context = FALSE
        BY <2>3
      <3>2. config \in Configs
        BY <2>3 DEF Configs
      <3> QED BY <2>3, <3>1, <3>2 DEF Starts
    <2> QED BY <2>1, <2>2, <2>3 DEF RegimeInit
  <1>2. /\ ledger = <<>> /\ attempt = 1 /\ todo = <<>> /\ cycle = 0
        /\ pool = {} /\ selected = {} /\ signals = {} /\ proposed = {} /\ stop = "none"
    BY DEF RegimeInit, Init, Starts
  <1>3. log = <<>>
    BY <1>2 DEF log
  <1>4. RunInv
    <2>1. Types
      BY <1>1, <1>2, QuestionAssumption
      DEF Types, Fresh, QuestionStages, RoundStages, LoopStages, Projecting, Ended,
          StopReasons
    <2>2. Proposals /\ Signals
      BY <1>1, <1>2
      DEF Proposals, Signals, RoundStages, LoopStages
    <2>3. Stops
      BY <1>1, <1>2 DEF Stops
    <2> QED BY <2>1, <2>2, <2>3 DEF RunInv
  <1>5. Written
    BY <1>2 DEF Written
  <1>6. DOMAIN log = {} /\ log \in Seq(Line)
    BY <1>3
  <1>7. /\ Ours(log) = {} /\ \A kind : Of(log, kind) = {}
        /\ Context(log) = {} /\ Ahead(log, cycle) = {}
    BY <1>6 DEF Ours, Of, Context, Ahead
  <1>8. LogInv(log, cycle)
    BY <1>6, <1>7
    DEF LogInv, NothingAhead, StatesSeal, OneState, OneContext, Closed
  <1>9. Asked(log) /\ Chain(log)
    BY <1>1, <1>7
    DEF Asked, Chain, Fresh, LoopStages, Projecting, Begun, QuestionStages,
        RoundStages
  <1>10. Open(log) /\ Whole(log)
    BY <1>7 DEF Open, Whole, AllWhole
  <1> QED BY <1>4, <1>5, <1>8, <1>9, <1>10 DEF IInv, StageInv

(* The inductive invariant holds in every state of every regime.           *)
THEOREM Invariance == RegimeSpec => []IInv
  <1>1. RegimeInit => IInv
    BY StartsInv
  <1>2. IInv /\ [RegimeNext]_vars => IInv'
    BY NextStep
  <1> QED BY <1>1, <1>2, PTL DEF RegimeSpec

-----------------------------------------------------------------------------
(* What the invariant says of the ledger.                                  *)

(* The lines the properties speak of.                                      *)
LEMMA LedgerSets ==
  /\ \A kind : Mine(kind) = Of(ledger, kind)
  /\ \A kind, n : MineOf(kind, n) = OfCycle(ledger, kind, n)
  /\ \A lines : NamedIn(lines) = Named(ledger, lines)
  <1>1. \A kind : Mine(kind) = Of(ledger, kind)
    BY DEF Mine, Of, Ours
  <1>2. \A kind, n : MineOf(kind, n) = OfCycle(ledger, kind, n)
    BY <1>1 DEF MineOf, OfCycle
  <1>3. \A lines : NamedIn(lines) = Named(ledger, lines)
    BY DEF NamedIn, Named
  <1> QED BY <1>1, <1>2, <1>3

(* The ledger is a prefix of the log, and what holds of every prefix of    *)
(* the log holds of it.                                                    *)
LEMMA LedgerInv ==
  ASSUME IInv
  PROVE  /\ LogInv(ledger, cycle)
         /\ todo = <<>> => log = ledger
  <1>1. ledger \in Seq(Line) /\ todo \in Seq(Line) /\ LogInv(log, cycle)
    BY DEF IInv, Written
  <1> QED BY <1>1, LogType, PrefixInv

LEMMA TypesKept ==
  ASSUME IInv
  PROVE  TypeOK
  <1>1. /\ \A i \in DOMAIN ledger : ledger[i] \in Line
        /\ \A i \in DOMAIN todo : todo[i] \in Line
    BY DEF IInv, Written
  <1>2. /\ config \in Configs /\ attempt \in 1 .. MaxAttempts
        /\ cycle \in 0 .. MaxCycles /\ stop \in StopReasons
        /\ stage \in Ended \cup Fresh \cup QuestionStages \cup RoundStages
                       \cup LoopStages \cup {"result"}
    BY DEF IInv, RunInv, Types
  <1>3. /\ pool \subseteq Candidates /\ selected \subseteq Candidates
        /\ proposed \subseteq Candidates
        /\ signals \subseteq Questions \cup {"context", "told"}
    BY DEF IInv, RunInv, Proposals, Signals
  <1> QED BY <1>1, <1>2, <1>3
    DEF TypeOK, Fresh, QuestionStages, RoundStages, LoopStages

LEMMA LedgerSealed ==
  ASSUME IInv
  PROVE  StateSealsCycle
  <1>1. StatesSeal(ledger)
    BY LedgerInv DEF LogInv
  <1> SUFFICES ASSUME NEW b \in Mine("belief_state"), ledger[b].cycle > 0
               PROVE
    LET n == ledger[b].cycle
        Before(kind) == {i \in MineOf(kind, n) : i < b}
    IN   /\ Before("cycle") # {} /\ Before("probe_set") # {}
         /\ Before("probe_planning") # {} <=> Before("probe_execution") # {}
         /\ config.regime = "question" => Before("probe_planning") # {}
         /\ NamedIn(Before("external_signal")) \ {"context", "told"}
              = NamedIn(Before("probe_execution"))
         /\ NamedIn(Before("evidence_event")) = NamedIn(Before("external_signal"))
         /\ Before("answer_projection") \cup Before("belief_state_projection") = {}
    BY DEF StateSealsCycle
  <1> DEFINE n == ledger[b].cycle
             Before(kind) == {i \in MineOf(kind, n) : i < b}
  <1>2. Sealed(ledger, b)
    BY <1>1, LedgerSets DEF StatesSeal
  <1>3. \A kind : Before(kind) = BeforeState(ledger, b, kind)
    BY LedgerSets DEF BeforeState
  <1>4. \A kind : NamedIn(Before(kind)) = Named(ledger, BeforeState(ledger, b, kind))
    BY <1>3, LedgerSets
  <1> HIDE DEF Before
  <1>5. /\ Before("cycle") # {} /\ Before("probe_set") # {}
        /\ Before("probe_planning") # {} <=> Before("probe_execution") # {}
        /\ config.regime = "question" => Before("probe_planning") # {}
        /\ NamedIn(Before("external_signal")) \ {"context", "told"}
             = NamedIn(Before("probe_execution"))
        /\ NamedIn(Before("evidence_event")) = NamedIn(Before("external_signal"))
        /\ Before("answer_projection") \cup Before("belief_state_projection") = {}
    BY <1>2, <1>3, <1>4 DEF Sealed
  <1> QED BY <1>5 DEF Before

LEMMA CyclesWhole ==
  ASSUME IInv
  PROVE  AllOrNothing
  <1> SUFFICES ASSUME todo = <<>>, stage \notin {"dead", "unwritten"},
                      NEW kind \in CoreKinds, NEW i \in Mine(kind)
               PROVE  MineOf("belief_state", ledger[i].cycle) # {}
    BY DEF AllOrNothing
  <1>1. AllWhole(ledger)
    BY LedgerInv DEF IInv, StageInv, Whole
  <1>2. i \in Ours(ledger) /\ ledger[i].kind = kind
    BY DEF Mine, Ours
  <1> QED BY <1>1, <1>2, LedgerSets DEF AllWhole

LEMMA ContextIsOne ==
  ASSUME IInv
  PROVE  ContextOnce
  <1> DEFINE told == {i \in Mine("external_signal") : "context" \in ledger[i].names}
  <1>1. told = Context(ledger)
    BY LedgerSets DEF Context
  <1>2. OneContext(ledger) /\ Closed(ledger)
    BY LedgerInv DEF LogInv
  <1> HIDE DEF told
  <1>3. Cardinality(told) <= 1
    <2>1. CASE told = {}
      BY <2>1, FS_EmptySet
    <2>2. ASSUME NEW i \in told
          PROVE  Cardinality(told) <= 1
      <3>1. told = {i}
        BY <1>1, <1>2 DEF OneContext
      <3>2. Cardinality(told) = 1
        BY <3>1, FS_Singleton
      <3> QED BY <3>2
    <2> QED BY <2>1, <2>2
  <1>4. \A i \in told : ledger[i].cycle = 1
    BY <1>1, <1>2 DEF OneContext
  <1>5. config.context /\ Mine("completed_run") # {} => told # {}
    BY <1>1, <1>2, LedgerSets DEF Closed
  <1> QED BY <1>3, <1>4, <1>5 DEF ContextOnce, told

LEMMA RecordNamesLast ==
  ASSUME IInv
  PROVE  RunNamesLastCycle
  <1>1. OneState(ledger) /\ Closed(ledger) /\ ledger \in Seq(Line)
    BY LedgerInv DEF LogInv
  <1> SUFFICES ASSUME NEW i \in Mine("completed_run")
               PROVE
        /\ \A n \in 0 .. MaxCycles :
             Cardinality(MineOf("belief_state", n))
               = IF n <= ledger[i].cycle THEN 1 ELSE 0
        /\ \A n \in 1 .. ledger[i].cycle :
             MineOf("answer_projection", n) \cup MineOf("belief_state_projection", n) # {}
        /\ i = Len(ledger)
        /\ ledger[i].names \cap {"max_cycles", "fixed_rounds_completed"} # {}
             <=> ledger[i].cycle = MaxCycles
    BY DEF RunNamesLastCycle
  <1>2. i \in Of(ledger, "completed_run")
    BY LedgerSets
  <1>3. /\ i = Len(ledger)
        /\ \A n \in 0 .. ledger[i].cycle : OfCycle(ledger, "belief_state", n) # {}
        /\ \A b \in Of(ledger, "belief_state") : ledger[b].cycle <= ledger[i].cycle
        /\ \A n \in 1 .. ledger[i].cycle :
             OfCycle(ledger, "answer_projection", n) \cup
             OfCycle(ledger, "belief_state_projection", n) # {}
        /\ ledger[i].names \cap {"max_cycles", "fixed_rounds_completed"} # {}
             <=> ledger[i].cycle = MaxCycles
    BY <1>1, <1>2 DEF Closed
  <1>4. ledger[i].cycle \in Nat /\ MaxCycles \in Nat
    <2>1. i \in DOMAIN ledger
      BY DEF Mine
    <2>2. ledger[i] \in Line
      BY <1>1, <2>1
    <2>3. ledger[i].cycle \in 0 .. MaxCycles
      BY <2>2 DEF Line
    <2> QED BY <2>3, QuestionAssumption
  <1>5. ASSUME NEW n \in 0 .. MaxCycles
        PROVE  Cardinality(MineOf("belief_state", n))
                 = IF n <= ledger[i].cycle THEN 1 ELSE 0
    <2>1. MineOf("belief_state", n) = OfCycle(ledger, "belief_state", n)
      BY LedgerSets
    <2>2. CASE n <= ledger[i].cycle
      <3>1. n \in 0 .. ledger[i].cycle
        BY <2>2, <1>4
      <3>2. PICK b : b \in OfCycle(ledger, "belief_state", n)
        BY <1>3, <3>1
      <3>3. OfCycle(ledger, "belief_state", n) = {b}
        BY <1>1, <3>2 DEF OneState, OfCycle
      <3> QED BY <2>1, <2>2, <3>3, FS_Singleton
    <2>3. CASE ~(n <= ledger[i].cycle)
      <3>1. OfCycle(ledger, "belief_state", n) = {}
        BY <1>3, <2>3 DEF OfCycle
      <3> QED BY <2>1, <2>3, <3>1, FS_EmptySet
    <2> QED BY <2>2, <2>3
  <1>6. \A n \in 1 .. ledger[i].cycle :
          MineOf("answer_projection", n) \cup MineOf("belief_state_projection", n) # {}
    BY <1>3, LedgerSets
  <1> QED BY <1>3, <1>5, <1>6

-----------------------------------------------------------------------------
(* What a step may never do.                                               *)

(* What the pool offered it offers still, or something newer instead.      *)
Offers ==
  \A c \in pool :
    \/ c \in pool' \/ c \in selected
    \/ c.asks \in Asks({d \in pool' : d.from > c.from})
    \/ attempt' # attempt

(* The next pool of a question.                                            *)
LEMMA AdvanceOffers ==
  ASSUME IInv, Advance
  PROVE  Offers
  <1>1. /\ stage = "advance" /\ pool \subseteq Candidates /\ cycle \in Nat
        /\ \A c \in pool : c.from < cycle
    BY QuestionAssumption DEF Advance, At, IInv, RunInv, Proposals, Types
  <1>2. PICK fresh \in SUBSET [asks: Questions, from: {cycle}] : pool' = NextPool(fresh)
    BY DEF Advance
  <1> SUFFICES ASSUME NEW c \in pool, c \notin selected, c \notin pool'
               PROVE  c.asks \in Asks({d \in pool' : d.from > c.from})
    BY DEF Offers
  <1>3. c.asks \in Asks(fresh)
    BY <1>2 DEF NextPool
  <1>4. PICK d \in fresh : c.asks = d.asks
    BY <1>3 DEF Asks
  <1>5. d \in pool'
    BY <1>2, <1>4 DEF NextPool
  <1>6. d.from > c.from
    <2>1. c.from \in Nat /\ c.from < cycle
      BY <1>1, QuestionAssumption DEF Candidates
    <2>2. d.from = cycle
      BY <1>4
    <2> QED BY <1>1, <2>1, <2>2
  <1> QED BY <1>4, <1>5, <1>6 DEF Asks

(* Every step of every regime.                                             *)
LEMMA StepOffers ==
  ASSUME IInv, [RegimeNext]_vars
  PROVE  Offers
  <1>1. CASE pool' = pool \/ pool = {}
    BY <1>1 DEF Offers
  <1>2. ASSUME pool' # pool, pool # {}
        PROVE  Advance \/ ProjectRound \/ RunAgain
    <2>1. stage \notin Fresh \cup {"design"}
      BY <1>2 DEF IInv, RunInv, Types
    <2>2. Step => Advance \/ RunAgain
      BY <1>2, <2>1
      DEF Step, Append1, Admit, Initialize, DesignFirst, PlanProbes, PlanNothing,
          ExecuteProbes, IntegrateCycle, Integrates, NoSignalShape, ProjectAnswer,
          Result, At, Fresh, cyclic
    <2>3. Others => ProjectRound
      BY <1>2, <2>1
      DEF Others, BeginRounds, PassiveRound, PlanRound, NothingToPlan, ExecuteRound,
          IntegrateRound, Integrates, RoundShapeRaises, CollectSignals,
          IntegrateSignals, NoSignalRaises, ProjectSignals, StopLoop, Leaves, At,
          Fresh, cyclic
    <2>4. ~(Raises \/ DesignRaises \/ AppendFails \/ Dies \/ Finished
              \/ RegimeRaises \/ StopRaises \/ UNCHANGED vars)
      BY <1>2
      DEF Raises, DesignRaises, AppendFails, Dies, Finished, RegimeRaises,
          StopRaises, Leaves, vars, cyclic
    <2> QED BY <2>2, <2>3, <2>4 DEF RegimeNext, Next
  <1>3. ASSUME ProjectRound
        PROVE  Offers
    BY <1>3 DEF ProjectRound, Offers
  <1>4. ASSUME RunAgain
        PROVE  Offers
    <2>1. attempt' = attempt + 1 /\ attempt \in Nat
      BY <1>4, QuestionAssumption DEF RunAgain, IInv, RunInv, Types
    <2>2. attempt' # attempt
      BY <2>1
    <2> QED BY <2>2 DEF Offers
  <1> QED BY <1>1, <1>2, <1>3, <1>4, AdvanceOffers

-----------------------------------------------------------------------------
(* The theorems, of every regime.                                          *)

(* Every variable has its type; the core never passes max_cycles.          *)
THEOREM TypeCorrect == RegimeSpec => []TypeOK
  BY Invariance, TypesKept, PTL

(* A belief state in the ledger seals its cycle, wherever between two      *)
(* appends the process dies: the signals, the events of these signals and  *)
(* the probe set are before it, and with the plan the execution.           *)
THEOREM BeliefStatesSeal == RegimeSpec => []StateSealsCycle
  BY Invariance, LedgerSealed, PTL

(* A cycle that raises leaves no line of the core.                         *)
THEOREM CyclesAllOrNothing == RegimeSpec => []AllOrNothing
  BY Invariance, CyclesWhole, PTL

(* The initial context is evidence once, in the first cycle, whatever the  *)
(* planner had for that cycle and however often the run was started.       *)
THEOREM ContextIsEvidenceOnce == RegimeSpec => []ContextOnce
  BY Invariance, ContextIsOne, PTL

(* The run record comes last and names the last cycle of an unbroken chain *)
(* of belief states with their projections.                                *)
THEOREM RunRecordTells == RegimeSpec => []RunNamesLastCycle
  BY Invariance, RecordNamesLast, PTL

(* No candidate leaves the pool that was not asked or replaced.            *)
THEOREM PoolForgetsNothing == RegimeSpec => UnaskedStaysAvailable
  <1>1. IInv /\ [RegimeNext]_vars => [Offers]_vars
    BY StepOffers
  <1>2. [][Offers]_vars => UnaskedStaysAvailable
    BY PTL DEF UnaskedStaysAvailable, Offers
  <1> QED BY <1>1, <1>2, Invariance, PTL DEF RegimeSpec
=============================================================================
