---------------------------- MODULE ProviderCall ----------------------------
(***************************************************************************)
(* One structured call of a model gateway (openai_gateway.py): up to       *)
(* MaxProviderAttempts requests, each observed once by the telemetry       *)
(* (provider_telemetry.py), with a pause before a transient failure is     *)
(* tried again.  The caller gets a JSON object or an exception.            *)
(*                                                                         *)
(* An outcome of an attempt is "answer" or a fault.  Two faults are        *)
(* invalid responses: "unreadable" is a ModelGatewayValidationError (no    *)
(* text, no JSON, no object), "undecodable" another ValueError.  Retries   *)
(* inside the provider's own client happen within one attempt.             *)
(***************************************************************************)
EXTENDS Naturals, Sequences

CONSTANTS
  MaxProviderAttempts,  (* MAX_PROVIDER_ATTEMPTS, 3 in the code             *)
  Faults                (* the faults an attempt can meet                   *)

ProviderFaults == {"connection", "provider_server_error", "rate_limited",
                   "timeout", "provider_error", "unreadable", "undecodable"}

ASSUME ProviderAssumption ==
  /\ MaxProviderAttempts \in Nat \ {0}
  /\ Faults \subseteq ProviderFaults

VARIABLES
  call,      (* where the call stands, its attempt, the attempt's outcome   *)
  telemetry  (* the invocation records of the call                          *)

providerVars == <<call, telemetry>>

Outcomes == {"answer"} \cup Faults
CallPhases == {"idle", "invoke", "observe", "wait", "answered", "raised"}

NoCall == [phase |-> "idle", attempt |-> 0, outcome |-> "none",
           observed |-> FALSE]

ProviderInit == call = NoCall /\ telemetry = <<>>

ProviderTypeOK ==
  /\ call \in [phase: CallPhases, attempt: 0 .. MaxProviderAttempts,
               outcome: Outcomes \cup {"none"}, observed: BOOLEAN]
  /\ telemetry \in Seq([attempt: 1 .. MaxProviderAttempts, outcome: Outcomes])

(* provider_error_category.                                                *)
Category(outcome) ==
  IF outcome \in {"unreadable", "undecodable"} THEN "invalid_response"
  ELSE outcome

(* _is_retryable_error: connection, server, rate and time faults.          *)
Transient(outcome) ==
  Category(outcome) \in {"connection", "provider_server_error",
                         "rate_limited", "timeout"}

-----------------------------------------------------------------------------
(* complete_structured: the payload is built, nothing is sent yet.         *)
BeginCall(observed) ==
  /\ call' = [phase |-> "invoke", attempt |-> 1, outcome |-> "none",
              observed |-> observed]
  /\ telemetry' = <<>>

(* The request is sent and its response parsed.                            *)
Invoke ==
  /\ call.phase = "invoke"
  /\ \E o \in Outcomes :
       call' = [call EXCEPT !.phase = "observe", !.outcome = o]
  /\ UNCHANGED telemetry

(* Mutated form of InvocationRecord: the counter starts at zero again.     *)
RecordOfFirst(c) == [attempt |-> 1, outcome |-> c.outcome]

(* ProviderInvocationRecord.                                               *)
InvocationRecord(c) == [attempt |-> c.attempt, outcome |-> c.outcome]

(* Mutated form of GivesUp: one attempt too many.                          *)
OneTooMany(c) == c.attempt > MaxProviderAttempts \/ ~Transient(c.outcome)

(* Whether the attempts are used up or the error is not worth another.     *)
GivesUp(c) == c.attempt >= MaxProviderAttempts \/ ~Transient(c.outcome)

(* _observe_provider_attempt, before the loop goes on: an observer that    *)
(* cannot write its line loses it, and the call does not notice.           *)
Observe ==
  /\ call.phase = "observe"
  /\ \/ call.observed /\ telemetry' = Append(telemetry, InvocationRecord(call))
     \/ UNCHANGED telemetry
  /\ call' = [call EXCEPT !.phase =
                IF call.outcome = "answer" THEN "answered"
                ELSE IF GivesUp(call) THEN "raised" ELSE "wait"]

(* The pause of _retry_delay_seconds is over.                              *)
Retry ==
  /\ call.phase = "wait"
  /\ call' = [call EXCEPT !.phase = "invoke", !.attempt = @ + 1]
  /\ UNCHANGED telemetry

ProviderStep == Invoke \/ Observe \/ Retry

(* The caller has the answer or the exception.  The records of a call that *)
(* answered are of no further interest.                                    *)
EndCall ==
  /\ call' = NoCall
  /\ telemetry' = IF call.phase = "raised" THEN telemetry ELSE <<>>

-----------------------------------------------------------------------------
(* What the telemetry tells of a call: no attempt is recorded twice or out *)
(* of order, only the last can be final, and every one before it failed in *)
(* a way worth another attempt.  Records may be missing, never wrong.      *)
TelemetryTellsAttempts ==
  \A i \in DOMAIN telemetry :
    /\ call.phase # "idle" => telemetry[i].attempt <= call.attempt
    /\ \A j \in 1 .. (i - 1) :
         /\ telemetry[j].attempt < telemetry[i].attempt
         /\ Transient(telemetry[j].outcome)
=============================================================================
