----------------------------- MODULE RunStream -----------------------------
(***************************************************************************)
(* The progress of a run on its way to the page that asked for it          *)
(* (webui.py, webui_static/app.js).  The thread of the run hands each      *)
(* event to the emitter, which numbers it, and to the writer, which sends  *)
(* it as a line; the page reads lines until the connection is closed.      *)
(*                                                                         *)
(* The other endpoint sends one response at the end and only tracks the    *)
(* stage for its error message.  The connection may break at any time.     *)
(***************************************************************************)
EXTENDS Naturals, Sequences

CONSTANT MaxInFlight  (* lines a connection holds before a write blocks     *)

ASSUME StreamAssumption == MaxInFlight \in Nat \ {0}

VARIABLES
  outbox,   (* what the thread of the run says before it goes on           *)
  emitter,  (* sequence, failure stage and cycle                           *)
  writer,   (* whether the writer knows that the page is gone              *)
  wire,     (* lines sent and not read                                     *)
  link,     (* whether the connection stands                               *)
  page      (* what the page has read, and its verdict                     *)

streamVars == <<outbox, emitter, writer, wire, link, page>>

Terminal == {"completed", "failed", "refused", "rejected"}

StreamInit ==
  /\ outbox = <<>>
  /\ emitter = [sequence |-> 0, stage |-> "task framing", cycle |-> 0]
  /\ writer = "open" /\ wire = <<>> /\ link = "up"
  /\ page = [read |-> 0, framed |-> FALSE, terminal |-> "none",
             verdict |-> "none"]

StreamTypeOK ==
  /\ emitter.sequence \in Nat /\ emitter.cycle \in Nat
  /\ emitter.stage \in {"task framing", "probe execution", "evidence judgment"}
  /\ writer \in {"open", "disconnected"} /\ link \in {"up", "gone"}
  /\ Len(wire) <= MaxInFlight
  /\ page.terminal \in {"none"} \cup Terminal
  /\ page.verdict \in {"none", "error"} \cup Terminal

-----------------------------------------------------------------------------
(* A progress event of a cycle; a terminal event and its message.          *)
Progress(event, cycle) == [event |-> event, cycle |-> cycle, stage |-> "none"]
Failure(stage) == [event |-> "run_failed", cycle |-> emitter.cycle, stage |-> stage]
Response(outcome, stage) ==
  [event |-> "response", cycle |-> 0, stage |-> stage, outcome |-> outcome]

(* Mutated form of FailureStageAfter: judging evidence is no stage.        *)
StageOfExecution(event) ==
  CASE event = "task_framing_started" -> "task framing"
    [] event = "probe_execution_started" -> "probe execution"
    [] OTHER -> emitter.stage

(* _failure_stage_after_progress.                                          *)
FailureStageAfter(event) ==
  CASE event = "task_framing_started" -> "task framing"
    [] event = "probe_execution_started" -> "probe execution"
    [] event = "evidence_integration_started" -> "evidence judgment"
    [] OTHER -> emitter.stage

(* Mutated form of NextSequence: only progress is counted.                 *)
ProgressSequence(said) ==
  IF said.event = "run_failed" THEN emitter.sequence ELSE emitter.sequence + 1

(* emit, emit_failure and emit_admission_result number what they send.     *)
NextSequence(said) == emitter.sequence + 1

(* A write on a broken connection: the writer disconnects itself, or the   *)
(* error goes back to run_question, which swallows it; run_failed is the   *)
(* last thing said and its error ends the request.                         *)
Write(line) ==
  \/ /\ writer = "open" /\ link = "up"
     /\ Len(wire) < MaxInFlight
     /\ wire' = Append(wire, line)
     /\ UNCHANGED writer
  \/ /\ writer = "open" /\ link = "gone"
     /\ writer' \in {"open", "disconnected"}
     /\ UNCHANGED wire
  \/ /\ writer = "disconnected"
     /\ UNCHANGED <<writer, wire>>

(* The next event is emitted before the thread of the run goes on.         *)
Emit ==
  /\ outbox # <<>>
  /\ LET said == Head(outbox)
     IN /\ emitter' = [sequence |-> NextSequence(said),
                       stage |-> FailureStageAfter(said.event),
                       cycle |-> said.cycle]
        /\ Write([said |-> said, sequence |-> NextSequence(said)])
  /\ outbox' = Tail(outbox)
  /\ UNCHANGED <<link, page>>

(* _AutonomousRunStageTracker: only the response is sent.                  *)
Track ==
  /\ outbox # <<>>
  /\ LET said == Head(outbox)
     IN IF said.event = "response"
        THEN /\ Write([said |-> said, sequence |-> 1])
             /\ UNCHANGED emitter
        ELSE /\ emitter' = [emitter EXCEPT !.stage = FailureStageAfter(said.event)]
             /\ UNCHANGED <<writer, wire>>
  /\ outbox' = Tail(outbox)
  /\ UNCHANGED <<link, page>>

-----------------------------------------------------------------------------
(* Mutated form of TerminalOf: a refused task is not the end.              *)
TerminalOfRuns(said) ==
  CASE said.event = "run_completed" -> "completed"
    [] said.event = "run_failed" -> "failed"
    [] said.event = "response" -> said.outcome
    [] OTHER -> page.terminal

(* consumeRunStream: what a line makes of the state of the page.           *)
TerminalOf(said) ==
  CASE said.event = "run_completed" -> "completed"
    [] said.event = "run_failed" -> "failed"
    [] said.event = "task_admission_completed" -> "refused"
    [] said.event = "response" -> said.outcome
    [] OTHER -> page.terminal

(* handleProgressEvent throws when beliefs come before their frame; the    *)
(* reader is then cancelled.                                               *)
ReadLine ==
  /\ page.verdict = "none" /\ link = "up" /\ wire # <<>>
  /\ LET said == Head(wire).said
     IN IF said.event = "initialization_completed" /\ ~page.framed
        THEN /\ page' = [page EXCEPT !.verdict = "error"]
             /\ link' = "gone" /\ wire' = <<>>
        ELSE /\ page' = [page EXCEPT !.read = Head(wire).sequence,
                  !.framed = said.event # "run_started"
                               /\ (@ \/ said.event = "task_framing_completed"),
                  !.terminal = TerminalOf(said)]
             /\ wire' = Tail(wire) /\ UNCHANGED link
  /\ UNCHANGED <<outbox, emitter, writer>>

(* The connection was closed and everything is read.                       *)
ReadEnd(closed) ==
  /\ page.verdict = "none" /\ link = "up" /\ wire = <<>> /\ closed
  /\ page' = [page EXCEPT !.verdict =
                IF page.terminal = "none" THEN "error" ELSE page.terminal]
  /\ UNCHANGED <<outbox, emitter, writer, wire, link>>

LinkBreaks ==
  /\ page.verdict = "none" /\ link = "up"
  /\ link' = "gone" /\ wire' = <<>>
  /\ UNCHANGED <<outbox, emitter, writer, page>>

ReadFails ==
  /\ page.verdict = "none" /\ link = "gone"
  /\ page' = [page EXCEPT !.verdict = "error"]
  /\ UNCHANGED <<outbox, emitter, writer, wire, link>>

PageStep(closed) == ReadLine \/ ReadEnd(closed) \/ ReadFails

-----------------------------------------------------------------------------
EndsRun(said) ==
  said.event \in {"run_completed", "run_failed", "task_admission_completed",
                  "response"}

(* The page reads an unbroken sequence, and the event that ends the run is *)
(* one, and the last: nothing follows it, on the wire or before it.        *)
OneEndAndLast ==
  /\ \A i \in DOMAIN wire :
       /\ wire[i].sequence = page.read + i
       /\ EndsRun(wire[i].said) => i = Len(wire) /\ outbox = <<>>
  /\ page.terminal # "none" => wire = <<>> /\ outbox = <<>>
=============================================================================
