---------------------------- MODULE PythonProbe ----------------------------
(***************************************************************************)
(* The probe gateway of the python arm (evaluation/python_probe.py): a     *)
(* plan by the model, its code in a container, one repair of the code, and *)
(* one signal whatever happened - but for a missing docker.                *)
(*                                                                         *)
(* DockerPythonSandbox.execute starts "docker run --rm --name=...", two    *)
(* threads drain its pipes into a bounded capture, and a timeout removes   *)
(* the container by name and kills the process.  The docker client and its *)
(* daemon are external: a client creates its container, starts it and      *)
(* waits for its end; containers outlive clients, and clients outlive the  *)
(* program that started them.                                              *)
(***************************************************************************)
EXTENDS ModelTask

CONSTANTS
  MaxCycles,    (* max_cycles (4 in the arm)                               *)
  MaxAttempts,  (* bound on the times a case is started                    *)
  OutputLimit,  (* max_output_bytes, in chunks                             *)
  PipeSize,     (* chunks a pipe holds                                     *)
  MaxOutput     (* bound on the chunks a program writes                    *)

ASSUME SandboxAssumption ==
  /\ MaxCycles \in Nat \ {0} /\ MaxAttempts \in Nat \ {0}
  /\ OutputLimit \in Nat \ {0} /\ PipeSize \in Nat \ {0} /\ MaxOutput \in Nat

Streams == {"stdout", "stderr"}
NoOutput == [s \in Streams |-> 0]

(* An execution: the attempt of the case, its cycle, its repair index.     *)
Executions == (1 .. MaxAttempts) \X (1 .. MaxCycles) \X (0 .. 1)
Nobody == <<0, 0, 0>>

(* _container_name: of run, cycle, probe and index, not of the attempt.    *)
ContainerName(execution) == <<execution[2], execution[3]>>

Names == (1 .. MaxCycles) \X (0 .. 1)

VARIABLES
  probe,       (* where the gateway stands, and its signal                 *)
  sandbox,     (* the execution in hand                                    *)
  clients,     (* docker clients: what each is about to do                 *)
  containers   (* what the daemon keeps under a name, and for whom         *)

sandboxVars == <<sandbox, clients, containers>>
probeVars == <<taskVars, probe, sandboxVars>>

NoProbe == [step |-> "idle", signal |-> "none"]
Absent == [state |-> "absent", by |-> Nobody]

NoExecution ==
  [phase |-> "idle", who |-> Nobody, timedOut |-> FALSE, exit |-> "none",
   produced |-> NoOutput, pipe |-> NoOutput, captured |-> NoOutput,
   truncated |-> FALSE, removal |-> "none"]

ProbeInit ==
  /\ TaskInit /\ probe = NoProbe /\ sandbox = NoExecution
  /\ clients = [e \in Executions |-> "none"]
  /\ containers = [n \in Names |-> Absent]

ProbeTypeOK ==
  /\ TaskTypeOK
  /\ probe \in [step: {"idle", "planning", "reasoning", "launching",
                       "executing", "repairing", "done"},
                signal: {"none", "failure", "reasoning", "execution"}]
  /\ sandbox.phase \in {"idle", "wait", "remove", "kill", "join", "done"}
  /\ \A e \in Executions :
       clients[e] \in {"none", "asking", "starting", "attached"}
  /\ \A n \in Names :
       /\ containers[n].state \in {"absent", "created", "running"}
       /\ containers[n].state # "absent" => ContainerName(containers[n].by) = n

-----------------------------------------------------------------------------
(* The docker client of execution e.                                       *)

Mine(e) == containers[ContainerName(e)].by = e
             /\ containers[ContainerName(e)].state # "absent"

(* The client ends; execute may be waiting for it.                         *)
ClientEnds(e, exit) ==
  /\ clients' = [clients EXCEPT ![e] = "none"]
  /\ sandbox' =
       IF sandbox.who # e \/ sandbox.phase \notin {"wait", "remove", "kill"}
       THEN sandbox
       ELSE [sandbox EXCEPT !.exit = exit,
               !.phase = IF @ = "wait" THEN "join" ELSE @]

(* A name is given once; a client whose name is taken exits with 125.  The *)
(* daemon may refuse for reasons of its own.                               *)
ClientCreates(e) ==
  LET n == ContainerName(e)
  IN /\ clients[e] = "asking"
     /\ \/ /\ containers[n] = Absent
           /\ containers' = [containers EXCEPT ![n] = [state |-> "created", by |-> e]]
           /\ clients' = [clients EXCEPT ![e] = "starting"]
           /\ UNCHANGED sandbox
        \/ /\ ClientEnds(e, "error")
           /\ UNCHANGED containers

ClientStarts(e) ==
  /\ clients[e] = "starting"
  /\ IF Mine(e)
     THEN /\ containers' = [containers EXCEPT ![ContainerName(e)].state = "running"]
          /\ clients' = [clients EXCEPT ![e] = "attached"]
          /\ UNCHANGED sandbox
     ELSE ClientEnds(e, "error") /\ UNCHANGED containers

(* The program writes until its pipe is full.                              *)
ProgramWrites(e, s) ==
  /\ clients[e] = "attached" /\ Mine(e) /\ sandbox.who = e
  /\ sandbox.pipe[s] < PipeSize
  /\ sandbox.produced["stdout"] + sandbox.produced["stderr"] < MaxOutput
  /\ sandbox' = [sandbox EXCEPT !.pipe[s] = @ + 1, !.produced[s] = @ + 1]
  /\ UNCHANGED <<clients, containers>>

(* --rm: a container whose program ends is gone.  Some programs never end. *)
ProgramEnds(n) ==
  /\ containers[n].state = "running"
  /\ containers' = [containers EXCEPT ![n] = Absent]
  /\ IF clients[containers[n].by] = "attached"
     THEN \E exit \in {"zero", "error"} : ClientEnds(containers[n].by, exit)
     ELSE UNCHANGED <<sandbox, clients>>

(* The container of an attached client was removed.                        *)
ClientDetaches(e) ==
  /\ clients[e] = "attached" /\ ~Mine(e)
  /\ ClientEnds(e, "error")
  /\ UNCHANGED containers

DockerStep ==
  /\ \/ \E e \in Executions :
          \/ ClientCreates(e) \/ ClientStarts(e) \/ ClientDetaches(e)
          \/ \E s \in Streams : ProgramWrites(e, s)
     \/ \E n \in Names : ProgramEnds(n)
  /\ UNCHANGED <<taskVars, probe>>

-----------------------------------------------------------------------------
(* DockerPythonSandbox.execute.                                            *)

Launch(e) ==
  /\ sandbox' = [NoExecution EXCEPT !.phase = "wait", !.who = e]
  /\ clients' = [clients EXCEPT ![e] = "asking"]
  /\ UNCHANGED containers

(* Mutated form of Capture: each stream has a limit of its own.            *)
CaptureByStream(box, s) ==
  IF box.captured[s] < OutputLimit
  THEN [box EXCEPT !.pipe[s] = @ - 1, !.captured[s] = @ + 1]
  ELSE [box EXCEPT !.pipe[s] = @ - 1, !.truncated = TRUE]

(* _BoundedOutputCapture.drain: the threads share one limit; past it they  *)
(* go on reading.                                                          *)
Capture(box, s) ==
  IF box.captured["stdout"] + box.captured["stderr"] < OutputLimit
  THEN [box EXCEPT !.pipe[s] = @ - 1, !.captured[s] = @ + 1]
  ELSE [box EXCEPT !.pipe[s] = @ - 1, !.truncated = TRUE]

Drain(s) ==
  /\ sandbox.pipe[s] > 0
  /\ sandbox' = Capture(sandbox, s)
  /\ UNCHANGED <<clients, containers>>

(* process.wait(timeout) raises TimeoutExpired.                            *)
Timeout ==
  /\ sandbox.phase = "wait"
  /\ sandbox' = [sandbox EXCEPT !.timedOut = TRUE, !.phase = "remove"]
  /\ UNCHANGED <<clients, containers>>

(* Mutated form of RemoveContainer: the process is killed, no more.        *)
LeaveContainer ==
  /\ sandbox.phase = "remove"
  /\ sandbox' = [sandbox EXCEPT !.phase = "kill", !.removal = "removed"]
  /\ UNCHANGED <<clients, containers>>

(* _remove_container: whatever has the name; a missing docker and a rm     *)
(* that takes too long are swallowed.                                      *)
RemoveContainer ==
  LET n == ContainerName(sandbox.who)
  IN /\ sandbox.phase = "remove"
     /\ \/ /\ containers[n] # Absent
           /\ containers' = [containers EXCEPT ![n] = Absent]
           /\ sandbox' = [sandbox EXCEPT !.phase = "kill", !.removal =
                            IF Mine(sandbox.who) THEN "removed" ELSE "missed"]
        \/ /\ sandbox' = [sandbox EXCEPT !.phase = "kill", !.removal =
                            IF Mine(sandbox.who) THEN "failed" ELSE "missed"]
           /\ UNCHANGED containers
     /\ UNCHANGED clients

(* process.kill and process.wait.                                          *)
Kill ==
  /\ sandbox.phase = "kill"
  /\ clients' = [clients EXCEPT ![sandbox.who] = "none"]
  /\ sandbox' = [sandbox EXCEPT !.phase = "join",
                   !.exit = IF @ = "none" THEN "error" ELSE @]
  /\ UNCHANGED containers

(* The drain threads end with their streams (within the five seconds of    *)
(* their joins).                                                           *)
Join ==
  /\ sandbox.phase = "join" /\ sandbox.pipe = NoOutput
  /\ sandbox' = [sandbox EXCEPT !.phase = "done"]
  /\ UNCHANGED <<clients, containers>>

SandboxStep ==
  /\ (\E s \in Streams : Drain(s)) \/ Timeout \/ RemoveContainer \/ Kill \/ Join
  /\ UNCHANGED <<taskVars, probe>>

(* PythonExecutionRecord: success with an output; a violation is read off  *)
(* what was captured of stderr.                                            *)
Usable(policy) ==
  ~sandbox.timedOut /\ ~policy /\ sandbox.exit = "zero"
    /\ sandbox.captured["stdout"] > 0

(* _execution_requires_repair.                                             *)
RequiresRepair(policy) == ~sandbox.timedOut /\ ~policy /\ ~Usable(policy)

-----------------------------------------------------------------------------
(* PythonAugmentedProbeToolGateway.execute_probe, for an attempt and cycle.*)

Signal(kind) == probe' = [step |-> "done", signal |-> kind]

BeginProbe ==
  /\ probe = NoProbe
  /\ probe' = [NoProbe EXCEPT !.step = "planning"]
  /\ StartTask("plan_python_probe", 1, TRUE)
  /\ UNCHANGED sandboxVars

(* Whatever keeps the gateway from a plan becomes a failure signal.        *)
UsePlan ==
  /\ Done("plan_python_probe")
  /\ IF task.result.status # "planned" THEN Signal("failure")
     ELSE probe' = [probe EXCEPT !.step =
            IF task.result.mode = "python" THEN "launching" ELSE "reasoning"]
  /\ EndTask
  /\ UNCHANGED sandboxVars

AskReasoning ==
  /\ probe.step = "reasoning" /\ TaskIdle
  /\ StartTask("execute_probe", 0, TRUE)
  /\ UNCHANGED <<probe, sandboxVars>>

UseReasoning ==
  /\ probe.step = "reasoning" /\ Done("execute_probe")
  /\ Signal(IF task.result.status = "signals" THEN "reasoning" ELSE "failure")
  /\ EndTask
  /\ UNCHANGED sandboxVars

(* Popen finds docker; SandboxUnavailableError is for the caller.          *)
Execute(attempt, cycle) ==
  /\ probe.step = "launching"
  /\ Launch(<<attempt, cycle, IF sandbox.phase = "idle" THEN 0 ELSE 1>>)
  /\ probe' = [probe EXCEPT !.step = "executing"]
  /\ UNCHANGED taskVars

(* Only the first execution is repaired.                                   *)
UseExecution ==
  /\ probe.step = "executing" /\ sandbox.phase = "done"
  /\ \E policy \in IF sandbox.captured["stderr"] > 0 THEN BOOLEAN ELSE {FALSE} :
       IF RequiresRepair(policy) /\ sandbox.who[3] = 0
       THEN /\ probe' = [probe EXCEPT !.step = "repairing"]
            /\ StartTask("repair_python_probe_code", 0, TRUE)
       ELSE /\ Signal(IF Usable(policy) THEN "execution" ELSE "failure")
            /\ UNCHANGED taskVars
  /\ UNCHANGED sandboxVars

(* No code: the first record stands, and it was not usable.                *)
UseRepair ==
  /\ Done("repair_python_probe_code")
  /\ IF task.result.status = "code"
     THEN probe' = [probe EXCEPT !.step = "launching"]
     ELSE Signal("failure")
  /\ EndTask
  /\ UNCHANGED sandboxVars

(* The caller takes the signal.                                            *)
EndProbe ==
  /\ probe.step = "done"
  /\ probe' = NoProbe /\ sandbox' = NoExecution
  /\ UNCHANGED <<clients, containers>>

ProbeStep(attempt, cycle) ==
  \/ UsePlan \/ AskReasoning \/ UseReasoning \/ Execute(attempt, cycle)
  \/ UseExecution \/ UseRepair

-----------------------------------------------------------------------------
(* What is captured of an execution is what the program wrote, up to the   *)
(* limit that both streams share, and the record says when that is less.   *)
CaptureHonest ==
  LET written == sandbox.produced["stdout"] + sandbox.produced["stderr"]
      kept == sandbox.captured["stdout"] + sandbox.captured["stderr"]
  IN sandbox.phase = "done" =>
       /\ kept = IF written < OutputLimit THEN written ELSE OutputLimit
       /\ sandbox.truncated <=> written > OutputLimit
       /\ \A s \in Streams : sandbox.captured[s] <= sandbox.produced[s]

(* "timeouts terminate the container" (capability benchmark design): an    *)
(* execution leaves its container behind only if the removal failed or     *)
(* came before the client had created it - it may then have removed the    *)
(* container of an earlier attempt, which has the same name.               *)
StrayOnlyIfMissed ==
  sandbox.phase = "done" /\ Mine(sandbox.who) =>
    sandbox.timedOut /\ sandbox.removal \in {"missed", "failed"}
=============================================================================
