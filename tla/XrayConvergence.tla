--------------------------- MODULE XrayConvergence ---------------------------
(***************************************************************************)
(* How the panel and one Agent agree on the Xray configuration of a host.  *)
(* An administrator's change writes rows and raises the deployment's       *)
(* desiredGeneration; every heartbeat of the Agent brings its observed     *)
(* state and its task results, and takes back a task and the desired       *)
(* state; a second copy of the desired state goes over the event stream.   *)
(* The Agent runs one task at a time and one application at a time.        *)
(*                                                                         *)
(* The panel's handler of one heartbeat is three steps, because it takes    *)
(* and releases two different locks: a mutation, or the handler of a       *)
(* heartbeat the Agent has given up on, may come between any two of them.  *)
(*                                                                         *)
(* A configuration is the set of inbounds it listens for, and its hash is  *)
(* the configuration itself.  A column that may be NULL, a pointer that    *)
(* may be nil and a field that may be missing are sets of at most one      *)
(* element.  One Xray version, "new", is the managed one; a host may still *)
(* run an older one.  What an application does inside is the subject of    *)
(* XrayAgentRuntime, and how a process is kept alive that of               *)
(* XraySupervisor: here an application succeeds or fails as a whole.       *)
(***************************************************************************)
EXTENDS Integers, FiniteSets, Sequences

CONSTANTS
  Inbounds,        \* the inbounds an administrator may create on the host
  MaxGeneration,   \* bound: generations explored
  MaxOperations,   \* bound: rows of xray_operations explored
  MaxFaults,       \* bound: lost heartbeats, crashes, deaths and failures
  MaxBeats,        \* bound: heartbeats the panel handles at the same time
  BatchSize,       \* xrayHeartbeatTaskResultBatchSize
  QueueSize        \* xrayArtifactQueueSize

ASSUME BoundsAssumption ==
  /\ MaxGeneration \in Nat \ {0}
  /\ MaxOperations \in Nat \ {0}
  /\ MaxFaults \in Nat
  /\ MaxBeats \in Nat \ {0}
  /\ BatchSize \in Nat \ {0}
  /\ QueueSize \in Nat \ {0}

VARIABLES
  deployment,   \* the host's row of xray_host_deployments
  inbounds,     \* xray_inbounds: what each row is, and the generation it became so
  operations,   \* xray_operations
  report,       \* the host's row of xray_runtime_reports, once there is one
  agent,        \* the Agent: its disk, its process and its memory
  beats,        \* the heartbeats in the panel
  wire,         \* desired states on their way over the event stream
  faults        \* how many faults there have been

vars == <<deployment, inbounds, operations, report, agent, beats, wire, faults>>

OperationIds == 1 .. MaxOperations
Beats        == 1 .. MaxBeats
Generations  == 0 .. MaxGeneration
NoGeneration == -1
Configs      == SUBSET Inbounds
Desired      == [generation : Generations, config : Configs]
Observed     == [version : {"none", "old", "new"}, generation : Generations,
                 hash : SUBSET Configs, running : BOOLEAN,
                 error : Generations \cup {NoGeneration}]

Open     == {"QUEUED", "RUNNING"}
Terminal == {"SUCCESS", "FAILED", "TIMEOUT"}
Unused   == [type |-> "none", generation |-> 0, status |-> "none",
             stage |-> "none"]
Idle     == [pc |-> "idle", report |-> {}, full |-> FALSE, results |-> {},
             accepted |-> {}, ask |-> FALSE, task |-> {}, defer |-> FALSE,
             desired |-> {}]

\* What is left of the heartbeats when the Agent stops waiting for them: the
\* panel still handles them, and nobody reads the answer.
Abandoned(bs) ==
  [b \in Beats |->
     IF bs[b].pc = "answer" THEN Idle
     ELSE [bs[b] EXCEPT !.accepted = {}, !.task = {},
                        !.full = bs[b].full /\ bs[b].pc = "receive"]]

Fault == faults < MaxFaults /\ faults' = faults + 1

-----------------------------------------------------------------------------
(* What both sides compute from their state. *)

\* Mutant: a row that waits to be deleted is still compiled.
LiveWithPending == {i \in Inbounds : inbounds[i].is \in {"live", "deleting"}}

\* generateXrayHostConfig: the rows that are not waiting to be deleted.
Live == {i \in Inbounds : inbounds[i].is = "live"}

Configuration == Live

\* The operation the deployment points to.
Last == operations[deployment.last]

\* ObservedState with decorateXrayObservedStateWithDesiredFailure.  Without a
\* state.json only the binary of the managed version, if it is on disk, shows.
Observe ==
  LET down  == agent.version # "none" /\ agent.config # {} /\ ~agent.up
  IN  [version    |-> IF agent.version = "none" /\ agent.artifact
                        THEN "new" ELSE agent.version,
       generation |-> agent.generation,
       hash       |-> IF agent.version = "none" THEN {} ELSE {agent.config},
       running    |-> agent.up,
       error      |-> IF agent.failure >= agent.generation
                        THEN agent.failure
                      ELSE IF down THEN agent.generation ELSE NoGeneration]

\* The listeners of an observed state: READY when the process runs.
Listeners(o) == UNION o.hash

\* runtimeReady of reconcileDesiredOperation, and the same conditions once
\* more in isXrayDesiredApplied.
RuntimeReady(o, config) ==
  /\ o.version = "new"
  /\ o.running = (config # {})
  /\ Listeners(o) = config

IsApplied(d, o) ==
  /\ o.generation = d.generation
  /\ o.hash = {d.config}
  /\ RuntimeReady(o, d.config)

\* needsArtifactTask, for the version the last report shows.
NeedsArtifact(op) ==
  /\ op.type \in {"SYNC", "INSTALL", "UPGRADE"}
  /\ \A o \in report : o.version # "new"

TaskStage(op) == IF op.type = "RESTART" THEN "RESTART" ELSE "INSTALL"

-----------------------------------------------------------------------------
(* An administrator's changes. *)

\* A fresh row.
Insert(id, type, generation, stage) ==
  /\ operations[id] = Unused
  /\ \A j \in OperationIds : j < id => operations[j] # Unused
  /\ operations' = [operations EXCEPT ![id] =
       [type |-> type, generation |-> generation, status |-> "QUEUED",
        stage |-> stage]]

\* runHostConfigurationMutation with the finalize of its callers: no look at
\* the operations that are still open.
Mutate(i, before, after) ==
  LET next == deployment.generation + 1
  IN  /\ inbounds[i].is = before
      /\ next <= MaxGeneration
      /\ inbounds' = [inbounds EXCEPT ![i] = [is |-> after, at |-> next]]
      /\ \E id \in OperationIds :
           /\ Insert(id, "SYNC", next, "none")
           /\ deployment' = [known |-> TRUE, generation |-> next,
                             hash |-> {Configuration'}, last |-> id]
      /\ UNCHANGED <<report, agent, beats, wire, faults>>

CreateInbound(i) == Mutate(i, "absent", "live")

\* Mutant: the row goes at once.
RemoveInboundAtOnce(i) == Mutate(i, "live", "gone")

RemoveInbound(i) == Mutate(i, "live", "deleting")

\* assertNoRuntimeOperation: any open operation of the host, not only the
\* last one.
NoRuntimeOperation == \A id \in OperationIds : operations[id].status \notin Open

\* createTaskOperation.  An INSTALL may be the first thing that happens to a
\* host, and then creates its deployment at generation 0 without a hash.
CreateTask(type) ==
  /\ NoRuntimeOperation
  /\ \E id \in OperationIds :
       /\ Insert(id, type, deployment.generation, "none")
       /\ deployment' = [deployment EXCEPT !.known = TRUE, !.last = id]
  /\ UNCHANGED <<inbounds, report, agent, beats, wire, faults>>

CreateInstall ==
  /\ \A o \in report : o.version = "none"
  /\ CreateTask("INSTALL")

CreateUpgrade ==
  /\ \E o \in report : o.version = "old"
  /\ CreateTask("UPGRADE")

CreateRestart ==
  /\ deployment.known
  /\ \E o \in report : o.version # "none" /\ o.running
  /\ CreateTask("RESTART")

\* createXrayRuntimeSync: the same configuration under the next generation.
CreateSync ==
  LET next == deployment.generation + 1
  IN  /\ NoRuntimeOperation
      /\ \E o \in report : o.version = "new"
      /\ deployment.known
      /\ next <= MaxGeneration
      /\ \E id \in OperationIds :
           /\ Insert(id, "SYNC", next, "SYNC_ONLY")
           /\ deployment' = [deployment EXCEPT !.generation = next,
                               !.hash = {Configuration}, !.last = id]
      /\ UNCHANGED <<inbounds, report, agent, beats, wire, faults>>

-----------------------------------------------------------------------------
(* The panel's handler of a heartbeat, step by step. *)

\* completeXrayRuntimeTask on the row of the operation the deployment names.
Completed(op, outcome) ==
  CASE op.status \in Terminal -> op
    [] op.status \notin Terminal
         /\ (op.stage # TaskStage(op) \/ outcome = "FAILED") ->
         [op EXCEPT !.status = "FAILED"]
    [] op.status \notin Terminal
         /\ op.stage = TaskStage(op) /\ outcome = "SUCCESS" ->
         IF op.type \in {"RESTART", "INSTALL"}
           THEN [op EXCEPT !.status = "SUCCESS"]
           ELSE [op EXCEPT !.status = "QUEUED", !.stage = "INSTALL_COMPLETE"]

\* acceptXrayRuntimeTaskResults: a result of any other operation is refused,
\* and the Agent keeps it.
Mine(results) == {r \in results : r.id = deployment.last}

Accepted(results) ==
  [id \in OperationIds |->
     IF \E r \in Mine(results) : r.id = id
       THEN Completed(operations[id], (CHOOSE r \in Mine(results) : r.id = id).outcome)
       ELSE operations[id]]

\* The UPDATE of reconcileDesiredOperation.
Concluded(op, status) ==
  IF /\ op.type \in {"SYNC", "UPGRADE"}
     /\ op.generation = deployment.generation
     /\ op.status \in Open
    THEN [op EXCEPT !.status = status]
    ELSE op

\* Mutant: the same configuration is taken for the same generation.
ConvergedByHash(o) ==
  deployment.hash # {} /\ o.hash = deployment.hash /\ RuntimeReady(o, Live)

\* The report shows the desired generation, applied and ready.
Converged(o) ==
  /\ o.generation = deployment.generation
  /\ deployment.hash # {} /\ o.hash = deployment.hash
  /\ RuntimeReady(o, Live)

\* deleteAppliedPendingXrayRecordsWithinHostLock; the ports of the rows go
\* with them.
Deleted(generation) ==
  [i \in Inbounds |->
     IF inbounds[i].is = "deleting" /\ inbounds[i].at <= generation
       THEN [inbounds[i] EXCEPT !.is = "gone"]
       ELSE inbounds[i]]

\* reconcileDesiredOperation on the operations it finds.
Reconciled(ops, o) ==
  [id \in OperationIds |->
     CASE id = deployment.last /\ Converged(o) -> Concluded(ops[id], "SUCCESS")
       [] id = deployment.last /\ ~Converged(o) /\ o.error = deployment.generation ->
            Concluded(ops[id], "FAILED")
       [] OTHER -> ops[id]]

\* The results first, then processXrayHeartbeatReport.  A signature alone is
\* compared with the stored one; only a full state is stored and reconciled.
Receive(b) ==
  LET ops == Accepted(beats[b].results)
  IN  /\ beats[b].pc = "receive"
      /\ beats' = [beats EXCEPT ![b].pc = "take",
           ![b].full     = beats[b].full /\ agent.waits = b,
           ![b].results  = {},
           ![b].accepted = IF agent.waits = b THEN {r.id : r \in Mine(beats[b].results)} ELSE {},
           ![b].ask = ~beats[b].full /\ beats[b].report # report]
      /\ \/ /\ beats[b].full
            /\ report' = beats[b].report
            /\ \E o \in beats[b].report :
                 /\ operations' = Reconciled(ops, o)
                 /\ inbounds' = IF deployment.last # 0 /\ Converged(o)
                                  THEN Deleted(deployment.generation) ELSE inbounds
         \/ /\ ~beats[b].full
            /\ operations' = ops
            /\ UNCHANGED <<report, inbounds>>
      /\ UNCHANGED <<deployment, agent, wire, faults>>

\* takeXrayRuntimeTasks on the row of the last operation.  The time to live
\* of a task starts when it is first handed out.
Taken(op, late) ==
  CASE op.stage \notin {"none", "INSTALL_COMPLETE", TaskStage(op)} ->
         [op EXCEPT !.status = "FAILED"]
    [] op.stage = "INSTALL_COMPLETE" -> op
    [] op.stage \in {"none", TaskStage(op)} /\ late ->
         [op EXCEPT !.status = "TIMEOUT"]
    [] op.stage \in {"none", TaskStage(op)} /\ ~late ->
         [op EXCEPT !.status = "RUNNING", !.stage = TaskStage(op)]

\* Mutant: a task that is RUNNING is not handed out again.
MayTakeOnce ==
  /\ deployment.last # 0
  /\ Last.status = "QUEUED"
  /\ Last.type = "RESTART" \/ NeedsArtifact(Last)

MayTake ==
  /\ deployment.last # 0
  /\ Last.status \in Open
  /\ Last.type = "RESTART" \/ NeedsArtifact(Last)

\* shouldDeferXrayDesiredForInstall, read right after the task is taken.
Defers(op) ==
  op.status \in Open /\ NeedsArtifact(op) /\ op.stage # "INSTALL_COMPLETE"

Take(b, late) ==
  LET next == IF MayTake THEN Taken(Last, late) ELSE Last
  IN  /\ beats[b].pc = "take"
      /\ late => MayTake /\ Last.stage = TaskStage(Last)
      /\ \/ /\ deployment.last # 0
            /\ operations' = [operations EXCEPT ![deployment.last] = next]
            /\ beats' = [beats EXCEPT ![b].pc = "build",
                 ![b].task  = IF /\ agent.waits = b /\ MayTake
                                 /\ next.status = "RUNNING" /\ next.stage = TaskStage(next)
                                THEN {[id |-> deployment.last, type |-> next.type]} ELSE {},
                 ![b].defer = Defers(next)]
         \/ /\ deployment.last = 0
            /\ beats' = [beats EXCEPT ![b].pc = "build"]
            /\ UNCHANGED operations
      /\ UNCHANGED <<deployment, inbounds, report, agent, wire, faults>>

\* Mutant: the desired state goes out once per operation.
SendsOnce(beat, desired) ==
  /\ deployment.known /\ ~beat.defer
  /\ deployment.last # 0 => Last.status = "QUEUED"
  /\ beat.ask \/ \A o \in beat.report : ~IsApplied(desired, o)

\* Whether the answer carries the desired state: a report that had to be
\* asked for again proves nothing.
Sends(beat, desired) ==
  /\ deployment.known /\ ~beat.defer
  /\ beat.ask \/ \A o \in beat.report : ~IsApplied(desired, o)

\* buildXrayHeartbeatDesiredState, which throws on a hash that is not that of
\* the rows, and markXrayDesiredDispatched.  A copy of the desired state is
\* pushed over the event stream; one that arrives with the answer changes
\* nothing, one that arrives at some other time counts among the faults.
Build(b) ==
  LET desired == [generation |-> deployment.generation, config |-> Configuration]
      send    == Sends(beats[b], desired)
  IN  /\ beats[b].pc = "build"
      /\ deployment.hash \subseteq {Configuration}
      /\ deployment' = IF deployment.known /\ ~beats[b].defer
                         THEN [deployment EXCEPT !.hash = {Configuration}]
                         ELSE deployment
      /\ operations' = [id \in OperationIds |->
           IF /\ send
              /\ operations[id].type \in {"SYNC", "UPGRADE"}
              /\ operations[id].generation = desired.generation
              /\ operations[id].status = "QUEUED"
             THEN [operations[id] EXCEPT !.status = "RUNNING"]
             ELSE operations[id]]
      /\ beats' = [beats EXCEPT ![b] =
           IF agent.waits = b
             THEN [beats[b] EXCEPT
                     !.pc = "answer", !.desired = IF send THEN {desired} ELSE {},
                     !.report = IF beats[b].full THEN beats[b].report ELSE {}, !.defer = FALSE]
             ELSE Idle]
      /\ \/ UNCHANGED <<wire, faults>>
         \/ /\ send
            /\ Fault
            /\ wire' = wire \cup {desired}
      /\ UNCHANGED <<inbounds, report, agent>>

-----------------------------------------------------------------------------
(* The Agent. *)

\* requestXrayStateUpload: nothing counts as sent any more; a request made
\* while a heartbeat is in flight is not answered by that heartbeat.
Asked(a) == [a EXCEPT !.sent = {}, !.fresh = a.waits # 0]

FailedAt(a, generation) == Asked([a EXCEPT !.failure = generation])

\* xrayDesiredApplyScheduler.Schedule: one application runs, the newest other
\* one waits, and a generation below the highest seen is refused.
Schedule(a, d) ==
  IF a.job = {d} \/ a.pending = {d} THEN a
  ELSE IF d.generation < a.highest THEN FailedAt(a, d.generation)
  ELSE IF a.job = {} THEN [a EXCEPT !.highest = d.generation, !.job = {d}]
  ELSE IF \A p \in a.pending : p.generation < d.generation
         THEN [a EXCEPT !.highest = d.generation, !.pending = {d}]
         ELSE [a EXCEPT !.highest = d.generation]

\* appendXrayTaskResultsToHeartbeat: the first files in the order of names.
Submitted ==
  LET kept == {id \in OperationIds : agent.results[id] # "none"}
  IN  {[id |-> id, outcome |-> agent.results[id]] :
         id \in {k \in kept : Cardinality({j \in kept : j < k}) < BatchSize}}

\* heartbeat, up to the request.  The full state goes along when it changed
\* or was asked for, and now and then without a reason
\* (xrayStateAuditInterval), which counts among the faults.
Beat ==
  LET due == agent.sent # {Observe}
  IN  /\ agent.waits = 0
      /\ \E b \in Beats :
           /\ beats[b] = Idle
           /\ \A c \in Beats : c < b => beats[c] # Idle
           /\ \E full \in BOOLEAN :
                /\ due => full
                /\ IF full /\ ~due THEN Fault ELSE UNCHANGED faults
                /\ beats' = [beats EXCEPT ![b] = [Idle EXCEPT
                     !.pc = "receive", !.report = {Observe}, !.results = Submitted,
                     !.full = full]]
           /\ agent' = [agent EXCEPT !.waits = b, !.fresh = FALSE]
      /\ UNCHANGED <<deployment, inbounds, operations, report, wire>>

\* Mutant: an answer takes every result for accepted.
AcknowledgedAll(a, beat) ==
  [a EXCEPT !.waits   = 0,
            !.fresh   = FALSE,
            !.sent    = IF beat.full /\ ~a.fresh THEN beat.report ELSE a.sent,
            !.results = [id \in OperationIds |-> "none"]]

\* commitXrayHeartbeatState and acknowledgeXrayTaskResultsAt.
Acknowledged(a, beat) ==
  [a EXCEPT !.waits   = 0,
            !.fresh   = FALSE,
            !.sent    = IF beat.full /\ ~a.fresh THEN beat.report ELSE a.sent,
            !.results = [id \in OperationIds |->
                           IF id \in beat.accepted THEN "none" ELSE a.results[id]]]

\* enqueueXrayTask: a full queue drops the task, the panel sends it again.
Enqueued(a, tasks) ==
  IF tasks = {} \/ Len(a.queue) >= QueueSize THEN a
  ELSE [a EXCEPT !.queue = Append(@, CHOOSE t \in tasks : TRUE)]

\* heartbeat, from the response on: an Agent that is asked for its state
\* leaves the desired state of that response alone.
Answer(b) ==
  LET beat == beats[b]
      a    == Enqueued(Acknowledged(agent, beat), beat.task)
  IN  /\ beat.pc = "answer"
      /\ agent.waits = b
      /\ agent' = IF beat.ask THEN Asked(a)
                  ELSE IF beat.desired = {} THEN a
                  ELSE Schedule(a, CHOOSE d \in beat.desired : TRUE)
      /\ beats' = [beats EXCEPT ![b] = Idle]
      /\ UNCHANGED <<deployment, inbounds, operations, report, wire, faults>>

\* The event stream delivers a desired state, whenever it does.
Push(d) ==
  /\ d \in wire
  /\ wire' = wire \ {d}
  /\ agent' = Schedule(agent, d)
  /\ UNCHANGED <<deployment, inbounds, operations, report, beats, faults>>

\* xrayRuntime.Apply refuses an older generation, or another configuration
\* under the one it runs, and takes what it runs for
\* applied when generation and hash are the desired ones.
Refused(d) ==
  /\ agent.version # "none"
  /\ \/ d.generation < agent.generation
     \/ d.generation = agent.generation /\ d.config # agent.config

Reused(d) ==
  /\ agent.version # "none"
  /\ d.generation = agent.generation
  /\ d.config = agent.config
  /\ agent.up = (agent.config # {})

NextJob(a) == Asked([a EXCEPT !.job = a.pending, !.pending = {}])

Apply(d) ==
  \/ /\ Refused(d) \/ (~Reused(d) /\ ~agent.artifact)
     /\ agent' = NextJob(FailedAt(agent, d.generation))
     /\ UNCHANGED faults
  \/ /\ Reused(d)
     /\ agent' = NextJob([agent EXCEPT !.failure = NoGeneration])
     /\ UNCHANGED faults
  \/ /\ ~Refused(d) /\ ~Reused(d) /\ agent.artifact
     /\ \/ /\ agent' = NextJob([agent EXCEPT !.failure = NoGeneration,
                !.version = "new", !.generation = d.generation,
                !.config = d.config, !.up = d.config # {}])
           /\ UNCHANGED faults
        \/ /\ Fault
           /\ agent' = NextJob(FailedAt(agent, d.generation))

RunJob ==
  /\ \E d \in agent.job : Apply(d)
  /\ UNCHANGED <<deployment, inbounds, operations, report, beats, wire>>

\* What a task does, and whether it may succeed.
Done(a, t) ==
  IF t.type = "RESTART" THEN [a EXCEPT !.up = TRUE] ELSE [a EXCEPT !.artifact = TRUE]

Feasible(t) ==
  t.type = "RESTART" => agent.version # "none" /\ agent.config # {}

Finish(a, t, outcome) ==
  [a EXCEPT !.queue = Tail(@), !.results[t.id] = outcome]

\* dispatchManagedXrayTask: a task whose result is still on disk is not run
\* again.
RunTask ==
  LET t == Head(agent.queue)
  IN  /\ agent.queue # <<>>
      /\ \/ /\ agent.results[t.id] # "none"
            /\ agent' = [agent EXCEPT !.queue = Tail(@)]
            /\ UNCHANGED faults
         \/ /\ agent.results[t.id] = "none" /\ Feasible(t)
            /\ agent' = Finish(Done(agent, t), t, "SUCCESS")
            /\ UNCHANGED faults
         \/ /\ agent.results[t.id] = "none" /\ ~Feasible(t)
            /\ agent' = Finish(agent, t, "FAILED")
            /\ UNCHANGED faults
         \/ /\ agent.results[t.id] = "none" /\ Feasible(t)
            /\ Fault
            /\ agent' = Finish(agent, t, "FAILED")
      /\ UNCHANGED <<deployment, inbounds, operations, report, beats, wire>>

-----------------------------------------------------------------------------
(* Faults. *)

\* The Agent starts again with its disk; the last-good Xray is recovered
\* before the first heartbeat.
Rebooted(a) ==
  [a EXCEPT !.up = a.config # {}, !.failure = NoGeneration, !.sent = {},
            !.fresh = FALSE, !.job = {}, !.pending = {},
            !.highest = NoGeneration, !.queue = <<>>, !.waits = 0]

\* A crash, which may come after a task has done its work and before its
\* result is on disk.
Crash ==
  /\ Fault
  /\ \/ agent' = Rebooted(agent)
     \/ /\ agent.queue # <<>>
        /\ LET t == Head(agent.queue)
           IN  /\ agent.results[t.id] = "none" /\ Feasible(t)
               /\ agent' = Rebooted(Done(agent, t))
  /\ wire' = {}
  /\ beats' = Abandoned(beats)
  /\ UNCHANGED <<deployment, inbounds, operations, report>>

\* The Agent gives up on a heartbeat that the panel has, or will have.
GiveUp ==
  /\ Fault
  /\ agent.waits # 0
  /\ agent' = [agent EXCEPT !.waits = 0, !.fresh = FALSE]
  /\ beats' = Abandoned(beats)
  /\ UNCHANGED <<deployment, inbounds, operations, report, wire>>

\* A heartbeat never reaches the panel.
Lose(b) ==
  /\ Fault
  /\ beats[b].pc = "receive"
  /\ beats' = [beats EXCEPT ![b] = Idle]
  /\ agent' = IF agent.waits = b THEN [agent EXCEPT !.waits = 0, !.fresh = FALSE] ELSE agent
  /\ UNCHANGED <<deployment, inbounds, operations, report, wire>>

\* Xray dies, and its supervisor starts it again.
Die ==
  /\ Fault
  /\ agent.up
  /\ agent' = [agent EXCEPT !.up = FALSE]
  /\ UNCHANGED <<deployment, inbounds, operations, report, beats, wire>>

Revive ==
  /\ agent.config # {} /\ ~agent.up
  /\ agent' = [agent EXCEPT !.up = TRUE]
  /\ UNCHANGED <<deployment, inbounds, operations, report, beats, wire, faults>>

-----------------------------------------------------------------------------
FreshAgent ==
  [version |-> "none", artifact |-> FALSE, generation |-> 0, config |-> {},
   up |-> FALSE, failure |-> NoGeneration, sent |-> {},
   fresh |-> FALSE, job |-> {}, pending |-> {}, highest |-> NoGeneration,
   queue |-> <<>>, results |-> [id \in OperationIds |-> "none"], waits |-> 0]

\* A host nobody has touched, or one that runs its first inbounds on an Xray
\* of an earlier release.
Init ==
  /\ beats = [b \in Beats |-> Idle]
  /\ wire = {}
  /\ faults = 0
  /\ operations = [id \in OperationIds |-> Unused]
  /\ \/ /\ agent = FreshAgent
        /\ inbounds = [i \in Inbounds |-> [is |-> "absent", at |-> 0]]
        /\ deployment = [known |-> FALSE, generation |-> 0, hash |-> {}, last |-> 0]
        /\ report = {}
     \/ \E config \in Configs \ {{}} :
          /\ agent = [FreshAgent EXCEPT !.version = "old", !.generation = 1,
                        !.config = config, !.up = TRUE]
          /\ inbounds = [i \in Inbounds |-> IF i \in config
                           THEN [is |-> "live", at |-> 1] ELSE [is |-> "absent", at |-> 0]]
          /\ deployment = [known |-> TRUE, generation |-> 1, hash |-> {config}, last |-> 0]
          /\ report = {Observe}

Admin ==
  \/ \E i \in Inbounds : CreateInbound(i) \/ RemoveInbound(i)
  \/ CreateInstall \/ CreateUpgrade \/ CreateRestart \/ CreateSync

Handle(b) == Receive(b) \/ Take(b, FALSE) \/ Take(b, TRUE) \/ Build(b) \/ Answer(b)

Next ==
  \/ Admin
  \/ \E b \in Beats : Handle(b) \/ Lose(b)
  \/ Beat \/ RunJob \/ RunTask
  \/ \E d \in wire : Push(d)
  \/ Crash \/ GiveUp \/ Die \/ Revive

Spec == Init /\ [][Next]_vars

\* Heartbeats are sent on a timer, the panel answers what it has received,
\* the two workers of the Agent run what they have, the supervisor revives
\* Xray and time passes.  Nothing obliges the event stream to deliver.
Fairness ==
  /\ WF_vars(Beat)
  /\ \A b \in Beats : WF_vars(Handle(b))
  /\ WF_vars(RunJob)
  /\ WF_vars(RunTask)
  /\ WF_vars(Revive)
  /\ SF_vars(\E b \in Beats : Take(b, TRUE))

FairSpec == Spec /\ Fairness

-----------------------------------------------------------------------------
(* Properties. *)

\* The state keeps its shape: an operation's generation is never ahead of the
\* deployment's, the Agent never has more work queued than its channel holds.
TypeOK ==
  /\ deployment \in [known : BOOLEAN, generation : Generations,
                     hash : SUBSET Configs, last : {0} \cup OperationIds]
  /\ inbounds \in [Inbounds -> [is : {"absent", "live", "deleting", "gone"}, at : Generations]]
  /\ \A id \in OperationIds :
       \/ operations[id] = Unused
       \/ /\ operations[id].type \in {"SYNC", "INSTALL", "UPGRADE", "RESTART"}
          /\ operations[id].status \in Open \cup Terminal
          /\ operations[id].generation <= deployment.generation
  /\ report \subseteq Observed /\ Cardinality(report) <= 1
  /\ agent.generation \in Generations
  /\ agent.failure \in Generations \cup {NoGeneration}
  /\ agent.job \subseteq Desired /\ Cardinality(agent.job) <= 1
  /\ agent.pending \subseteq Desired /\ Cardinality(agent.pending) <= 1
  /\ Len(agent.queue) <= QueueSize
  /\ wire \subseteq Desired
  /\ faults \in 0 .. MaxFaults

\* A row, and the port it owns, is only deleted once the Agent no longer
\* listens for it, and never comes back: not through a late heartbeat, a
\* stale desired state or an Agent that forgot what it had seen.
RowBehindListener ==
  \A i \in agent.config : inbounds[i].is \in {"live", "deleting"}

\* SUCCESS is a statement about the host: the generation of a SYNC has been
\* applied, an upgraded host runs the new version, an installed one has it.
SuccessIsTrue ==
  \A id \in OperationIds : operations[id].status = "SUCCESS" =>
    CASE operations[id].type = "SYNC"    -> agent.generation >= operations[id].generation
      [] operations[id].type = "UPGRADE" -> agent.version = "new"
      [] operations[id].type = "INSTALL" -> agent.artifact
      [] operations[id].type = "RESTART" -> agent.version # "none"

\* The stored hash is that of the structured rows, also after rows have been
\* deleted: buildXrayHeartbeatDesiredState never finds a conflict, which
\* would fail every further heartbeat of the host.  (And everything keeps its
\* type.)
HashIsCurrent == TypeOK /\ deployment.hash \subseteq {Configuration}

\* The Agent forgets the result of a task only when the panel has recorded
\* it: the operation is over, or has gone on to its next stage.
ResultsKept ==
  [][\A id \in OperationIds :
       agent.results[id] # "none" /\ agent'.results[id] = "none" =>
         operations[id].status \in Terminal \/ operations[id].stage = "INSTALL_COMPLETE"]_vars

\* The deployment points to a SYNC or RESTART that has not ended.
LastOpen ==
  deployment.last # 0 /\ Last.type \in {"SYNC", "RESTART"} /\ Last.status \in Open

\* The SYNC or RESTART the deployment points to comes to an end, whatever is
\* lost on the way, and so does the one that takes its place before.
OperationEnds == LastOpen ~> ~LastOpen

\* Once the changes and the faults are over, a host that has the binary runs
\* the newest generation, and nothing waits to be deleted any more.  A host
\* whose Xray is still of the old version is exempt: Apply keeps its process as
\* reused and its upgrade never ends, as UpgradeEnds shows.
Converges ==
  <>[](deployment.known /\ agent.artifact /\ agent.version # "old" =>
         /\ agent.generation = deployment.generation
         /\ agent.config = Configuration
         /\ \A i \in Inbounds : inbounds[i].is # "deleting")

\* The explicit upgrade of a host ends.
UpgradeEnds ==
  \A id \in OperationIds :
    /\ deployment.last = id
    /\ operations[id].type = "UPGRADE"
    /\ operations[id].status \in Open
    ~> operations[id].status \in Terminal \/ deployment.last # id
=============================================================================
