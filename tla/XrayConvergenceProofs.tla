------------------------- MODULE XrayConvergenceProofs -------------------------
(***************************************************************************)
(* The safety of XrayConvergence for every number of inbounds, operations, *)
(* heartbeats in the panel and faults.                                     *)
(*                                                                         *)
(* None of the properties is inductive: each is about what the panel's     *)
(* tables and the Agent show now, and a step may act on something that was *)
(* true some steps ago and is still under way.  The invariant therefore    *)
(* says what may be under way:                                             *)
(*   - a desired state, wherever it circulates, and the configuration the  *)
(*     Agent runs are dated: what they still contain was only taken out of *)
(*     the rows under a later generation (DesiredDated, AgentDated);       *)
(*   - an observation, stored or carried by a heartbeat, is a lower bound  *)
(*     of what the Agent is now (ObservedBehind), so a row that has gone   *)
(*     went after the Agent had applied its deletion (GoneApplied);        *)
(*   - a task and a result belong to an operation of their type, and a     *)
(*     result that says SUCCESS is true of the host (TasksKnown,           *)
(*     ResultsTrue), as is an operation that says so (AllTruthful);        *)
(*   - an acceptance under way is of an operation that is over or has gone *)
(*     on to its next stage (ConfirmedRecorded).                           *)
(* A step of the Agent keeps it by AgentMoves or AgentStays, a step of the *)
(* panel by PanelMoves.                                                    *)
(***************************************************************************)
EXTENDS XrayConvergence, FiniteSetTheorems, SequenceTheorems, TLAPS

Types     == {"SYNC", "INSTALL", "UPGRADE", "RESTART"}
Stages    == {"none", "INSTALL", "RESTART", "INSTALL_COMPLETE", "SYNC_ONLY"}
Statuses  == Open \cup Terminal
Marks     == Generations \cup {NoGeneration}
Versions  == {"none", "old", "new"}
Tasks     == [id : OperationIds, type : Types]
Reported  == [id : OperationIds, outcome : {"SUCCESS", "FAILED"}]
Rows      == [type : Types \cup {"none"}, generation : Generations,
              status : Statuses \cup {"none"}, stage : Stages]
Lines     == [is : {"absent", "live", "deleting", "gone"}, at : Generations]
Deployments == [known : BOOLEAN, generation : Generations,
                hash : SUBSET Configs, last : {0} \cup OperationIds]
Agents    == [version : Versions, artifact : BOOLEAN, generation : Generations, config : Configs,
              up : BOOLEAN, failure : Marks, sent : SUBSET Observed, fresh : BOOLEAN,
              job : SUBSET Desired, pending : SUBSET Desired, highest : Marks, queue : Seq(Tasks),
              results : [OperationIds -> {"none", "SUCCESS", "FAILED"}], waits : {0} \cup Beats]

AtMostOne(S) == S = {} \/ \E x \in S : S = {x}
Glimpses  == {O \in SUBSET Observed : AtMostOne(O)}
Requests  == [pc : {"idle", "receive", "take", "build", "answer"}, report : Glimpses,
              full : BOOLEAN, results : SUBSET Reported, accepted : SUBSET OperationIds,
              ask : BOOLEAN, task : SUBSET Tasks, defer : BOOLEAN, desired : SUBSET Desired]


\* What the desired states, the observations, the tasks, the results and the
\* acknowledgements are that are still under way somewhere.
InBeats(f) == UNION {beats[b][f] : b \in Beats}
Circulating  == wire \cup agent.job \cup agent.pending \cup InBeats("desired")
Observations == report \cup InBeats("report")
Assigned     == {agent.queue[n] : n \in 1 .. Len(agent.queue)} \cup InBeats("task")
Kept         == {[id |-> k, outcome |-> agent.results[k]] :
                    k \in {id \in OperationIds : agent.results[id] # "none"}}
Results      == Kept \cup InBeats("results")
Confirmed    == InBeats("accepted")

\* An operation of the table, which has not changed its mind.
Row(op) ==
  /\ op \in Rows
  /\ op = Unused \/ (op.type \in Types /\ op.status \in Statuses
                       /\ op.generation <= deployment.generation)

Typed ==
  /\ deployment \in Deployments
  /\ inbounds \in [Inbounds -> Lines]
  /\ operations \in [OperationIds -> Rows]
  /\ \A id \in OperationIds : Row(operations[id])
  /\ report \subseteq Observed /\ AtMostOne(report)
  /\ agent \in Agents
  /\ AtMostOne(agent.job) /\ AtMostOne(agent.pending)
  /\ Len(agent.queue) <= QueueSize
  /\ beats \in [Beats -> Requests]
  /\ wire \subseteq Desired
  /\ faults \in 0 .. MaxFaults

\* A configuration of generation g: what has since been taken out of the rows
\* was taken out after g.
Dated(g, c) ==
  \A i \in c :
    /\ inbounds[i].is # "absent"
    /\ inbounds[i].is \in {"deleting", "gone"} => g < inbounds[i].at

\* What the panel wants, and has wanted, is dated; so is what the Agent runs.
DesiredDated ==
  /\ deployment.hash \subseteq {Configuration}
  /\ \A d \in Circulating : d.generation <= deployment.generation /\ Dated(d.generation, d.config)
AgentDated ==
  /\ agent.generation <= deployment.generation
  /\ Dated(agent.generation, agent.config)
  /\ agent.version = "none" => agent.generation = 0

\* An old observation of the Agent is a lower bound of what it is now.
Behind(o) ==
  /\ o.generation <= agent.generation
  /\ o.version = "new" /\ o.hash # {} => agent.version = "new"
ObservedBehind == \A o \in Observations : Behind(o)

\* A row has gone after the Agent had applied its deletion.
GoneApplied == \A i \in Inbounds : inbounds[i].is = "gone" => inbounds[i].at <= agent.generation

\* What a task that succeeded leaves behind on the host.
Did(type) == IF type = "RESTART" THEN agent.version # "none" ELSE agent.artifact

TasksKnown == \A t \in Assigned : operations[t.id].type = t.type
TrueResult(r) ==
  /\ operations[r.id].type \in Types
  /\ r.outcome = "SUCCESS" => Did(operations[r.id].type)
ResultsTrue == \A r \in Results : TrueResult(r)

\* The panel has taken note of a task's result.
Recorded(op) == op.status \in Terminal \/ op.stage = "INSTALL_COMPLETE"
ConfirmedRecorded == \A id \in Confirmed : Recorded(operations[id])

Truthful(op) ==
  op.status = "SUCCESS" =>
    /\ op.type = "SYNC" => op.generation <= agent.generation
    /\ op.type = "UPGRADE" => agent.version = "new"
    /\ op.type = "INSTALL" => agent.artifact = TRUE
    /\ op.type = "RESTART" => agent.version # "none"
AllTruthful == \A id \in OperationIds : Truthful(operations[id])

Inv ==
  /\ Typed /\ DesiredDated /\ AgentDated /\ ObservedBehind /\ GoneApplied
  /\ TasksKnown /\ ResultsTrue /\ ConfirmedRecorded /\ AllTruthful

-----------------------------------------------------------------------------
(* Constants. *)

LEMMA Bounds ==
  /\ MaxGeneration \in Nat /\ MaxFaults \in Nat /\ QueueSize \in Nat
  /\ Generations \subseteq Nat /\ 0 \in Generations
  /\ OperationIds \subseteq Nat /\ 0 \notin OperationIds
  /\ Beats \subseteq Nat /\ 0 \notin Beats
  /\ Marks \subseteq Int /\ Generations \subseteq Marks /\ NoGeneration \in Marks
  BY BoundsAssumption DEF Generations, OperationIds, Beats, Marks, NoGeneration

LEMMA UnusedTyped == Unused \in Rows /\ Unused.type = "none" /\ Unused.status = "none"
                     /\ Unused.stage = "none" /\ Unused.generation = 0
  <1>1. PICK zero \in Generations : zero = 0
    BY Bounds
  <1> QED BY <1>1 DEF Unused, Rows, Stages

LEMMA IdleTyped ==
  /\ Idle \in Requests
  /\ Idle.pc = "idle" /\ Idle.report = {} /\ Idle.results = {} /\ Idle.accepted = {}
  /\ Idle.task = {} /\ Idle.desired = {} /\ Idle.full = FALSE /\ Idle.ask = FALSE
  /\ Idle.defer = FALSE
  <1>1. PICK O \in Glimpses : O = {}
    BY DEF Glimpses, AtMostOne
  <1>2. Idle = [Idle EXCEPT !.report = O]
    BY <1>1 DEF Idle
  <1> QED BY <1>1, <1>2 DEF Idle, Requests

LEMMA ObserveTyped ==
  ASSUME agent \in Agents
  PROVE  /\ Observe \in Observed
         /\ Observe.generation = agent.generation
         /\ Observe.hash # {} => Observe.version = agent.version
  <1>1. PICK v \in Versions : v = (IF agent.version = "none" /\ agent.artifact THEN "new" ELSE agent.version)
    BY DEF Agents, Versions
  <1>2. PICK h \in SUBSET Configs : h = (IF agent.version = "none" THEN {} ELSE {agent.config})
    BY DEF Agents
  <1>3. PICK e \in Marks :
          e = (IF agent.failure >= agent.generation THEN agent.failure
               ELSE IF agent.version # "none" /\ agent.config # {} /\ ~agent.up
                      THEN agent.generation ELSE NoGeneration)
    BY Bounds DEF Agents
  <1>4. Observe = [version |-> v, generation |-> agent.generation, hash |-> h,
                   running |-> agent.up, error |-> e]
    BY <1>1, <1>2, <1>3 DEF Observe
  <1>5. Observe \in Observed
    BY <1>4 DEF Observed, Agents, Versions, Marks
  <1>6. Observe.generation = agent.generation /\ Observe.hash = h /\ Observe.version = v
    BY <1>4
  <1>7. h # {} => v = agent.version
    BY <1>1, <1>2
  <1> QED BY <1>5, <1>6, <1>7

-----------------------------------------------------------------------------
(* What a step may do, as far as Inv is concerned. *)

\* A step of the Agent: it goes forward, and makes up nothing but results of
\* tasks it had and observations of itself.
LEMMA AgentMoves ==
  ASSUME Inv, Typed', UNCHANGED <<deployment, inbounds, operations>>,
         agent.generation <= agent'.generation,
         agent.version = "new" => agent'.version = "new",
         agent.version # "none" => agent'.version # "none",
         agent.artifact = TRUE => agent'.artifact = TRUE,
         agent'.version = "none" => agent'.generation = 0,
         agent'.generation <= deployment.generation,
         Dated(agent'.generation, agent'.config),
         Circulating' \subseteq Circulating,
         \A o \in Observations' : o \in Observations \/ Behind(o)',
         Assigned' \subseteq Assigned,
         \A r \in Results' : r \in Results \/ TrueResult(r)',
         Confirmed' \subseteq Confirmed
  PROVE  Inv'
  <1>1. /\ agent \in Agents /\ agent' \in Agents
        /\ operations \in [OperationIds -> Rows] /\ inbounds \in [Inbounds -> Lines]
    BY DEF Inv, Typed
  <1>2. DesiredDated'
    BY DEF Inv, DesiredDated, Dated, Configuration, Live
  <1>3. AgentDated'
    BY DEF AgentDated, Dated
  <1>4. ObservedBehind'
    <2> SUFFICES ASSUME NEW o \in Observations' PROVE Behind(o)'
      BY DEF ObservedBehind
    <2>1. CASE o \in Observations
      <3>1. Behind(o)
        BY <2>1 DEF Inv, ObservedBehind
      <3>2. o \in Observed
        BY <2>1 DEF Inv, Typed, Observations, InBeats, Requests, Glimpses
      <3>3. o.generation \in Nat /\ agent.generation \in Nat /\ agent'.generation \in Nat
        BY <1>1, <3>2, Bounds DEF Observed, Agents
      <3> QED BY <3>1, <3>3 DEF Behind
    <2> QED BY <2>1
  <1>5. GoneApplied'
    <2> SUFFICES ASSUME NEW i \in Inbounds, inbounds[i].is = "gone"
                 PROVE  inbounds[i].at <= agent'.generation
      BY DEF GoneApplied
    <2>1. inbounds[i].at <= agent.generation
      BY DEF Inv, GoneApplied
    <2>2. inbounds[i].at \in Nat /\ agent.generation \in Nat /\ agent'.generation \in Nat
      BY <1>1, Bounds DEF Lines, Agents
    <2> QED BY <2>1, <2>2
  <1>6. TasksKnown'
    BY DEF Inv, TasksKnown
  <1>7. ResultsTrue'
    <2>1. \A r : TrueResult(r) => TrueResult(r)'
      BY <1>1 DEF TrueResult, Did, Agents
    <2> QED BY <2>1 DEF Inv, ResultsTrue
  <1>8. ConfirmedRecorded'
    BY DEF Inv, ConfirmedRecorded, Recorded
  <1>9. AllTruthful'
    <2> SUFFICES ASSUME NEW id \in OperationIds PROVE Truthful(operations[id])'
      BY DEF AllTruthful
    <2>1. Truthful(operations[id])
      BY DEF Inv, AllTruthful
    <2>2. operations[id].generation \in Nat /\ agent.generation \in Nat /\ agent'.generation \in Nat
      BY <1>1, Bounds DEF Rows, Agents
    <2> QED BY <2>1, <2>2 DEF Truthful
  <1> QED BY <1>2, <1>3, <1>4, <1>5, <1>6, <1>7, <1>8, <1>9 DEF Inv

\* A step of the Agent that leaves what is on disk alone.
LEMMA AgentStays ==
  ASSUME Inv, Typed', UNCHANGED <<deployment, inbounds, operations>>,
         agent'.generation = agent.generation, agent'.version = agent.version,
         agent'.config = agent.config, agent.artifact = TRUE => agent'.artifact = TRUE,
         Circulating' \subseteq Circulating,
         \A o \in Observations' : o \in Observations \/ Behind(o)',
         Assigned' \subseteq Assigned,
         \A r \in Results' : r \in Results \/ TrueResult(r)',
         Confirmed' \subseteq Confirmed
  PROVE  Inv'
  <1>1. agent.generation \in Nat
    BY Bounds DEF Inv, Typed, Agents
  <1>2. /\ agent.generation <= agent'.generation
        /\ agent'.generation <= deployment.generation
        /\ Dated(agent'.generation, agent'.config)
        /\ agent'.version = "none" => agent'.generation = 0
    BY <1>1 DEF Inv, AgentDated
  <1> QED BY <1>2, AgentMoves

\* A row of xray_inbounds goes forward only.
Onward(i) ==
  \/ inbounds'[i] = inbounds[i]
  \/ inbounds[i].is = "absent" /\ inbounds'[i].is = "live"
  \/ inbounds[i].is = "live" /\ inbounds'[i].is = "deleting" /\ inbounds'[i].at > deployment.generation
  \/ inbounds[i].is = "deleting" /\ inbounds'[i].is = "gone" /\ inbounds'[i].at = inbounds[i].at
       /\ inbounds[i].at <= agent.generation

\* A step of the panel: rows go forward, and what it makes up is true.
LEMMA PanelMoves ==
  ASSUME Inv, Typed', UNCHANGED agent, deployment.generation <= deployment'.generation,
         \A i \in Inbounds : Onward(i),
         deployment'.hash \subseteq {Configuration'},
         \A d \in Circulating' : \/ d \in Circulating
                                 \/ d.generation = deployment'.generation /\ d.config = Configuration',
         Observations' \subseteq Observations,
         \A id \in OperationIds :
           /\ operations[id].type \in Types => operations'[id].type = operations[id].type
           /\ Recorded(operations[id]) => Recorded(operations[id])'
           /\ Truthful(operations[id])',
         \A t \in Assigned' : t \in Assigned \/ operations'[t.id].type = t.type,
         Results' \subseteq Results,
         \A id \in Confirmed' : id \in Confirmed \/ Recorded(operations[id])'
  PROVE  Inv'
  <1>1. /\ agent \in Agents /\ deployment \in Deployments /\ deployment' \in Deployments
        /\ inbounds \in [Inbounds -> Lines] /\ inbounds' \in [Inbounds -> Lines]
        /\ operations' \in [OperationIds -> Rows]
    BY DEF Inv, Typed
  <1>2. /\ deployment.generation \in Nat /\ deployment'.generation \in Nat
        /\ \A i \in Inbounds : inbounds[i].at \in Nat /\ inbounds'[i].at \in Nat
    BY <1>1, Bounds DEF Deployments, Lines
  <1>3. ASSUME NEW g \in Nat, g <= deployment.generation, NEW c \in Configs, Dated(g, c)
        PROVE  Dated(g, c)'
    <2> SUFFICES ASSUME NEW i \in c
                 PROVE  /\ inbounds'[i].is # "absent"
                        /\ inbounds'[i].is \in {"deleting", "gone"} => g < inbounds'[i].at
      BY DEF Dated
    <2>1. i \in Inbounds
      BY DEF Configs
    <2>2. inbounds[i].is # "absent" /\ (inbounds[i].is \in {"deleting", "gone"} => g < inbounds[i].at)
      BY <1>3 DEF Dated
    <2>3. Onward(i)
      BY <2>1
    <2> QED BY <1>2, <1>3, <2>1, <2>2, <2>3 DEF Onward
  <1>4. DesiredDated'
    <2> SUFFICES ASSUME NEW d \in Circulating'
                 PROVE  d.generation <= deployment'.generation /\ Dated(d.generation, d.config)'
      BY DEF DesiredDated
    <2>1. CASE d \in Circulating
      <3>1. d \in Desired
        BY <2>1 DEF Inv, Typed, Circulating, InBeats, Agents, Requests
      <3>2. d.generation \in Nat /\ d.config \in Configs
        BY <3>1, Bounds DEF Desired
      <3>3. d.generation <= deployment.generation /\ Dated(d.generation, d.config)
        BY <2>1 DEF Inv, DesiredDated
      <3>4. d.generation <= deployment'.generation
        BY <1>2, <3>2, <3>3
      <3> QED BY <1>3, <3>2, <3>3, <3>4
    <2>2. CASE d.generation = deployment'.generation /\ d.config = Configuration'
      <3>1. \A i \in Configuration' : inbounds'[i].is = "live"
        BY DEF Configuration, Live
      <3>2. Dated(d.generation, d.config)'
        BY <2>2, <3>1 DEF Dated
      <3> QED BY <1>2, <2>2, <3>2
    <2> QED BY <2>1, <2>2
  <1>5. AgentDated'
    <2>1. agent.generation \in Nat /\ agent.config \in Configs
      BY <1>1, Bounds DEF Agents
    <2>2. /\ agent.generation <= deployment.generation /\ Dated(agent.generation, agent.config)
          /\ agent.version = "none" => agent.generation = 0
      BY DEF Inv, AgentDated
    <2>3. agent.generation <= deployment'.generation
      BY <1>2, <2>1, <2>2
    <2>4. Dated(agent.generation, agent.config)'
      <3>1. PICK g \in Nat : g = agent.generation
        BY <2>1
      <3>2. PICK c \in Configs : c = agent.config
        BY <2>1
      <3>3. Dated(g, c)'
        BY <1>3, <2>2, <3>1, <3>2
      <3> QED BY <3>1, <3>2, <3>3 DEF Dated
    <2> QED BY <2>2, <2>3, <2>4 DEF AgentDated
  <1>6. ObservedBehind'
    BY DEF Inv, ObservedBehind, Behind
  <1>7. GoneApplied'
    BY DEF Inv, GoneApplied, Onward
  <1>8. \A t \in Assigned : t.id \in OperationIds /\ t.type \in Types
    <2>1. agent.queue \in Seq(Tasks) /\ \A b \in Beats : beats[b].task \subseteq Tasks
      BY <1>1 DEF Inv, Typed, Agents, Requests
    <2>2. \A t \in Assigned : t \in Tasks
      BY <2>1, ElementOfSeq DEF Assigned, InBeats
    <2> QED BY <2>2 DEF Tasks
  <1>9. TasksKnown'
    BY <1>8 DEF Inv, TasksKnown
  <1>10. \A r \in Results : r.id \in OperationIds
    BY DEF Inv, Typed, Requests, Results, Kept, InBeats, Reported
  <1>11. ResultsTrue'
    BY <1>10 DEF Inv, ResultsTrue, TrueResult, Did
  <1>12. \A id \in Confirmed : id \in OperationIds
    BY DEF Inv, Typed, Requests, Confirmed, InBeats
  <1>13. ConfirmedRecorded'
    BY <1>12 DEF Inv, ConfirmedRecorded
  <1>14. AllTruthful'
    BY DEF AllTruthful
  <1> QED BY <1>4, <1>5, <1>6, <1>7, <1>9, <1>11, <1>13, <1>14 DEF Inv

-----------------------------------------------------------------------------
(* The heartbeats. *)

LEMMA OneBeat ==
  ASSUME beats \in [Beats -> Requests], NEW b \in Beats, NEW r \in Requests,
         beats' = [beats EXCEPT ![b] = r]
  PROVE  /\ beats' \in [Beats -> Requests]
         /\ \A x \in InBeats("desired")' : x \in InBeats("desired") \/ x \in r.desired
         /\ \A x \in InBeats("report")' : x \in InBeats("report") \/ x \in r.report
         /\ \A x \in InBeats("task")' : x \in InBeats("task") \/ x \in r.task
         /\ \A x \in InBeats("results")' : x \in InBeats("results") \/ x \in r.results
         /\ \A x \in InBeats("accepted")' : x \in InBeats("accepted") \/ x \in r.accepted
  <1>1. beats' \in [Beats -> Requests] /\ beats'[b] = r
        /\ \A c \in Beats : c # b => beats'[c] = beats[c]
    OBVIOUS
  <1> QED BY <1>1 DEF InBeats

\* A heartbeat's content is that of the beats.
LEMMA OfBeat ==
  ASSUME beats \in [Beats -> Requests], NEW b \in Beats
  PROVE  /\ beats[b] \in Requests
         /\ beats[b].desired \subseteq InBeats("desired")
         /\ beats[b].report \subseteq InBeats("report")
         /\ beats[b].task \subseteq InBeats("task")
         /\ beats[b].results \subseteq InBeats("results")
         /\ beats[b].accepted \subseteq InBeats("accepted")
  BY DEF InBeats

\* An abandoned heartbeat carries no more than before.
LEMMA AbandonedBeats ==
  ASSUME beats \in [Beats -> Requests], beats' = Abandoned(beats)
  PROVE  /\ beats' \in [Beats -> Requests]
         /\ InBeats("desired")' \subseteq InBeats("desired")
         /\ InBeats("report")' \subseteq InBeats("report")
         /\ InBeats("task")' \subseteq InBeats("task")
         /\ InBeats("results")' \subseteq InBeats("results")
         /\ InBeats("accepted")' \subseteq InBeats("accepted")
  <1>1. ASSUME NEW b \in Beats
        PROVE  /\ beats'[b] \in Requests
               /\ beats'[b].desired \subseteq beats[b].desired
               /\ beats'[b].report \subseteq beats[b].report
               /\ beats'[b].task \subseteq beats[b].task
               /\ beats'[b].results \subseteq beats[b].results
               /\ beats'[b].accepted \subseteq beats[b].accepted
    <2>1. CASE beats[b].pc = "answer"
      <3>1. beats'[b] = Idle
        BY <2>1 DEF Abandoned
      <3> QED BY <3>1, IdleTyped
    <2>2. CASE beats[b].pc # "answer"
      <3>1. PICK s \in Requests : s = beats[b]
        OBVIOUS
      <3>2. PICK f \in BOOLEAN : f = (s.full /\ s.pc = "receive")
        OBVIOUS
      <3>3. beats'[b] = [s EXCEPT !.accepted = {}, !.task = {}, !.full = f]
        BY <2>2, <3>1, <3>2 DEF Abandoned
      <3> QED BY <3>1, <3>3 DEF Requests
    <2> QED BY <2>1, <2>2
  <1>2. beats' \in [Beats -> Requests]
    <2>1. beats' = [b \in Beats |-> beats'[b]]
      BY DEF Abandoned
    <2> QED BY <1>1, <2>1
  <1> QED BY <1>1, <1>2 DEF InBeats

-----------------------------------------------------------------------------
(* The Agent. *)

\* What it has on disk, and in its queue.
SameDisk(a, x) ==
  /\ x.version = a.version /\ x.artifact = a.artifact
  /\ x.generation = a.generation /\ x.config = a.config
SameWork(a, x) == x.queue = a.queue /\ x.results = a.results
SameJobs(a, x) == x.job = a.job /\ x.pending = a.pending

LEMMA AskedTyped ==
  ASSUME NEW a \in Agents
  PROVE  Asked(a) \in Agents /\ SameDisk(a, Asked(a)) /\ SameWork(a, Asked(a)) /\ SameJobs(a, Asked(a))
  <1>1. PICK f \in BOOLEAN : f = (a.waits # 0)
    OBVIOUS
  <1>2. Asked(a) = [a EXCEPT !.sent = {}, !.fresh = f]
    BY <1>1 DEF Asked
  <1>3. Asked(a) \in Agents
    BY <1>2 DEF Agents
  <1> QED BY <1>2, <1>3 DEF Agents, SameDisk, SameWork, SameJobs

LEMMA FailedAtTyped ==
  ASSUME NEW a \in Agents, NEW g \in Marks
  PROVE  /\ FailedAt(a, g) \in Agents /\ SameDisk(a, FailedAt(a, g))
         /\ SameWork(a, FailedAt(a, g)) /\ SameJobs(a, FailedAt(a, g))
  <1> DEFINE x == [a EXCEPT !.failure = g]
  <1>1. x \in Agents /\ SameDisk(a, x) /\ SameWork(a, x) /\ SameJobs(a, x)
    BY DEF Agents, SameDisk, SameWork, SameJobs
  <1>2. FailedAt(a, g) = Asked(x)
    BY DEF FailedAt
  <1> HIDE DEF x
  <1>3. Asked(x) \in Agents /\ SameDisk(x, Asked(x)) /\ SameWork(x, Asked(x)) /\ SameJobs(x, Asked(x))
    BY <1>1, AskedTyped
  <1> QED BY <1>1, <1>2, <1>3 DEF SameDisk, SameWork, SameJobs

LEMMA ScheduleTyped ==
  ASSUME NEW a \in Agents, NEW d \in Desired, AtMostOne(a.job), AtMostOne(a.pending)
  PROVE  LET x == Schedule(a, d) IN
         /\ x \in Agents /\ SameDisk(a, x) /\ SameWork(a, x)
         /\ AtMostOne(x.job) /\ AtMostOne(x.pending)
         /\ x.job \subseteq a.job \cup {d} /\ x.pending \subseteq a.pending \cup {d}
  <1> DEFINE x == Schedule(a, d)
             Good == /\ x \in Agents /\ SameDisk(a, x) /\ SameWork(a, x)
                     /\ AtMostOne(x.job) /\ AtMostOne(x.pending)
                     /\ x.job \subseteq a.job \cup {d} /\ x.pending \subseteq a.pending \cup {d}
  <1>1. PICK g \in Marks : g = d.generation
    BY Bounds DEF Desired
  <1>2. PICK J \in SUBSET Desired : J = {d}
    OBVIOUS
  <1>3. AtMostOne(J)
    BY <1>2 DEF AtMostOne
  <1>4. ASSUME x = a PROVE Good
    BY <1>4 DEF SameDisk, SameWork
  <1>5. ASSUME x = FailedAt(a, g) PROVE Good
    <2>1. /\ FailedAt(a, g) \in Agents /\ SameDisk(a, FailedAt(a, g))
          /\ SameWork(a, FailedAt(a, g)) /\ SameJobs(a, FailedAt(a, g))
      BY FailedAtTyped
    <2> HIDE DEF x
    <2>2. x \in Agents /\ SameDisk(a, x) /\ SameWork(a, x) /\ x.job = a.job /\ x.pending = a.pending
      BY <1>5, <2>1 DEF SameJobs
    <2> QED BY <2>2
  <1>6. ASSUME x = [a EXCEPT !.highest = g, !.job = J] PROVE Good
    <2> HIDE DEF x
    <2>1. x \in Agents
      BY <1>6 DEF Agents
    <2>2. SameDisk(a, x) /\ SameWork(a, x) /\ x.job = J /\ x.pending = a.pending
      BY <1>6 DEF Agents, SameDisk, SameWork
    <2> QED BY <1>2, <1>3, <2>1, <2>2
  <1>7. ASSUME x = [a EXCEPT !.highest = g, !.pending = J] PROVE Good
    <2> HIDE DEF x
    <2>1. x \in Agents
      BY <1>7 DEF Agents
    <2>2. SameDisk(a, x) /\ SameWork(a, x) /\ x.job = a.job /\ x.pending = J
      BY <1>7 DEF Agents, SameDisk, SameWork
    <2> QED BY <1>2, <1>3, <2>1, <2>2
  <1>8. ASSUME x = [a EXCEPT !.highest = g] PROVE Good
    <2> HIDE DEF x
    <2>1. x \in Agents
      BY <1>8 DEF Agents
    <2>2. SameDisk(a, x) /\ SameWork(a, x) /\ x.job = a.job /\ x.pending = a.pending
      BY <1>8 DEF Agents, SameDisk, SameWork
    <2> QED BY <2>1, <2>2
  <1>9. \/ x = a \/ x = FailedAt(a, g) \/ x = [a EXCEPT !.highest = g, !.job = J]
        \/ x = [a EXCEPT !.highest = g, !.pending = J] \/ x = [a EXCEPT !.highest = g]
    BY <1>1, <1>2 DEF Schedule
  <1>10. Good
    <2> HIDE DEF x, Good
    <2> QED BY <1>4, <1>5, <1>6, <1>7, <1>8, <1>9
  <1> QED BY <1>10

LEMMA AcknowledgedTyped ==
  ASSUME NEW a \in Agents, NEW r \in Requests
  PROVE  LET x == Acknowledged(a, r) IN
         /\ x \in Agents /\ SameDisk(a, x) /\ SameJobs(a, x) /\ x.queue = a.queue
         /\ \A id \in OperationIds : x.results[id] = IF id \in r.accepted THEN "none" ELSE a.results[id]
  <1>1. PICK s \in SUBSET Observed : s = (IF r.full /\ ~a.fresh THEN r.report ELSE a.sent)
    BY DEF Agents, Requests, Glimpses
  <1> DEFINE m == [id \in OperationIds |-> IF id \in r.accepted THEN "none" ELSE a.results[id]]
  <1>2. m \in [OperationIds -> {"none", "SUCCESS", "FAILED"}]
    BY DEF Agents
  <1>3. PICK w \in {0} \cup Beats : w = 0
    OBVIOUS
  <1>4. Acknowledged(a, r) = [a EXCEPT !.waits = w, !.fresh = FALSE, !.sent = s, !.results = m]
    BY <1>1, <1>3 DEF Acknowledged
  <1>5. \A id \in OperationIds : m[id] = IF id \in r.accepted THEN "none" ELSE a.results[id]
    OBVIOUS
  <1> HIDE DEF m
  <1>6. PICK x : x = Acknowledged(a, r)
    OBVIOUS
  <1>7. x \in Agents
    BY <1>2, <1>4, <1>6 DEF Agents
  <1>8. SameDisk(a, x) /\ SameJobs(a, x) /\ x.queue = a.queue /\ x.results = m
    BY <1>4, <1>6 DEF Agents, SameDisk, SameJobs
  <1> QED BY <1>5, <1>6, <1>7, <1>8

LEMMA EnqueuedTyped ==
  ASSUME NEW a \in Agents, NEW T \in SUBSET Tasks, Len(a.queue) <= QueueSize
  PROVE  LET x == Enqueued(a, T) IN
         /\ x \in Agents /\ SameDisk(a, x) /\ SameJobs(a, x) /\ x.results = a.results
         /\ Len(x.queue) <= QueueSize
         /\ \A n \in 1 .. Len(x.queue) : x.queue[n] \in T \/ \E m \in 1 .. Len(a.queue) : x.queue[n] = a.queue[m]
  <1>1. CASE T = {} \/ Len(a.queue) >= QueueSize
    <2>1. Enqueued(a, T) = a
      BY <1>1 DEF Enqueued
    <2> QED BY <2>1 DEF SameDisk, SameJobs
  <1>2. CASE ~(T = {} \/ Len(a.queue) >= QueueSize)
    <2>1. PICK t \in T : t = CHOOSE u \in T : TRUE
      BY <1>2
    <2>2. a.queue \in Seq(Tasks) /\ t \in Tasks
      BY DEF Agents
    <2>3. PICK q \in Seq(Tasks) : q = Append(a.queue, t)
      BY <2>2, AppendProperties
    <2>4. /\ Len(q) = Len(a.queue) + 1 /\ Len(a.queue) \in Nat
          /\ \A n \in 1 .. Len(a.queue) : q[n] = a.queue[n]
          /\ q[Len(a.queue) + 1] = t
      BY <2>2, <2>3, AppendProperties, LenProperties
    <2>5. Len(q) <= QueueSize
      BY <1>2, <2>4, Bounds
    <2>6. \A n \in 1 .. Len(q) : q[n] \in T \/ \E m \in 1 .. Len(a.queue) : q[n] = a.queue[m]
      <3> SUFFICES ASSUME NEW n \in 1 .. Len(q)
                   PROVE  q[n] \in T \/ \E m \in 1 .. Len(a.queue) : q[n] = a.queue[m]
        OBVIOUS
      <3>1. n \in 1 .. Len(a.queue) \/ n = Len(a.queue) + 1
        BY <2>4
      <3> QED BY <2>4, <3>1
    <2>7. PICK x : x = Enqueued(a, T)
      OBVIOUS
    <2>8. x = [a EXCEPT !.queue = q]
      BY <1>2, <2>1, <2>3, <2>7 DEF Enqueued
    <2>9. x \in Agents /\ SameDisk(a, x) /\ SameJobs(a, x) /\ x.results = a.results /\ x.queue = q
      BY <2>8 DEF Agents, SameDisk, SameJobs
    <2> QED BY <2>5, <2>6, <2>7, <2>9
  <1> QED BY <1>1, <1>2

LEMMA FaultTyped ==
  ASSUME Inv, Fault \/ UNCHANGED faults
  PROVE  faults' \in 0 .. MaxFaults
  BY Bounds DEF Inv, Typed, Fault

LEMMA AgentTyped ==
  ASSUME Inv, agent' \in Agents, AtMostOne(agent'.job), AtMostOne(agent'.pending),
         Len(agent'.queue) <= QueueSize,
         UNCHANGED <<deployment, inbounds, operations, report>>,
         beats' \in [Beats -> Requests], wire' \subseteq Desired, Fault \/ UNCHANGED faults
  PROVE  Typed'
  <1>1. faults' \in 0 .. MaxFaults
    BY FaultTyped
  <1> QED BY <1>1 DEF Inv, Typed, Row

\* Results only get lost.
LEMMA KeptLess ==
  ASSUME agent \in Agents, agent' \in Agents,
         \A id \in OperationIds : agent'.results[id] \in {agent.results[id], "none"}
  PROVE  Kept' \subseteq Kept
  BY DEF Kept, Agents

\* The queue only gets shorter.
LEMMA QueueTail ==
  ASSUME NEW q \in Seq(Tasks), q # <<>>
  PROVE  /\ Head(q) \in Tasks /\ Head(q) \in {q[n] : n \in 1 .. Len(q)}
         /\ Tail(q) \in Seq(Tasks) /\ Len(Tail(q)) = Len(q) - 1 /\ Len(q) \in Nat
         /\ {Tail(q)[n] : n \in 1 .. Len(Tail(q))} \subseteq {q[n] : n \in 1 .. Len(q)}
  <1>1. /\ Head(q) \in Tasks /\ Tail(q) \in Seq(Tasks) /\ Len(Tail(q)) = Len(q) - 1
        /\ \A i \in 1 .. Len(Tail(q)) : Tail(q)[i] = q[i + 1]
    BY HeadTailProperties
  <1>2. Len(q) \in Nat \ {0}
    BY EmptySeq
  <1>3. Head(q) = q[1]
    OBVIOUS
  <1>4. \A i \in 1 .. Len(Tail(q)) : i + 1 \in 1 .. Len(q)
    BY <1>1, <1>2
  <1> QED BY <1>1, <1>2, <1>3, <1>4

LEMMA BeatInv ==
  ASSUME Inv, Beat
  PROVE  Inv'
  <1>1. PICK b \in Beats, full \in BOOLEAN :
          /\ beats' = [beats EXCEPT ![b] = [Idle EXCEPT
               !.pc = "receive", !.report = {Observe}, !.results = Submitted, !.full = full]]
          /\ agent' = [agent EXCEPT !.waits = b, !.fresh = FALSE]
          /\ Fault \/ UNCHANGED faults
          /\ UNCHANGED <<deployment, inbounds, operations, report, wire>>
    BY DEF Beat
  <1>2. agent \in Agents /\ beats \in [Beats -> Requests]
    BY DEF Inv, Typed
  <1>3. /\ agent' \in Agents /\ SameDisk(agent, agent') /\ SameWork(agent, agent')
        /\ SameJobs(agent, agent')
    BY <1>1, <1>2 DEF Agents, SameDisk, SameWork, SameJobs
  <1>4. Observe \in Observed /\ Observe.generation = agent.generation
        /\ (Observe.hash # {} => Observe.version = agent.version)
    BY <1>2, ObserveTyped
  <1>5. Submitted \subseteq Kept
    BY DEF Submitted, Kept
  <1>6. Submitted \in SUBSET Reported
    BY <1>2, <1>5 DEF Kept, Reported, Agents
  <1>7. PICK O \in Glimpses : O = {Observe}
    BY <1>4 DEF Glimpses, AtMostOne
  <1>8. PICK S \in SUBSET Reported : S = Submitted
    BY <1>6
  <1> DEFINE r == [Idle EXCEPT !.pc = "receive", !.report = O, !.results = S, !.full = full]
  <1>9. r \in Requests /\ r.desired = {} /\ r.report = O /\ r.task = {} /\ r.results = S /\ r.accepted = {}
    BY IdleTyped DEF Requests
  <1>10. beats' = [beats EXCEPT ![b] = r]
    BY <1>1, <1>7, <1>8
  <1> HIDE DEF r
  <1>11. /\ beats' \in [Beats -> Requests]
         /\ \A x \in InBeats("desired")' : x \in InBeats("desired")
         /\ \A x \in InBeats("report")' : x \in InBeats("report") \/ x = Observe
         /\ \A x \in InBeats("task")' : x \in InBeats("task")
         /\ \A x \in InBeats("results")' : x \in InBeats("results") \/ x \in Kept
         /\ \A x \in InBeats("accepted")' : x \in InBeats("accepted")
    BY <1>2, <1>5, <1>7, <1>8, <1>9, <1>10, OneBeat
  <1>12. Typed'
    <2>1. AtMostOne(agent'.job) /\ AtMostOne(agent'.pending) /\ Len(agent'.queue) <= QueueSize
          /\ wire' \subseteq Desired
      BY <1>1, <1>3 DEF Inv, Typed, SameJobs, SameWork
    <2> QED BY <1>1, <1>3, <1>11, <2>1, AgentTyped
  <1>13. Circulating' \subseteq Circulating
    BY <1>1, <1>3, <1>11 DEF Circulating, SameJobs
  <1>14. \A o \in Observations' : o \in Observations \/ Behind(o)'
    <2> SUFFICES ASSUME NEW o \in Observations', o \notin Observations PROVE Behind(o)'
      OBVIOUS
    <2>1. o = Observe
      BY <1>1, <1>11 DEF Observations
    <2>2. agent.generation \in Nat
      BY <1>2, Bounds DEF Agents
    <2> QED BY <1>3, <1>4, <2>1, <2>2 DEF Behind, SameDisk
  <1>15. Assigned' \subseteq Assigned
    BY <1>3, <1>11 DEF Assigned, SameWork
  <1>16. Results' \subseteq Results
    BY <1>3, <1>11 DEF Results, Kept, SameWork
  <1>17. Confirmed' \subseteq Confirmed
    BY <1>11 DEF Confirmed
  <1> QED BY <1>1, <1>3, <1>12, <1>13, <1>14, <1>15, <1>16, <1>17, AgentStays DEF SameDisk

LEMMA AnswerInv ==
  ASSUME Inv, NEW b \in Beats, Answer(b)
  PROVE  Inv'
  <1>1. agent \in Agents /\ beats \in [Beats -> Requests]
        /\ AtMostOne(agent.job) /\ AtMostOne(agent.pending) /\ Len(agent.queue) <= QueueSize
    BY DEF Inv, Typed
  <1>2. PICK r \in Requests : r = beats[b]
    BY <1>1
  <1>3. PICK x \in Agents : x = Acknowledged(agent, r)
    BY <1>1, AcknowledgedTyped
  <1>4. /\ SameDisk(agent, x) /\ SameJobs(agent, x) /\ x.queue = agent.queue
        /\ \A id \in OperationIds : x.results[id] \in {agent.results[id], "none"}
    <2>1. /\ SameDisk(agent, x) /\ SameJobs(agent, x) /\ x.queue = agent.queue
          /\ \A id \in OperationIds : x.results[id] = IF id \in r.accepted THEN "none" ELSE agent.results[id]
      BY <1>1, <1>3, AcknowledgedTyped
    <2> QED BY <2>1
  <1>5. r.task \in SUBSET Tasks /\ Len(x.queue) <= QueueSize
    BY <1>1, <1>4 DEF Requests
  <1>6. PICK a \in Agents : a = Enqueued(x, r.task)
    BY <1>5, EnqueuedTyped
  <1>7. /\ SameDisk(x, a) /\ SameJobs(x, a) /\ a.results = x.results /\ Len(a.queue) <= QueueSize
        /\ \A n \in 1 .. Len(a.queue) :
             a.queue[n] \in r.task \/ \E m \in 1 .. Len(x.queue) : a.queue[n] = x.queue[m]
    BY <1>5, <1>6, EnqueuedTyped
  <1>8. /\ agent' = IF r.ask THEN Asked(a)
                    ELSE IF r.desired = {} THEN a ELSE Schedule(a, CHOOSE d \in r.desired : TRUE)
        /\ beats' = [beats EXCEPT ![b] = Idle]
        /\ UNCHANGED <<deployment, inbounds, operations, report, wire, faults>>
    BY <1>2, <1>3, <1>6 DEF Answer
  <1>9. AtMostOne(a.job) /\ AtMostOne(a.pending)
    BY <1>1, <1>4, <1>7 DEF SameJobs
  <1>10. /\ agent' \in Agents /\ SameDisk(a, agent') /\ SameWork(a, agent')
         /\ AtMostOne(agent'.job) /\ AtMostOne(agent'.pending)
         /\ agent'.job \subseteq a.job \cup r.desired /\ agent'.pending \subseteq a.pending \cup r.desired
    <2>1. CASE r.ask
      BY <1>8, <1>9, <2>1, AskedTyped DEF SameJobs
    <2>2. CASE ~r.ask /\ r.desired = {}
      BY <1>8, <1>9, <2>2 DEF SameDisk, SameWork
    <2>3. CASE ~r.ask /\ r.desired # {}
      <3>1. PICK d \in r.desired : d = CHOOSE e \in r.desired : TRUE
        BY <2>3
      <3>2. d \in Desired
        BY DEF Requests
      <3>3. agent' = Schedule(a, d)
        BY <1>8, <2>3, <3>1
      <3> QED BY <1>9, <3>2, <3>3, ScheduleTyped
    <2> QED BY <2>1, <2>2, <2>3
  <1>11. /\ beats' \in [Beats -> Requests]
         /\ InBeats("desired")' \subseteq InBeats("desired")
         /\ InBeats("report")' \subseteq InBeats("report")
         /\ InBeats("task")' \subseteq InBeats("task")
         /\ InBeats("results")' \subseteq InBeats("results")
         /\ InBeats("accepted")' \subseteq InBeats("accepted")
    BY <1>1, <1>8, IdleTyped, OneBeat
  <1>12. Typed'
    <2>1. wire' \subseteq Desired /\ Len(agent'.queue) <= QueueSize
      BY <1>7, <1>8, <1>10 DEF Inv, Typed, SameWork
    <2> QED BY <1>8, <1>10, <1>11, <2>1, AgentTyped
  <1>13. Circulating' \subseteq Circulating
    <2>1. r.desired \subseteq InBeats("desired")
      BY <1>1, <1>2, OfBeat
    <2> QED BY <1>4, <1>7, <1>8, <1>10, <1>11, <2>1 DEF Circulating, SameJobs
  <1>14. Observations' \subseteq Observations
    BY <1>8, <1>11 DEF Observations
  <1>15. Assigned' \subseteq Assigned
    <2>1. r.task \subseteq InBeats("task")
      BY <1>1, <1>2, OfBeat
    <2>2. agent'.queue = a.queue /\ x.queue = agent.queue
      BY <1>4, <1>10 DEF SameWork
    <2> QED BY <1>7, <1>11, <2>1, <2>2 DEF Assigned
  <1>16. Results' \subseteq Results
    <2>1. \A id \in OperationIds : agent'.results[id] \in {agent.results[id], "none"}
      BY <1>4, <1>7, <1>10 DEF SameWork
    <2>2. Kept' \subseteq Kept
      BY <1>1, <1>10, <2>1, KeptLess
    <2> QED BY <1>11, <2>2 DEF Results
  <1>17. Confirmed' \subseteq Confirmed
    BY <1>11 DEF Confirmed
  <1>18. SameDisk(agent, agent')
    BY <1>4, <1>7, <1>10 DEF SameDisk
  <1> QED BY <1>8, <1>12, <1>13, <1>14, <1>15, <1>16, <1>17, <1>18, AgentStays DEF SameDisk

LEMMA PushInv ==
  ASSUME Inv, NEW d \in wire, Push(d)
  PROVE  Inv'
  <1>1. agent \in Agents /\ d \in Desired /\ AtMostOne(agent.job) /\ AtMostOne(agent.pending)
    BY DEF Inv, Typed
  <1>2. /\ agent' = Schedule(agent, d) /\ wire' = wire \ {d}
        /\ UNCHANGED <<deployment, inbounds, operations, report, beats, faults>>
    BY DEF Push
  <1>3. /\ agent' \in Agents /\ SameDisk(agent, agent') /\ SameWork(agent, agent')
        /\ AtMostOne(agent'.job) /\ AtMostOne(agent'.pending)
        /\ agent'.job \subseteq agent.job \cup {d} /\ agent'.pending \subseteq agent.pending \cup {d}
    BY <1>1, <1>2, ScheduleTyped
  <1>4. Typed'
    <2>1. Len(agent'.queue) <= QueueSize /\ wire' \subseteq Desired /\ beats' \in [Beats -> Requests]
      BY <1>2, <1>3 DEF Inv, Typed, SameWork
    <2> QED BY <1>2, <1>3, <2>1, AgentTyped
  <1>5. Circulating' \subseteq Circulating
    BY <1>2, <1>3 DEF Circulating, InBeats
  <1>6. Observations' \subseteq Observations /\ Confirmed' \subseteq Confirmed
    BY <1>2 DEF Observations, Confirmed, InBeats
  <1>7. Assigned' \subseteq Assigned /\ Results' \subseteq Results
    BY <1>2, <1>3 DEF Assigned, Results, Kept, InBeats, SameWork
  <1> QED BY <1>2, <1>3, <1>4, <1>5, <1>6, <1>7, AgentStays DEF SameDisk

LEMMA NextJobTyped ==
  ASSUME NEW a \in Agents
  PROVE  LET x == NextJob(a) IN
         /\ x \in Agents /\ SameDisk(a, x) /\ SameWork(a, x) /\ x.job = a.pending /\ x.pending = {}
  <1>1. PICK y : y = [a EXCEPT !.job = a.pending, !.pending = {}]
    OBVIOUS
  <1>2. y \in Agents
    BY <1>1 DEF Agents
  <1>3. SameDisk(a, y) /\ SameWork(a, y) /\ y.job = a.pending /\ y.pending = {}
    BY <1>1 DEF Agents, SameDisk, SameWork
  <1>4. Asked(y) \in Agents /\ SameDisk(y, Asked(y)) /\ SameWork(y, Asked(y)) /\ SameJobs(y, Asked(y))
    BY <1>2, AskedTyped
  <1>5. NextJob(a) = Asked(y)
    BY <1>1 DEF NextJob
  <1> QED BY <1>3, <1>4, <1>5 DEF SameDisk, SameWork, SameJobs

\* An application that fails, is refused, or has nothing to do.
LEMMA JobEnds ==
  ASSUME Inv, NEW a \in Agents, SameDisk(agent, a), SameWork(agent, a), SameJobs(agent, a),
         agent' = NextJob(a), Fault \/ UNCHANGED faults,
         UNCHANGED <<deployment, inbounds, operations, report, beats, wire>>
  PROVE  Inv'
  <1>1. /\ agent' \in Agents /\ SameDisk(a, agent') /\ SameWork(a, agent')
        /\ agent'.job = a.pending /\ agent'.pending = {}
    BY NextJobTyped
  <1>2. SameDisk(agent, agent') /\ SameWork(agent, agent') /\ agent'.job = agent.pending
    BY <1>1 DEF SameDisk, SameWork, SameJobs
  <1>3. Typed'
    <2>1. /\ AtMostOne(agent'.job) /\ AtMostOne(agent'.pending) /\ Len(agent'.queue) <= QueueSize
          /\ beats' \in [Beats -> Requests] /\ wire' \subseteq Desired
      BY <1>1, <1>2 DEF Inv, Typed, SameWork, AtMostOne
    <2> QED BY <1>1, <2>1, AgentTyped
  <1>4. Circulating' \subseteq Circulating
    BY <1>1, <1>2 DEF Circulating, InBeats
  <1>5. Observations' \subseteq Observations /\ Confirmed' \subseteq Confirmed
    BY DEF Observations, Confirmed, InBeats
  <1>6. Assigned' \subseteq Assigned /\ Results' \subseteq Results
    BY <1>2 DEF Assigned, Results, Kept, InBeats, SameWork
  <1> QED BY <1>2, <1>3, <1>4, <1>5, <1>6, AgentStays DEF SameDisk

LEMMA RunJobInv ==
  ASSUME Inv, RunJob
  PROVE  Inv'
  <1>1. PICK d \in agent.job : Apply(d)
    BY DEF RunJob
  <1>2. UNCHANGED <<deployment, inbounds, operations, report, beats, wire>>
    BY DEF RunJob
  <1>3. agent \in Agents
    BY DEF Inv, Typed
  <1>4. d \in Desired
    BY <1>3 DEF Agents
  <1>5. /\ d.generation \in Generations /\ d.config \in Configs /\ d.generation \in Nat
        /\ agent.generation \in Nat /\ d.generation \in Marks
    BY <1>3, <1>4, Bounds DEF Desired, Agents
  <1>6. CASE agent' = NextJob(FailedAt(agent, d.generation)) /\ (Fault \/ UNCHANGED faults)
    <2>1. /\ FailedAt(agent, d.generation) \in Agents /\ SameDisk(agent, FailedAt(agent, d.generation))
          /\ SameWork(agent, FailedAt(agent, d.generation))
          /\ SameJobs(agent, FailedAt(agent, d.generation))
      BY <1>3, <1>5, FailedAtTyped
    <2> QED BY <1>2, <1>6, <2>1, JobEnds
  <1>7. CASE agent' = NextJob([agent EXCEPT !.failure = NoGeneration]) /\ UNCHANGED faults
    <2>1. PICK a : a = [agent EXCEPT !.failure = NoGeneration]
      OBVIOUS
    <2>2. a \in Agents /\ SameDisk(agent, a) /\ SameWork(agent, a) /\ SameJobs(agent, a)
      BY <1>3, <2>1, Bounds DEF Agents, SameDisk, SameWork, SameJobs
    <2> QED BY <1>2, <1>7, <2>1, <2>2, JobEnds
  <1>8. CASE /\ ~Refused(d) /\ UNCHANGED faults
             /\ agent' = NextJob([agent EXCEPT !.failure = NoGeneration,
                  !.version = "new", !.generation = d.generation,
                  !.config = d.config, !.up = d.config # {}])
    <2>1. PICK u \in BOOLEAN : u = (d.config # {})
      OBVIOUS
    <2>2. PICK a : a = [agent EXCEPT !.failure = NoGeneration, !.version = "new",
                          !.generation = d.generation, !.config = d.config, !.up = u]
      OBVIOUS
    <2>3. a \in Agents
      BY <1>3, <1>5, <2>2, Bounds DEF Agents, Versions
    <2>4. /\ a.version = "new" /\ a.generation = d.generation /\ a.config = d.config
          /\ a.artifact = agent.artifact /\ SameWork(agent, a) /\ SameJobs(agent, a)
      BY <1>3, <2>2 DEF Agents, SameWork, SameJobs
    <2>5. agent' = NextJob(a)
      BY <1>8, <2>1, <2>2
    <2>6. /\ agent' \in Agents /\ SameDisk(a, agent') /\ SameWork(a, agent')
          /\ agent'.job = a.pending /\ agent'.pending = {}
      BY <2>3, <2>5, NextJobTyped
    <2>7. /\ agent'.version = "new" /\ agent'.generation = d.generation /\ agent'.config = d.config
          /\ agent'.artifact = agent.artifact /\ SameWork(agent, agent') /\ agent'.job = agent.pending
      BY <2>4, <2>6 DEF SameDisk, SameWork, SameJobs
    <2>8. agent.generation <= d.generation
      BY <1>5, <1>8 DEF Refused, Inv, AgentDated
    <2>9. d.generation <= deployment.generation /\ Dated(d.generation, d.config)
      BY DEF Inv, DesiredDated, Circulating
    <2>10. Typed'
      <3>1. /\ AtMostOne(agent'.job) /\ AtMostOne(agent'.pending) /\ Len(agent'.queue) <= QueueSize
            /\ beats' \in [Beats -> Requests] /\ wire' \subseteq Desired
        BY <1>2, <2>6, <2>7 DEF Inv, Typed, SameWork, AtMostOne
      <3> QED BY <1>2, <1>8, <2>6, <3>1, AgentTyped
    <2>11. Circulating' \subseteq Circulating
      BY <1>2, <2>6, <2>7 DEF Circulating, InBeats
    <2>12. Observations' \subseteq Observations /\ Confirmed' \subseteq Confirmed
      BY <1>2 DEF Observations, Confirmed, InBeats
    <2>13. Assigned' \subseteq Assigned /\ Results' \subseteq Results
      BY <1>2, <2>7 DEF Assigned, Results, Kept, InBeats, SameWork
    <2>14. /\ agent.generation <= agent'.generation /\ agent'.generation <= deployment.generation
           /\ Dated(agent'.generation, agent'.config)
      BY <2>7, <2>8, <2>9
    <2> QED BY <1>2, <2>7, <2>10, <2>11, <2>12, <2>13, <2>14, AgentMoves
  <1> QED BY <1>1, <1>6, <1>7, <1>8 DEF Apply

LEMMA DoneTyped ==
  ASSUME NEW a \in Agents, NEW t \in Tasks
  PROVE  LET x == Done(a, t) IN
         /\ x \in Agents /\ SameWork(a, x) /\ SameJobs(a, x)
         /\ x.version = a.version /\ x.generation = a.generation /\ x.config = a.config
         /\ a.artifact = TRUE => x.artifact = TRUE
         /\ t.type # "RESTART" => x.artifact = TRUE
  <1>1. CASE t.type = "RESTART"
    <2>1. PICK x : x = [a EXCEPT !.up = TRUE]
      OBVIOUS
    <2>2. x \in Agents /\ SameWork(a, x) /\ SameJobs(a, x) /\ x.artifact = a.artifact
          /\ x.version = a.version /\ x.generation = a.generation /\ x.config = a.config
      BY <2>1 DEF Agents, SameWork, SameJobs
    <2> QED BY <1>1, <2>1, <2>2 DEF Done
  <1>2. CASE t.type # "RESTART"
    <2>1. PICK x : x = [a EXCEPT !.artifact = TRUE]
      OBVIOUS
    <2>2. x \in Agents /\ SameWork(a, x) /\ SameJobs(a, x) /\ x.artifact = TRUE
          /\ x.version = a.version /\ x.generation = a.generation /\ x.config = a.config
      BY <2>1 DEF Agents, SameWork, SameJobs
    <2> QED BY <1>2, <2>1, <2>2 DEF Done
  <1> QED BY <1>1, <1>2

\* The task at the head of the queue.
LEMMA HeadTask ==
  ASSUME Inv, agent.queue # <<>>
  PROVE  /\ Head(agent.queue) \in Tasks
         /\ operations[Head(agent.queue).id].type = Head(agent.queue).type
         /\ Tail(agent.queue) \in Seq(Tasks) /\ Len(Tail(agent.queue)) <= QueueSize
         /\ {Tail(agent.queue)[n] : n \in 1 .. Len(Tail(agent.queue))}
              \subseteq {agent.queue[n] : n \in 1 .. Len(agent.queue)}
  <1>1. agent.queue \in Seq(Tasks) /\ Len(agent.queue) <= QueueSize
    BY DEF Inv, Typed, Agents
  <1>2. Head(agent.queue) \in Assigned
    BY <1>1, QueueTail DEF Assigned
  <1>3. Len(Tail(agent.queue)) <= QueueSize
    BY <1>1, QueueTail, Bounds
  <1> QED BY <1>1, <1>2, <1>3, QueueTail DEF Inv, TasksKnown

\* A task leaves the queue; its result, if there is a new one, is true.
LEMMA TaskEnds ==
  ASSUME Inv, agent.queue # <<>>, NEW a \in Agents, SameWork(agent, a), SameJobs(agent, a),
         a.version = agent.version, a.generation = agent.generation, a.config = agent.config,
         agent.artifact = TRUE => a.artifact = TRUE,
         NEW m \in [OperationIds -> {"none", "SUCCESS", "FAILED"}],
         \A id \in OperationIds :
           \/ m[id] = agent.results[id]
           \/ /\ operations[id].type \in Types
              /\ m[id] = "SUCCESS" => IF operations[id].type = "RESTART" THEN a.version # "none" ELSE a.artifact,
         agent' = [a EXCEPT !.queue = Tail(@), !.results = m], Fault \/ UNCHANGED faults,
         UNCHANGED <<deployment, inbounds, operations, report, beats, wire>>
  PROVE  Inv'
  <1>1. PICK q \in Seq(Tasks) : q = Tail(agent.queue)
    BY HeadTask
  <1>2. agent' = [a EXCEPT !.queue = q, !.results = m]
    BY <1>1 DEF SameWork
  <1>3. agent' \in Agents
    BY <1>2 DEF Agents
  <1>4. /\ agent'.version = a.version /\ agent'.generation = a.generation /\ agent'.config = a.config
        /\ agent'.artifact = a.artifact /\ agent'.queue = q /\ agent'.results = m
        /\ agent'.job = a.job /\ agent'.pending = a.pending
    BY <1>2 DEF Agents
  <1>5. Typed'
    <2>1. /\ AtMostOne(agent'.job) /\ AtMostOne(agent'.pending)
          /\ beats' \in [Beats -> Requests] /\ wire' \subseteq Desired
      BY <1>4 DEF Inv, Typed, SameJobs
    <2>2. Len(agent'.queue) <= QueueSize
      BY <1>1, <1>4, HeadTask
    <2> QED BY <1>3, <2>1, <2>2, AgentTyped
  <1>6. Circulating' \subseteq Circulating
    BY <1>4 DEF Circulating, InBeats, SameJobs
  <1>7. Observations' \subseteq Observations /\ Confirmed' \subseteq Confirmed
    BY DEF Observations, Confirmed, InBeats
  <1>8. Assigned' \subseteq Assigned
    <2>1. InBeats("task")' = InBeats("task")
      BY DEF InBeats
    <2>2. {q[n] : n \in 1 .. Len(q)} \subseteq {agent.queue[n] : n \in 1 .. Len(agent.queue)}
      BY <1>1, HeadTask
    <2>3. {agent'.queue[n] : n \in 1 .. Len(agent'.queue)} = {q[n] : n \in 1 .. Len(q)}
      BY <1>4
    <2> QED BY <2>1, <2>2, <2>3 DEF Assigned
  <1>9. \A r \in Results' : r \in Results \/ TrueResult(r)'
    <2> SUFFICES ASSUME NEW r \in Kept', r \notin Results PROVE TrueResult(r)'
      BY DEF Results, InBeats
    <2>1. PICK id \in OperationIds : r = [id |-> id, outcome |-> m[id]] /\ m[id] # "none"
      BY <1>4 DEF Kept
    <2>2. m[id] # agent.results[id]
      BY <2>1 DEF Results, Kept
    <2>3. /\ operations[id].type \in Types
          /\ m[id] = "SUCCESS" => IF operations[id].type = "RESTART" THEN a.version # "none" ELSE a.artifact
      BY <2>2
    <2>4. r.id = id /\ r.outcome = m[id]
      BY <2>1
    <2> QED BY <1>4, <2>3, <2>4 DEF TrueResult, Did
  <1>10. /\ agent'.generation = agent.generation /\ agent'.version = agent.version
         /\ agent'.config = agent.config
         /\ agent.artifact = TRUE => agent'.artifact = TRUE
    BY <1>4
  <1> QED BY <1>5, <1>6, <1>7, <1>8, <1>9, <1>10, AgentStays

LEMMA RunTaskInv ==
  ASSUME Inv, RunTask
  PROVE  Inv'
  <1>1. agent.queue # <<>> /\ UNCHANGED <<deployment, inbounds, operations, report, beats, wire>>
        /\ (Fault \/ UNCHANGED faults)
    BY DEF RunTask
  <1>2. PICK t \in Tasks : t = Head(agent.queue) /\ operations[t.id].type = t.type
    BY <1>1, HeadTask
  <1>3. t.id \in OperationIds /\ t.type \in Types /\ agent \in Agents
    BY DEF Tasks, Inv, Typed
  <1>4. agent.results \in [OperationIds -> {"none", "SUCCESS", "FAILED"}]
    BY <1>3 DEF Agents
  <1>5. CASE agent' = [agent EXCEPT !.queue = Tail(@)]
    <2>1. agent' = [agent EXCEPT !.queue = Tail(@), !.results = agent.results]
      BY <1>3, <1>5 DEF Agents
    <2> QED BY <1>1, <1>3, <1>4, <2>1, TaskEnds DEF SameWork, SameJobs
  <1>6. CASE Feasible(t) /\ agent' = Finish(Done(agent, t), t, "SUCCESS")
    <2>1. PICK a \in Agents : a = Done(agent, t)
      BY <1>3, DoneTyped
    <2>2. /\ SameWork(agent, a) /\ SameJobs(agent, a)
          /\ a.version = agent.version /\ a.generation = agent.generation /\ a.config = agent.config
          /\ agent.artifact = TRUE => a.artifact = TRUE
          /\ t.type # "RESTART" => a.artifact = TRUE
      BY <1>3, <2>1, DoneTyped
    <2>3. PICK m \in [OperationIds -> {"none", "SUCCESS", "FAILED"}] :
             m = [agent.results EXCEPT ![t.id] = "SUCCESS"]
      BY <1>4
    <2>4. agent' = [a EXCEPT !.queue = Tail(@), !.results = m]
      BY <1>6, <2>1, <2>2, <2>3 DEF Finish, SameWork
    <2>5. t.type = "RESTART" => a.version # "none"
      BY <1>6, <2>2 DEF Feasible
    <2>6. ASSUME NEW id \in OperationIds
          PROVE  \/ m[id] = agent.results[id]
                 \/ /\ operations[id].type \in Types
                    /\ m[id] = "SUCCESS" => IF operations[id].type = "RESTART" THEN a.version # "none" ELSE a.artifact
      BY <1>2, <1>3, <1>4, <2>2, <2>3, <2>5
    <2> QED BY <1>1, <2>2, <2>4, <2>6, TaskEnds
  <1>7. CASE agent' = Finish(agent, t, "FAILED")
    <2>1. PICK m \in [OperationIds -> {"none", "SUCCESS", "FAILED"}] :
             m = [agent.results EXCEPT ![t.id] = "FAILED"]
      BY <1>4
    <2>2. agent' = [agent EXCEPT !.queue = Tail(@), !.results = m]
      BY <1>7, <2>1 DEF Finish
    <2>3. ASSUME NEW id \in OperationIds
          PROVE  \/ m[id] = agent.results[id]
                 \/ /\ operations[id].type \in Types
                    /\ m[id] = "SUCCESS" =>
                         IF operations[id].type = "RESTART" THEN agent.version # "none" ELSE agent.artifact
      BY <1>2, <1>3, <1>4, <2>1
    <2> QED BY <1>1, <1>3, <2>2, <2>3, TaskEnds DEF SameWork, SameJobs
  <1> QED BY <1>2, <1>5, <1>6, <1>7 DEF RunTask

LEMMA RebootedTyped ==
  ASSUME NEW a \in Agents
  PROVE  LET x == Rebooted(a) IN
         /\ x \in Agents /\ SameDisk(a, x) /\ x.results = a.results
         /\ x.job = {} /\ x.pending = {} /\ x.queue = <<>>
  <1>1. PICK u \in BOOLEAN : u = (a.config # {})
    OBVIOUS
  <1>2. PICK w \in {0} \cup Beats : w = 0
    OBVIOUS
  <1>3. PICK q \in Seq(Tasks) : q = <<>>
    BY EmptySeq
  <1>4. PICK x : x = [a EXCEPT !.up = u, !.failure = NoGeneration, !.sent = {},
                        !.fresh = FALSE, !.job = {}, !.pending = {},
                        !.highest = NoGeneration, !.queue = q, !.waits = w]
    OBVIOUS
  <1>5. x = Rebooted(a)
    BY <1>1, <1>2, <1>3, <1>4 DEF Rebooted
  <1>6. x \in Agents
    BY <1>4, Bounds DEF Agents
  <1>7. /\ SameDisk(a, x) /\ x.results = a.results /\ x.job = {} /\ x.pending = {} /\ x.queue = q
    BY <1>4 DEF Agents, SameDisk
  <1> QED BY <1>3, <1>5, <1>6, <1>7

LEMMA CrashInv ==
  ASSUME Inv, Crash
  PROVE  Inv'
  <1>1. /\ Fault /\ wire' = {} /\ beats' = Abandoned(beats)
        /\ UNCHANGED <<deployment, inbounds, operations, report>>
    BY DEF Crash
  <1>2. agent \in Agents /\ beats \in [Beats -> Requests]
    BY DEF Inv, Typed
  <1>3. \E a \in Agents :
          /\ agent' = Rebooted(a) /\ a.results = agent.results
          /\ a.version = agent.version /\ a.generation = agent.generation /\ a.config = agent.config
          /\ agent.artifact = TRUE => a.artifact = TRUE
    <2>1. CASE agent' = Rebooted(agent)
      BY <1>2, <2>1
    <2>2. CASE agent.queue # <<>> /\ agent' = Rebooted(Done(agent, Head(agent.queue)))
      <3>1. PICK t \in Tasks : t = Head(agent.queue)
        BY <2>2, HeadTask
      <3>2. /\ Done(agent, t) \in Agents /\ SameWork(agent, Done(agent, t))
            /\ Done(agent, t).version = agent.version /\ Done(agent, t).generation = agent.generation
            /\ Done(agent, t).config = agent.config
            /\ agent.artifact = TRUE => Done(agent, t).artifact = TRUE
        BY <1>2, DoneTyped
      <3> QED BY <2>2, <3>1, <3>2 DEF SameWork
    <2> QED BY <2>1, <2>2 DEF Crash
  <1>4. PICK a \in Agents :
          /\ agent' = Rebooted(a) /\ a.results = agent.results
          /\ a.version = agent.version /\ a.generation = agent.generation /\ a.config = agent.config
          /\ agent.artifact = TRUE => a.artifact = TRUE
    BY <1>3
  <1>5. /\ agent' \in Agents /\ SameDisk(a, agent') /\ agent'.results = a.results
        /\ agent'.job = {} /\ agent'.pending = {} /\ agent'.queue = <<>>
    BY <1>4, RebootedTyped
  <1>6. /\ beats' \in [Beats -> Requests]
        /\ InBeats("desired")' \subseteq InBeats("desired")
        /\ InBeats("report")' \subseteq InBeats("report")
        /\ InBeats("task")' \subseteq InBeats("task")
        /\ InBeats("results")' \subseteq InBeats("results")
        /\ InBeats("accepted")' \subseteq InBeats("accepted")
    BY <1>1, <1>2, AbandonedBeats
  <1>7. Typed'
    <2>1. Len(agent'.queue) <= QueueSize
      BY <1>5, EmptySeq, Bounds
    <2>2. AtMostOne(agent'.job) /\ AtMostOne(agent'.pending) /\ wire' \subseteq Desired
      BY <1>1, <1>5 DEF AtMostOne
    <2> QED BY <1>1, <1>5, <1>6, <2>1, <2>2, AgentTyped
  <1>8. Circulating' \subseteq Circulating
    BY <1>1, <1>5, <1>6 DEF Circulating
  <1>9. Observations' \subseteq Observations /\ Confirmed' \subseteq Confirmed
    BY <1>1, <1>6 DEF Observations, Confirmed
  <1>10. Assigned' \subseteq Assigned
    <2>1. {agent'.queue[n] : n \in 1 .. Len(agent'.queue)} = {}
      <3>1. Len(agent'.queue) = 0
        BY <1>5, EmptySeq
      <3>2. 1 .. Len(agent'.queue) = {}
        BY <3>1
      <3> QED BY <3>2
    <2> QED BY <1>6, <2>1 DEF Assigned
  <1>11. Results' \subseteq Results
    BY <1>4, <1>5, <1>6 DEF Results, Kept
  <1>12. /\ agent'.generation = agent.generation /\ agent'.version = agent.version
         /\ agent'.config = agent.config
         /\ agent.artifact = TRUE => agent'.artifact = TRUE
    BY <1>4, <1>5 DEF SameDisk
  <1> QED BY <1>1, <1>7, <1>8, <1>9, <1>10, <1>11, <1>12, AgentStays

\* The Agent no longer waits, or Xray dies or comes back.
LEMMA AsideInv ==
  ASSUME Inv, agent' \in Agents, SameDisk(agent, agent'), SameWork(agent, agent'),
         SameJobs(agent, agent'), Fault \/ UNCHANGED faults,
         UNCHANGED <<deployment, inbounds, operations, report, wire>>,
         beats' \in [Beats -> Requests],
         InBeats("desired")' \subseteq InBeats("desired"),
         InBeats("report")' \subseteq InBeats("report"),
         InBeats("task")' \subseteq InBeats("task"),
         InBeats("results")' \subseteq InBeats("results"),
         InBeats("accepted")' \subseteq InBeats("accepted")
  PROVE  Inv'
  <1>1. Typed'
    <2>1. /\ AtMostOne(agent'.job) /\ AtMostOne(agent'.pending) /\ Len(agent'.queue) <= QueueSize
          /\ wire' \subseteq Desired
      BY DEF Inv, Typed, SameJobs, SameWork
    <2> QED BY <2>1, AgentTyped
  <1>2. Circulating' \subseteq Circulating
    BY DEF Circulating, SameJobs
  <1>3. Observations' \subseteq Observations /\ Confirmed' \subseteq Confirmed
    BY DEF Observations, Confirmed
  <1>4. Assigned' \subseteq Assigned /\ Results' \subseteq Results
    BY DEF Assigned, Results, Kept, SameWork
  <1> QED BY <1>1, <1>2, <1>3, <1>4, AgentStays DEF SameDisk

LEMMA StopsWaiting ==
  ASSUME agent \in Agents, agent' = [agent EXCEPT !.waits = 0, !.fresh = FALSE]
  PROVE  agent' \in Agents /\ SameDisk(agent, agent') /\ SameWork(agent, agent') /\ SameJobs(agent, agent')
  <1>1. PICK w \in {0} \cup Beats : w = 0
    OBVIOUS
  <1>2. agent' = [agent EXCEPT !.waits = w, !.fresh = FALSE]
    BY <1>1
  <1>3. agent' \in Agents
    BY <1>2 DEF Agents
  <1> QED BY <1>2, <1>3 DEF Agents, SameDisk, SameWork, SameJobs

LEMMA GiveUpInv ==
  ASSUME Inv, GiveUp
  PROVE  Inv'
  <1>1. agent \in Agents /\ beats \in [Beats -> Requests]
    BY DEF Inv, Typed
  <1>2. /\ Fault /\ agent' = [agent EXCEPT !.waits = 0, !.fresh = FALSE] /\ beats' = Abandoned(beats)
        /\ UNCHANGED <<deployment, inbounds, operations, report, wire>>
    BY DEF GiveUp
  <1>3. agent' \in Agents /\ SameDisk(agent, agent') /\ SameWork(agent, agent') /\ SameJobs(agent, agent')
    BY <1>1, <1>2, StopsWaiting
  <1>4. /\ beats' \in [Beats -> Requests]
        /\ InBeats("desired")' \subseteq InBeats("desired")
        /\ InBeats("report")' \subseteq InBeats("report")
        /\ InBeats("task")' \subseteq InBeats("task")
        /\ InBeats("results")' \subseteq InBeats("results")
        /\ InBeats("accepted")' \subseteq InBeats("accepted")
    BY <1>1, <1>2, AbandonedBeats
  <1> QED BY <1>2, <1>3, <1>4, AsideInv

LEMMA LoseInv ==
  ASSUME Inv, NEW b \in Beats, Lose(b)
  PROVE  Inv'
  <1>1. agent \in Agents /\ beats \in [Beats -> Requests]
    BY DEF Inv, Typed
  <1>2. /\ Fault /\ beats' = [beats EXCEPT ![b] = Idle]
        /\ agent' = [agent EXCEPT !.waits = 0, !.fresh = FALSE] \/ agent' = agent
        /\ UNCHANGED <<deployment, inbounds, operations, report, wire>>
    BY DEF Lose
  <1>3. agent' \in Agents /\ SameDisk(agent, agent') /\ SameWork(agent, agent') /\ SameJobs(agent, agent')
    BY <1>1, <1>2, StopsWaiting DEF SameDisk, SameWork, SameJobs
  <1>4. /\ beats' \in [Beats -> Requests]
        /\ InBeats("desired")' \subseteq InBeats("desired")
        /\ InBeats("report")' \subseteq InBeats("report")
        /\ InBeats("task")' \subseteq InBeats("task")
        /\ InBeats("results")' \subseteq InBeats("results")
        /\ InBeats("accepted")' \subseteq InBeats("accepted")
    BY <1>1, <1>2, IdleTyped, OneBeat
  <1> QED BY <1>2, <1>3, <1>4, AsideInv

LEMMA DieReviveInv ==
  ASSUME Inv, Die \/ Revive
  PROVE  Inv'
  <1>1. agent \in Agents /\ beats \in [Beats -> Requests]
    BY DEF Inv, Typed
  <1>2. PICK u \in BOOLEAN : agent' = [agent EXCEPT !.up = u]
    BY DEF Die, Revive
  <1>3. /\ Fault \/ UNCHANGED faults
        /\ UNCHANGED <<deployment, inbounds, operations, report, beats, wire>>
    BY DEF Die, Revive
  <1>4. agent' \in Agents /\ SameDisk(agent, agent') /\ SameWork(agent, agent') /\ SameJobs(agent, agent')
    BY <1>1, <1>2 DEF Agents, SameDisk, SameWork, SameJobs
  <1>5. \A f : InBeats(f)' = InBeats(f)
    BY <1>3 DEF InBeats
  <1>6. beats' \in [Beats -> Requests]
    BY <1>1, <1>3
  <1> QED BY <1>3, <1>4, <1>5, <1>6, AsideInv

-----------------------------------------------------------------------------
(* An administrator's changes. *)

LEMMA InsertedRows ==
  ASSUME Inv, NEW id \in OperationIds, NEW type \in Types, NEW g \in Generations, NEW stage \in Stages,
         Insert(id, type, g, stage), UNCHANGED agent,
         deployment' \in Deployments, deployment.generation <= deployment'.generation,
         g <= deployment'.generation
  PROVE  /\ operations' \in [OperationIds -> Rows]
         /\ \A k \in OperationIds :
              /\ Row(operations[k])'
              /\ operations[k].type \in Types => operations'[k].type = operations[k].type
              /\ Recorded(operations[k]) => Recorded(operations[k])'
              /\ Truthful(operations[k])'
  <1>1. PICK op : op = [type |-> type, generation |-> g, status |-> "QUEUED", stage |-> stage]
    OBVIOUS
  <1>2. operations' = [operations EXCEPT ![id] = op] /\ operations[id] = Unused
    BY <1>1 DEF Insert
  <1>3. op \in Rows /\ op.type = type /\ op.generation = g /\ op.status = "QUEUED"
    BY <1>1 DEF Rows, Statuses, Open
  <1>4. operations \in [OperationIds -> Rows] /\ \A k \in OperationIds : Row(operations[k])
    BY DEF Inv, Typed
  <1>5. /\ operations' \in [OperationIds -> Rows] /\ operations'[id] = op
        /\ \A k \in OperationIds : k # id => operations'[k] = operations[k]
    BY <1>2, <1>3, <1>4
  <1>6. deployment.generation \in Nat /\ deployment'.generation \in Nat
        /\ \A k \in OperationIds : operations[k].generation \in Nat
    BY <1>4, Bounds DEF Inv, Typed, Deployments, Rows
  <1>7. ASSUME NEW k \in OperationIds
        PROVE  /\ Row(operations[k])'
               /\ operations[k].type \in Types => operations'[k].type = operations[k].type
               /\ Recorded(operations[k]) => Recorded(operations[k])'
               /\ Truthful(operations[k])'
    <2>1. CASE k = id
      <3>1. operations'[k] = op /\ operations[k] = Unused
        BY <1>2, <1>5, <2>1
      <3>2. Row(operations[k])'
        BY <1>3, <3>1 DEF Row, Statuses, Open
      <3>3. operations[k].type \notin Types /\ ~Recorded(operations[k])
        BY <3>1, UnusedTyped DEF Types, Recorded, Terminal
      <3>4. Truthful(operations[k])'
        BY <1>3, <3>1 DEF Truthful
      <3> QED BY <3>2, <3>3, <3>4
    <2>2. CASE k # id
      <3>1. operations'[k] = operations[k]
        BY <1>5, <2>2
      <3>2. Row(operations[k])'
        BY <1>4, <1>6, <3>1 DEF Row
      <3>3. Truthful(operations[k])'
        BY <3>1 DEF Truthful, Inv, AllTruthful
      <3> QED BY <3>1, <3>2, <3>3 DEF Recorded
    <2> QED BY <2>1, <2>2
  <1> QED BY <1>5, <1>7

LEMMA AdminMoves ==
  ASSUME Inv, NEW id \in OperationIds, NEW type \in Types, NEW g \in Generations, NEW stage \in Stages,
         Insert(id, type, g, stage), UNCHANGED <<report, agent, beats, wire, faults>>,
         deployment' \in Deployments, deployment.generation <= deployment'.generation,
         g <= deployment'.generation, inbounds' \in [Inbounds -> Lines],
         \A i \in Inbounds : Onward(i), deployment'.hash \subseteq {Configuration'}
  PROVE  Inv'
  <1>1. /\ operations' \in [OperationIds -> Rows]
        /\ \A k \in OperationIds :
             /\ Row(operations[k])'
             /\ operations[k].type \in Types => operations'[k].type = operations[k].type
             /\ Recorded(operations[k]) => Recorded(operations[k])'
             /\ Truthful(operations[k])'
    BY InsertedRows
  <1>2. Typed'
    BY <1>1 DEF Inv, Typed
  <1>3. /\ Circulating' = Circulating /\ Observations' = Observations /\ Assigned' = Assigned
        /\ Results' = Results /\ Confirmed' = Confirmed
    BY DEF Circulating, Observations, Assigned, Results, Kept, Confirmed, InBeats
  <1> QED BY <1>1, <1>2, <1>3, PanelMoves

LEMMA MutateInv ==
  ASSUME Inv, NEW i \in Inbounds, NEW before, NEW after, Mutate(i, before, after),
         (before = "absent" /\ after = "live") \/ (before = "live" /\ after = "deleting")
  PROVE  Inv'
  <1>1. deployment \in Deployments /\ inbounds \in [Inbounds -> Lines]
    BY DEF Inv, Typed
  <1>2. deployment.generation \in Nat
    BY <1>1, Bounds DEF Deployments
  <1>3. PICK g \in Generations : g = deployment.generation + 1
    BY <1>2, Bounds DEF Mutate, Generations
  <1>4. g \in Nat /\ g > deployment.generation
    BY <1>2, <1>3
  <1>5. /\ inbounds[i].is = before
        /\ inbounds' = [inbounds EXCEPT ![i] = [is |-> after, at |-> g]]
        /\ UNCHANGED <<report, agent, beats, wire, faults>>
    BY <1>3 DEF Mutate
  <1>6. PICK id \in OperationIds :
          /\ Insert(id, "SYNC", g, "none")
          /\ deployment' = [known |-> TRUE, generation |-> g, hash |-> {Configuration'}, last |-> id]
    BY <1>3 DEF Mutate
  <1>7. /\ inbounds' \in [Inbounds -> Lines]
        /\ inbounds'[i].is = after /\ inbounds'[i].at = g
        /\ \A j \in Inbounds : j # i => inbounds'[j] = inbounds[j]
    BY <1>1, <1>5 DEF Lines
  <1>8. \A j \in Inbounds : Onward(j)
    BY <1>4, <1>5, <1>7 DEF Onward
  <1>9. Configuration' \in Configs
    BY DEF Configuration, Live, Configs
  <1>10. /\ deployment' \in Deployments /\ deployment'.generation = g
         /\ deployment'.hash = {Configuration'}
    BY <1>6, <1>9 DEF Deployments
  <1>11. "SYNC" \in Types /\ "none" \in Stages
    BY DEF Types, Stages
  <1>12. deployment.generation <= deployment'.generation /\ g <= deployment'.generation
    BY <1>2, <1>4, <1>10
  <1> QED BY <1>5, <1>6, <1>7, <1>8, <1>10, <1>11, <1>12, AdminMoves

LEMMA CreateTaskInv ==
  ASSUME Inv, NEW type \in Types, CreateTask(type)
  PROVE  Inv'
  <1>1. deployment \in Deployments
    BY DEF Inv, Typed
  <1>2. PICK g \in Generations : g = deployment.generation
    BY <1>1 DEF Deployments
  <1>3. PICK id \in OperationIds :
          /\ Insert(id, type, g, "none")
          /\ deployment' = [deployment EXCEPT !.known = TRUE, !.last = id]
    BY <1>2 DEF CreateTask
  <1>4. UNCHANGED <<inbounds, report, agent, beats, wire, faults>>
    BY DEF CreateTask
  <1>5. /\ deployment' \in Deployments /\ deployment'.generation = deployment.generation
        /\ deployment'.hash = deployment.hash
    BY <1>1, <1>3 DEF Deployments
  <1>6. "none" \in Stages /\ g \in Nat
    BY Bounds DEF Stages
  <1>7. deployment.generation <= deployment'.generation /\ g <= deployment'.generation
    BY <1>2, <1>5, <1>6
  <1>8. deployment'.hash \subseteq {Configuration'}
    BY <1>4, <1>5 DEF Inv, DesiredDated, Configuration, Live
  <1>9. inbounds' \in [Inbounds -> Lines] /\ \A i \in Inbounds : Onward(i)
    BY <1>4 DEF Inv, Typed, Onward
  <1> QED BY <1>3, <1>4, <1>5, <1>6, <1>7, <1>8, <1>9, AdminMoves

LEMMA CreateSyncInv ==
  ASSUME Inv, CreateSync
  PROVE  Inv'
  <1>1. deployment \in Deployments
    BY DEF Inv, Typed
  <1>2. deployment.generation \in Nat
    BY <1>1, Bounds DEF Deployments
  <1>3. PICK g \in Generations : g = deployment.generation + 1
    BY <1>2, Bounds DEF CreateSync, Generations
  <1>4. PICK id \in OperationIds :
          /\ Insert(id, "SYNC", g, "SYNC_ONLY")
          /\ deployment' = [deployment EXCEPT !.generation = g, !.hash = {Configuration}, !.last = id]
    BY <1>3 DEF CreateSync
  <1>5. UNCHANGED <<inbounds, report, agent, beats, wire, faults>>
    BY DEF CreateSync
  <1>6. Configuration \in Configs /\ Configuration' = Configuration
    BY <1>5 DEF Configuration, Live, Configs
  <1>7. /\ deployment' \in Deployments /\ deployment'.generation = g
        /\ deployment'.hash = {Configuration'}
    BY <1>1, <1>4, <1>6 DEF Deployments
  <1>8. "SYNC" \in Types /\ "SYNC_ONLY" \in Stages
    BY DEF Types, Stages
  <1>9. deployment.generation <= deployment'.generation /\ g <= deployment'.generation
    BY <1>2, <1>3, <1>7
  <1>10. inbounds' \in [Inbounds -> Lines] /\ \A i \in Inbounds : Onward(i)
    BY <1>5 DEF Inv, Typed, Onward
  <1> QED BY <1>4, <1>5, <1>7, <1>8, <1>9, <1>10, AdminMoves

-----------------------------------------------------------------------------
(* The panel's handler of a heartbeat. *)

\* What may become of an operation.
Steps(op, new) ==
  /\ Row(new) /\ Truthful(new)
  /\ op.type \in Types => new.type = op.type
  /\ Recorded(op) => Recorded(new)

LEMMA CompletedRow ==
  ASSUME NEW op \in Rows, op.type \in Types, op.status \in Statuses, NEW outcome \in {"SUCCESS", "FAILED"}
  PROVE  LET new == Completed(op, outcome) IN
         /\ new \in Rows /\ new.type = op.type /\ new.generation = op.generation
         /\ new.status \in Statuses /\ Recorded(new)
         /\ new.status = "SUCCESS" =>
              op.status = "SUCCESS" \/ (outcome = "SUCCESS" /\ op.type \in {"RESTART", "INSTALL"})
  <1>1. CASE op.status \in Terminal
    <2>1. Completed(op, outcome) = op
      BY <1>1 DEF Completed
    <2> QED BY <1>1, <2>1 DEF Recorded
  <1>2. CASE op.status \notin Terminal /\ (op.stage # TaskStage(op) \/ outcome = "FAILED")
    <2>1. PICK new : new = [op EXCEPT !.status = "FAILED"]
      OBVIOUS
    <2>2. Completed(op, outcome) = new
      BY <1>2, <2>1 DEF Completed
    <2>3. new \in Rows /\ new.type = op.type /\ new.generation = op.generation /\ new.status = "FAILED"
      BY <2>1 DEF Rows, Statuses, Terminal
    <2>4. "FAILED" \in Statuses /\ "FAILED" \in Terminal
      BY DEF Statuses, Terminal
    <2> QED BY <2>2, <2>3, <2>4 DEF Recorded
  <1>3. CASE op.status \notin Terminal /\ op.stage = TaskStage(op) /\ outcome = "SUCCESS"
    <2>1. CASE op.type \in {"RESTART", "INSTALL"}
      <3>1. PICK new : new = [op EXCEPT !.status = "SUCCESS"]
        OBVIOUS
      <3>2. Completed(op, outcome) = new
        BY <1>3, <2>1, <3>1 DEF Completed
      <3>3. new \in Rows /\ new.type = op.type /\ new.generation = op.generation /\ new.status = "SUCCESS"
        BY <3>1 DEF Rows, Statuses, Terminal
      <3>4. "SUCCESS" \in Statuses /\ "SUCCESS" \in Terminal
        BY DEF Statuses, Terminal
      <3> QED BY <1>3, <2>1, <3>2, <3>3, <3>4 DEF Recorded
    <2>2. CASE op.type \notin {"RESTART", "INSTALL"}
      <3>1. PICK new : new = [op EXCEPT !.status = "QUEUED", !.stage = "INSTALL_COMPLETE"]
        OBVIOUS
      <3>2. Completed(op, outcome) = new
        BY <1>3, <2>2, <3>1 DEF Completed
      <3>3. new \in Rows /\ new.type = op.type /\ new.generation = op.generation /\ new.status = "QUEUED"
            /\ new.stage = "INSTALL_COMPLETE"
        BY <3>1 DEF Rows, Statuses, Open, Stages
      <3>4. "QUEUED" \in Statuses
        BY DEF Statuses, Open
      <3> QED BY <3>2, <3>3, <3>4 DEF Recorded
    <2> QED BY <2>1, <2>2
  <1> QED BY <1>1, <1>2, <1>3

\* The results of a heartbeat.
LEMMA AcceptedRows ==
  ASSUME Inv, NEW R \in SUBSET Reported, R \subseteq Results
  PROVE  /\ Accepted(R) \in [OperationIds -> Rows]
         /\ \A id \in OperationIds : Steps(operations[id], Accepted(R)[id])
         /\ \A r \in Mine(R) : r.id \in OperationIds /\ Recorded(Accepted(R)[r.id])
  <1>1. operations \in [OperationIds -> Rows] /\ \A id \in OperationIds : Row(operations[id])
    BY DEF Inv, Typed
  <1>2. ASSUME NEW id \in OperationIds
        PROVE  /\ Accepted(R)[id] \in Rows /\ Steps(operations[id], Accepted(R)[id])
               /\ (\E r \in Mine(R) : r.id = id) => Recorded(Accepted(R)[id])
    <2>1. CASE \E r \in Mine(R) : r.id = id
      <3>1. PICK r \in Mine(R) : r.id = id /\ r = CHOOSE s \in Mine(R) : s.id = id
        BY <2>1
      <3>2. r \in R /\ r \in Reported /\ TrueResult(r)
        BY DEF Mine, Inv, ResultsTrue
      <3>3. r.outcome \in {"SUCCESS", "FAILED"}
        BY <3>2 DEF Reported
      <3>4. PICK op \in Rows : op = operations[id]
        BY <1>1
      <3>5. /\ op.type \in Types /\ op.status \in Statuses /\ op.generation <= deployment.generation
            /\ Truthful(op)
        BY <1>1, <3>1, <3>2, <3>4, UnusedTyped DEF TrueResult, Row, Types, Inv, AllTruthful
      <3>6. PICK new \in Rows : new = Completed(op, r.outcome)
        BY <3>3, <3>5, CompletedRow
      <3>7. /\ new.type = op.type /\ new.generation = op.generation
            /\ new.status \in Statuses /\ Recorded(new)
            /\ new.status = "SUCCESS" =>
                 op.status = "SUCCESS" \/ (r.outcome = "SUCCESS" /\ op.type \in {"RESTART", "INSTALL"})
        BY <3>3, <3>5, <3>6, CompletedRow
      <3>8. Accepted(R)[id] = new
        BY <2>1, <3>1, <3>4, <3>6 DEF Accepted
      <3>9. Row(new)
        BY <3>5, <3>7 DEF Row
      <3>10. Truthful(new)
        <4>1. r.outcome = "SUCCESS" => Did(op.type)
          BY <3>1, <3>2, <3>4 DEF TrueResult
        <4>2. agent.artifact \in BOOLEAN
          BY DEF Inv, Typed, Agents
        <4> QED BY <3>5, <3>7, <4>1, <4>2 DEF Truthful, Did
      <3> QED BY <3>4, <3>7, <3>8, <3>9, <3>10 DEF Steps
    <2>2. CASE ~\E r \in Mine(R) : r.id = id
      <3>1. Accepted(R)[id] = operations[id]
        BY <2>2 DEF Accepted
      <3> QED BY <1>1, <2>2, <3>1 DEF Steps, Inv, AllTruthful
    <2> QED BY <2>1, <2>2
  <1>3. Accepted(R) \in [OperationIds -> Rows]
    <2>1. Accepted(R) = [id \in OperationIds |-> Accepted(R)[id]]
      BY DEF Accepted
    <2> QED BY <1>2, <2>1
  <1>4. \A r \in Mine(R) : r.id \in OperationIds
    BY DEF Mine, Reported
  <1> QED BY <1>2, <1>3, <1>4

LEMMA ConcludedRow ==
  ASSUME NEW op \in Rows, NEW status \in {"SUCCESS", "FAILED"}
  PROVE  LET new == Concluded(op, status) IN
         \/ new = op
         \/ /\ new \in Rows /\ new.type = op.type /\ new.generation = op.generation
            /\ new.status = status /\ op.type \in {"SYNC", "UPGRADE"}
            /\ op.generation = deployment.generation
  <1>1. PICK new : new = [op EXCEPT !.status = status]
    OBVIOUS
  <1>2. new \in Rows /\ new.type = op.type /\ new.generation = op.generation /\ new.status = status
    BY <1>1 DEF Rows, Statuses, Terminal
  <1> QED BY <1>1, <1>2 DEF Concluded

\* The operation the deployment points to, in the light of an observation.
LEMMA ReconciledRows ==
  ASSUME Inv, NEW ops \in [OperationIds -> Rows],
         \A id \in OperationIds : Row(ops[id]) /\ Truthful(ops[id]),
         NEW o, Behind(o)
  PROVE  /\ Reconciled(ops, o) \in [OperationIds -> Rows]
         /\ \A id \in OperationIds : Steps(ops[id], Reconciled(ops, o)[id])
  <1>1. ASSUME NEW id \in OperationIds
        PROVE  Reconciled(ops, o)[id] \in Rows /\ Steps(ops[id], Reconciled(ops, o)[id])
    <2>1. CASE Reconciled(ops, o)[id] = ops[id]
      BY <2>1 DEF Steps
    <2>2. ASSUME NEW status \in {"SUCCESS", "FAILED"}, status = "SUCCESS" => Converged(o),
                 Reconciled(ops, o)[id] = Concluded(ops[id], status)
          PROVE  Reconciled(ops, o)[id] \in Rows /\ Steps(ops[id], Reconciled(ops, o)[id])
      <3>1. PICK new : new = Concluded(ops[id], status)
        OBVIOUS
      <3>2. CASE new = ops[id]
        BY <2>1, <2>2, <3>1, <3>2
      <3>3. CASE /\ new \in Rows /\ new.type = ops[id].type /\ new.generation = ops[id].generation
                 /\ new.status = status /\ ops[id].type \in {"SYNC", "UPGRADE"}
                 /\ ops[id].generation = deployment.generation
        <4>1. status \in Terminal /\ status \in Statuses /\ {"SYNC", "UPGRADE"} \subseteq Types
          BY DEF Terminal, Statuses, Types
        <4>2. Row(new)
          <5>1. ops[id].type # "none"
            BY <3>3
          <5>2. ops[id] # Unused
            BY <5>1, UnusedTyped
          <5> QED BY <3>3, <4>1, <5>2 DEF Row
        <4>3. status = "SUCCESS" => o.generation = deployment.generation /\ o.version = "new" /\ o.hash # {}
          BY <2>2 DEF Converged, RuntimeReady
        <4>4. Truthful(new)
          BY <3>3, <4>3 DEF Truthful, Behind
        <4> QED BY <2>2, <3>1, <3>3, <4>1, <4>2, <4>4 DEF Steps, Recorded
      <3> QED BY <3>1, <3>2, <3>3, ConcludedRow
    <2>3. \/ Reconciled(ops, o)[id] = ops[id]
          \/ Converged(o) /\ Reconciled(ops, o)[id] = Concluded(ops[id], "SUCCESS")
          \/ Reconciled(ops, o)[id] = Concluded(ops[id], "FAILED")
      BY DEF Reconciled
    <2> QED BY <2>1, <2>2, <2>3
  <1>2. Reconciled(ops, o) \in [OperationIds -> Rows]
    <2>1. Reconciled(ops, o) = [id \in OperationIds |-> Reconciled(ops, o)[id]]
      BY DEF Reconciled
    <2> QED BY <1>1, <2>1
  <1> QED BY <1>1, <1>2

LEMMA ReceiveInv ==
  ASSUME Inv, NEW b \in Beats, Receive(b)
  PROVE  Inv'
  <1>1. /\ beats \in [Beats -> Requests] /\ operations \in [OperationIds -> Rows]
        /\ inbounds \in [Inbounds -> Lines] /\ deployment \in Deployments
    BY DEF Inv, Typed
  <1>2. PICK s \in Requests : s = beats[b]
    BY <1>1
  <1>3. /\ s.results \in SUBSET Reported /\ s.results \subseteq Results
        /\ s.report \in Glimpses /\ s.report \subseteq Observations
    BY <1>1, <1>2, OfBeat DEF Requests, Results, Observations
  <1>4. PICK ops \in [OperationIds -> Rows] :
          /\ ops = Accepted(s.results)
          /\ \A id \in OperationIds : Steps(operations[id], ops[id])
          /\ \A r \in Mine(s.results) : r.id \in OperationIds /\ Recorded(ops[r.id])
    BY <1>3, AcceptedRows
  <1>5. PICK f \in BOOLEAN : f = (s.full /\ agent.waits = b)
    OBVIOUS
  <1>6. PICK q \in BOOLEAN : q = (~s.full /\ s.report # report)
    OBVIOUS
  <1>7. PICK acc \in SUBSET OperationIds :
          acc = (IF agent.waits = b THEN {r.id : r \in Mine(s.results)} ELSE {})
    BY <1>4
  <1>8. PICK r : r = [s EXCEPT !.pc = "take", !.full = f, !.results = {}, !.accepted = acc, !.ask = q]
    OBVIOUS
  <1>9. r \in Requests
    BY <1>8 DEF Requests
  <1>10. /\ r.desired = s.desired /\ r.report = s.report /\ r.task = s.task /\ r.results = {}
         /\ r.accepted = acc
    BY <1>8 DEF Requests
  <1>11. beats' = [beats EXCEPT ![b] = r]
    BY <1>1, <1>2, <1>5, <1>6, <1>7, <1>8 DEF Receive
  <1>12. UNCHANGED <<deployment, agent, wire, faults>>
    BY DEF Receive
  <1>13. /\ beats' \in [Beats -> Requests]
         /\ \A x \in InBeats("desired")' : x \in InBeats("desired")
         /\ \A x \in InBeats("report")' : x \in InBeats("report")
         /\ \A x \in InBeats("task")' : x \in InBeats("task")
         /\ \A x \in InBeats("results")' : x \in InBeats("results")
         /\ \A x \in InBeats("accepted")' : x \in InBeats("accepted") \/ x \in acc
    BY <1>1, <1>2, <1>9, <1>10, <1>11, OneBeat, OfBeat
  <1>14. /\ operations' \in [OperationIds -> Rows]
         /\ \A id \in OperationIds : Steps(operations[id], operations'[id])
         /\ \A id \in acc : Recorded(operations'[id])
         /\ report' \subseteq Observations /\ report' \subseteq Observed /\ AtMostOne(report')
         /\ inbounds' \in [Inbounds -> Lines]
         /\ \A i \in Inbounds : Onward(i)
         /\ Configuration' = Configuration
    <2>1. CASE ~s.full /\ operations' = ops /\ UNCHANGED <<report, inbounds>>
      <3>1. \A id \in acc : Recorded(ops[id])
        BY <1>4, <1>7
      <3>2. report \subseteq Observations /\ report \subseteq Observed /\ AtMostOne(report)
        BY DEF Observations, Inv, Typed
      <3>3. Configuration' = Configuration /\ \A i \in Inbounds : Onward(i)
        BY <2>1 DEF Configuration, Live, Onward
      <3> QED BY <1>1, <1>4, <2>1, <3>1, <3>2, <3>3
    <2>2. ASSUME NEW o \in s.report, report' = s.report, operations' = Reconciled(ops, o),
                 inbounds' = IF deployment.last # 0 /\ Converged(o)
                               THEN Deleted(deployment.generation) ELSE inbounds
          PROVE  /\ operations' \in [OperationIds -> Rows]
                 /\ \A id \in OperationIds : Steps(operations[id], operations'[id])
                 /\ \A id \in acc : Recorded(operations'[id])
                 /\ report' \subseteq Observations /\ report' \subseteq Observed /\ AtMostOne(report')
                 /\ inbounds' \in [Inbounds -> Lines]
                 /\ \A i \in Inbounds : Onward(i)
                 /\ Configuration' = Configuration
      <3>1. Behind(o)
        BY <1>3 DEF Inv, ObservedBehind
      <3>2. /\ operations' \in [OperationIds -> Rows]
            /\ \A id \in OperationIds : Steps(ops[id], operations'[id])
        BY <1>4, <2>2, <3>1, ReconciledRows DEF Steps
      <3>3. \A id \in OperationIds : Steps(operations[id], operations'[id])
        BY <1>4, <3>2 DEF Steps
      <3>4. \A id \in acc : Recorded(operations'[id])
        BY <1>4, <1>7, <3>2 DEF Steps
      <3>5. report' \subseteq Observations /\ report' \subseteq Observed /\ AtMostOne(report')
        BY <1>3, <2>2 DEF Glimpses
      <3>6. CASE Converged(o) /\ inbounds' = Deleted(deployment.generation)
        <4>1. deployment.generation <= agent.generation
          BY <3>1, <3>6 DEF Converged, Behind
        <4>2. /\ deployment.generation \in Nat /\ agent.generation \in Nat
              /\ \A i \in Inbounds : inbounds[i].at \in Nat /\ inbounds[i] \in Lines
          BY <1>1, Bounds DEF Deployments, Lines, Inv, Typed, Agents
        <4>3. ASSUME NEW i \in Inbounds
              PROVE  /\ inbounds'[i] \in Lines /\ Onward(i)
                     /\ (inbounds'[i].is = "live" <=> inbounds[i].is = "live")
          <5>1. CASE inbounds[i].is = "deleting" /\ inbounds[i].at <= deployment.generation
            <6>1. inbounds'[i] = [inbounds[i] EXCEPT !.is = "gone"]
              BY <3>6, <5>1 DEF Deleted
            <6>2. inbounds'[i] \in Lines /\ inbounds'[i].is = "gone" /\ inbounds'[i].at = inbounds[i].at
              BY <4>2, <6>1 DEF Lines
            <6> QED BY <4>1, <4>2, <5>1, <6>2 DEF Onward
          <5>2. CASE ~(inbounds[i].is = "deleting" /\ inbounds[i].at <= deployment.generation)
            <6>1. inbounds'[i] = inbounds[i]
              BY <3>6, <5>2 DEF Deleted
            <6> QED BY <4>2, <6>1 DEF Onward
          <5> QED BY <5>1, <5>2
        <4>4. inbounds' \in [Inbounds -> Lines]
          <5>1. inbounds' = [i \in Inbounds |-> inbounds'[i]]
            BY <3>6 DEF Deleted
          <5> QED BY <4>3, <5>1
        <4>5. Configuration' = Configuration
          BY <4>3 DEF Configuration, Live
        <4> QED BY <3>2, <3>3, <3>4, <3>5, <4>3, <4>4, <4>5
      <3>7. CASE inbounds' = inbounds
        <4>1. Configuration' = Configuration /\ \A i \in Inbounds : Onward(i)
          BY <3>7 DEF Configuration, Live, Onward
        <4> QED BY <1>1, <3>2, <3>3, <3>4, <3>5, <3>7, <4>1
      <3> QED BY <2>2, <3>6, <3>7
    <2> QED BY <1>2, <1>4, <2>1, <2>2 DEF Receive
  <1>15. /\ \A k \in OperationIds :
              /\ Row(operations[k])'
              /\ operations[k].type \in Types => operations'[k].type = operations[k].type
              /\ Recorded(operations[k]) => Recorded(operations[k])'
              /\ Truthful(operations[k])'
    BY <1>12, <1>14 DEF Steps, Row, Recorded, Truthful
  <1>16. Typed'
    BY <1>12, <1>13, <1>14, <1>15 DEF Inv, Typed
  <1>17. Circulating' \subseteq Circulating /\ Assigned' \subseteq Assigned /\ Results' \subseteq Results
    BY <1>12, <1>13 DEF Circulating, Assigned, Results, Kept
  <1>18. Observations' \subseteq Observations
    BY <1>13, <1>14 DEF Observations
  <1>19. \A id \in Confirmed' : id \in Confirmed \/ Recorded(operations[id])'
    BY <1>13, <1>14 DEF Confirmed, Recorded
  <1>20. deployment'.hash \subseteq {Configuration'} /\ deployment.generation <= deployment'.generation
    <2>1. deployment' = deployment /\ deployment.generation \in Nat
      BY <1>1, <1>12, Bounds DEF Deployments
    <2>2. deployment.generation <= deployment'.generation
      BY <2>1
    <2>3. deployment.hash \subseteq {Configuration}
      BY DEF Inv, DesiredDated
    <2>4. deployment'.hash \subseteq {Configuration'}
      BY <1>14, <2>1, <2>3
    <2> QED BY <2>2, <2>4
  <1> QED BY <1>12, <1>14, <1>15, <1>16, <1>17, <1>18, <1>19, <1>20, PanelMoves

LEMMA TakenRow ==
  ASSUME NEW op \in Rows, op.type \in Types, op.status \in Open, NEW late \in BOOLEAN
  PROVE  LET new == Taken(op, late) IN
         /\ new \in Rows /\ new.type = op.type /\ new.generation = op.generation
         /\ new.status \in Statuses /\ new.status # "SUCCESS"
         /\ Recorded(op) => Recorded(new)
  <1>1. TaskStage(op) \in {"INSTALL", "RESTART"}
    BY DEF TaskStage
  <1>2. CASE op.stage \notin {"none", "INSTALL_COMPLETE", TaskStage(op)}
    <2>1. PICK new : new = [op EXCEPT !.status = "FAILED"]
      OBVIOUS
    <2>2. Taken(op, late) = new
      BY <1>2, <2>1 DEF Taken
    <2>3. new \in Rows /\ new.type = op.type /\ new.generation = op.generation /\ new.status = "FAILED"
      BY <2>1 DEF Rows, Statuses, Terminal
    <2> QED BY <2>2, <2>3 DEF Recorded, Statuses, Terminal
  <1>3. CASE op.stage = "INSTALL_COMPLETE"
    <2>1. Taken(op, late) = op
      BY <1>1, <1>3 DEF Taken
    <2> QED BY <2>1 DEF Statuses, Open
  <1>4. CASE op.stage \in {"none", TaskStage(op)} /\ late
    <2>1. PICK new : new = [op EXCEPT !.status = "TIMEOUT"]
      OBVIOUS
    <2>2. Taken(op, late) = new
      BY <1>1, <1>4, <2>1 DEF Taken
    <2>3. new \in Rows /\ new.type = op.type /\ new.generation = op.generation /\ new.status = "TIMEOUT"
      BY <2>1 DEF Rows, Statuses, Terminal
    <2> QED BY <2>2, <2>3 DEF Recorded, Statuses, Terminal
  <1>5. CASE op.stage \in {"none", TaskStage(op)} /\ ~late
    <2>1. PICK st \in Stages : st = TaskStage(op)
      BY <1>1 DEF Stages
    <2>2. PICK new : new = [op EXCEPT !.status = "RUNNING", !.stage = st]
      OBVIOUS
    <2>3. Taken(op, late) = new
      BY <1>1, <1>5, <2>1, <2>2 DEF Taken
    <2>4. new \in Rows /\ new.type = op.type /\ new.generation = op.generation /\ new.status = "RUNNING"
      BY <2>2 DEF Rows, Statuses, Open
    <2>5. ~Recorded(op)
      BY <1>1, <1>5 DEF Recorded, Open, Terminal
    <2> QED BY <2>3, <2>4, <2>5 DEF Statuses, Open
  <1> QED BY <1>2, <1>3, <1>4, <1>5

LEMMA TakeInv ==
  ASSUME Inv, NEW b \in Beats, NEW late \in BOOLEAN, Take(b, late)
  PROVE  Inv'
  <1>1. /\ beats \in [Beats -> Requests] /\ operations \in [OperationIds -> Rows]
        /\ deployment \in Deployments /\ \A id \in OperationIds : Row(operations[id])
    BY DEF Inv, Typed
  <1>2. PICK s \in Requests : s = beats[b]
    BY <1>1
  <1>3. UNCHANGED <<deployment, inbounds, report, agent, wire, faults>>
    BY DEF Take
  <1>4. \A id \in OperationIds : Steps(operations[id], operations[id])
    BY <1>1 DEF Steps, Inv, AllTruthful
  <1>5. \E r \in Requests :
          /\ beats' = [beats EXCEPT ![b] = r]
          /\ r.desired = s.desired /\ r.report = s.report /\ r.results = s.results
          /\ r.accepted = s.accepted
          /\ r.task = s.task \/ (\A t \in r.task : operations'[t.id].type = t.type)
          /\ operations' \in [OperationIds -> Rows]
          /\ \A id \in OperationIds : Steps(operations[id], operations'[id])
    <2>1. CASE deployment.last = 0
      <3>1. PICK r : r = [s EXCEPT !.pc = "build"]
        OBVIOUS
      <3>2. r \in Requests /\ r.desired = s.desired /\ r.report = s.report /\ r.results = s.results
            /\ r.accepted = s.accepted /\ r.task = s.task
        BY <3>1 DEF Requests
      <3>3. beats' = [beats EXCEPT ![b] = r] /\ operations' = operations
        BY <1>1, <1>2, <2>1, <3>1 DEF Take
      <3> QED BY <1>1, <1>4, <3>2, <3>3
    <2>2. CASE deployment.last # 0
      <3>1. PICK id \in OperationIds : id = deployment.last
        BY <1>1, <2>2 DEF Deployments
      <3>2. PICK op \in Rows : op = operations[id] /\ Row(op) /\ Truthful(op)
        BY <1>1 DEF Inv, AllTruthful
      <3>3. MayTake => op.type \in Types /\ op.status \in Open /\ op.generation <= deployment.generation
        BY <3>1, <3>2, UnusedTyped DEF MayTake, Last, Row, Open
      <3>4. PICK next : next = IF MayTake THEN Taken(op, late) ELSE op
        OBVIOUS
      <3>5. next \in Rows /\ Steps(op, next) /\ (MayTake => next.type \in Types)
        <4>1. CASE MayTake
          <5>1. /\ next \in Rows /\ next.type = op.type /\ next.generation = op.generation
                /\ next.status \in Statuses /\ next.status # "SUCCESS"
                /\ Recorded(op) => Recorded(next)
            BY <3>3, <3>4, <4>1, TakenRow
          <5> QED BY <3>3, <4>1, <5>1 DEF Steps, Row, Truthful
        <4>2. CASE ~MayTake
          BY <3>2, <3>4, <4>2 DEF Steps
        <4> QED BY <4>1, <4>2
      <3>6. operations' = [operations EXCEPT ![id] = next]
        BY <2>2, <3>1, <3>2, <3>4 DEF Take, Last
      <3>7. operations' \in [OperationIds -> Rows] /\ operations'[id] = next
            /\ \A k \in OperationIds : k # id => operations'[k] = operations[k]
        BY <1>1, <3>5, <3>6
      <3>8. PICK T \in SUBSET Tasks :
              /\ T = IF /\ agent.waits = b /\ MayTake
                        /\ next.status = "RUNNING" /\ next.stage = TaskStage(next)
                       THEN {[id |-> id, type |-> next.type]} ELSE {}
              /\ \A t \in T : operations'[t.id].type = t.type
        <4>1. MayTake => [id |-> id, type |-> next.type] \in Tasks
          BY <3>5 DEF Tasks
        <4>2. PICK c \in BOOLEAN : c = (/\ agent.waits = b /\ MayTake
                                       /\ next.status = "RUNNING" /\ next.stage = TaskStage(next))
          OBVIOUS
        <4>3. PICK k : k = [id |-> id, type |-> next.type]
          OBVIOUS
        <4>4. k.id = id /\ k.type = next.type
          BY <4>3
        <4>5. CASE c
          <5>1. {k} \in SUBSET Tasks
            BY <4>1, <4>2, <4>3, <4>5
          <5>2. \A t \in {k} : operations'[t.id].type = t.type
            BY <3>7, <4>4
          <5> QED BY <4>2, <4>3, <4>5, <5>1, <5>2
        <4>6. CASE ~c
          <5>1. {} \in SUBSET Tasks /\ \A t \in {} : operations'[t.id].type = t.type
            OBVIOUS
          <5> QED BY <4>2, <4>6, <5>1
        <4> QED BY <4>5, <4>6
      <3>9. PICK df \in BOOLEAN : df = Defers(next)
        BY DEF Defers
      <3>10. PICK r : r = [s EXCEPT !.pc = "build", !.task = T, !.defer = df]
        OBVIOUS
      <3>11. r \in Requests /\ r.desired = s.desired /\ r.report = s.report /\ r.results = s.results
             /\ r.accepted = s.accepted /\ r.task = T
        BY <3>10 DEF Requests
      <3>12. beats' = [beats EXCEPT ![b] = r]
        BY <1>1, <1>2, <2>2, <3>1, <3>2, <3>4, <3>8, <3>9, <3>10 DEF Take, Last
      <3>13. \A k \in OperationIds : Steps(operations[k], operations'[k])
        BY <1>4, <3>2, <3>5, <3>7
      <3> QED BY <3>7, <3>8, <3>11, <3>12, <3>13
    <2> QED BY <2>1, <2>2
  <1>6. PICK r \in Requests :
          /\ beats' = [beats EXCEPT ![b] = r]
          /\ r.desired = s.desired /\ r.report = s.report /\ r.results = s.results
          /\ r.accepted = s.accepted
          /\ r.task = s.task \/ (\A t \in r.task : operations'[t.id].type = t.type)
          /\ operations' \in [OperationIds -> Rows]
          /\ \A id \in OperationIds : Steps(operations[id], operations'[id])
    BY <1>5
  <1>7. /\ beats' \in [Beats -> Requests]
        /\ \A x \in InBeats("desired")' : x \in InBeats("desired")
        /\ \A x \in InBeats("report")' : x \in InBeats("report")
        /\ \A x \in InBeats("task")' : x \in InBeats("task") \/ operations'[x.id].type = x.type
        /\ \A x \in InBeats("results")' : x \in InBeats("results")
        /\ \A x \in InBeats("accepted")' : x \in InBeats("accepted")
    BY <1>1, <1>2, <1>6, OneBeat, OfBeat
  <1>8. /\ \A k \in OperationIds :
             /\ Row(operations[k])'
             /\ operations[k].type \in Types => operations'[k].type = operations[k].type
             /\ Recorded(operations[k]) => Recorded(operations[k])'
             /\ Truthful(operations[k])'
    BY <1>3, <1>6 DEF Steps, Row, Recorded, Truthful
  <1>9. Typed'
    BY <1>3, <1>6, <1>7, <1>8 DEF Inv, Typed
  <1>10. Circulating' \subseteq Circulating /\ Observations' \subseteq Observations
         /\ Results' \subseteq Results /\ Confirmed' \subseteq Confirmed
    BY <1>3, <1>7 DEF Circulating, Observations, Results, Kept, Confirmed
  <1>11. \A t \in Assigned' : t \in Assigned \/ operations'[t.id].type = t.type
    BY <1>3, <1>7 DEF Assigned
  <1>12. deployment'.hash \subseteq {Configuration'} /\ deployment.generation <= deployment'.generation
    <2>1. deployment' = deployment /\ deployment.generation \in Nat
      BY <1>1, <1>3, Bounds DEF Deployments
    <2>2. deployment.generation <= deployment'.generation
      BY <2>1
    <2>3. deployment.hash \subseteq {Configuration} /\ Configuration' = Configuration
      BY <1>3 DEF Inv, DesiredDated, Configuration, Live
    <2>4. deployment'.hash \subseteq {Configuration'}
      BY <2>1, <2>3
    <2> QED BY <2>2, <2>4
  <1>13. \A i \in Inbounds : Onward(i)
    BY <1>3 DEF Onward
  <1> QED BY <1>3, <1>8, <1>9, <1>10, <1>11, <1>12, <1>13, PanelMoves

\* The answer of a heartbeat: the desired state, or nothing.
LEMMA BuildInv ==
  ASSUME Inv, NEW b \in Beats, Build(b)
  PROVE  Inv'
  <1>1. /\ beats \in [Beats -> Requests] /\ operations \in [OperationIds -> Rows]
        /\ deployment \in Deployments /\ \A id \in OperationIds : Row(operations[id])
    BY DEF Inv, Typed
  <1>2. PICK s \in Requests : s = beats[b]
    BY <1>1
  <1>3. UNCHANGED <<inbounds, report, agent>>
    BY DEF Build
  <1>4. Configuration' = Configuration /\ Configuration \in Configs
    BY <1>3 DEF Configuration, Live, Configs
  <1>5. PICK d : d = [generation |-> deployment.generation, config |-> Configuration]
    OBVIOUS
  <1>6. d \in Desired /\ d.generation = deployment.generation /\ d.config = Configuration
    BY <1>1, <1>4, <1>5 DEF Desired, Deployments
  <1>7. PICK send \in BOOLEAN : send = Sends(s, d)
    BY DEF Sends
  <1>8. /\ deployment' \in Deployments /\ deployment'.generation = deployment.generation
        /\ deployment'.hash \subseteq {Configuration'}
    <2>1. CASE deployment' = deployment
      BY <1>1, <1>4, <2>1 DEF Build
    <2>2. CASE deployment' = [deployment EXCEPT !.hash = {Configuration}]
      <3>1. PICK h \in SUBSET Configs : h = {Configuration}
        BY <1>4
      <3>2. deployment' = [deployment EXCEPT !.hash = h]
        BY <2>2, <3>1
      <3>3. /\ deployment' \in Deployments /\ deployment'.generation = deployment.generation
            /\ deployment'.hash = h
        BY <1>1, <3>2 DEF Deployments
      <3> QED BY <1>4, <3>1, <3>3
    <2> QED BY <2>1, <2>2 DEF Build
  <1>9. ASSUME NEW id \in OperationIds
        PROVE  operations'[id] \in Rows /\ Steps(operations[id], operations'[id])
    <2>1. operations[id] \in Rows /\ Row(operations[id]) /\ Truthful(operations[id])
      BY <1>1 DEF Inv, AllTruthful
    <2>2. CASE operations'[id] = operations[id]
      BY <2>1, <2>2 DEF Steps
    <2>3. CASE /\ operations[id].type \in {"SYNC", "UPGRADE"} /\ operations[id].status = "QUEUED"
               /\ operations'[id] = [operations[id] EXCEPT !.status = "RUNNING"]
      <3>1. PICK op \in Rows : op = operations[id]
        BY <2>1
      <3>2. PICK new : new = [op EXCEPT !.status = "RUNNING"]
        OBVIOUS
      <3>3. /\ new \in Rows /\ new.type = op.type /\ new.generation = op.generation
            /\ new.status = "RUNNING" /\ new.stage = op.stage
        BY <3>2 DEF Rows, Statuses, Open
      <3>4. op.generation <= deployment.generation /\ op.type \in Types
        BY <2>1, <2>3, <3>1, UnusedTyped DEF Row, Types
      <3>5. Row(new)
        BY <3>3, <3>4 DEF Row, Statuses, Open
      <3>6. Truthful(new)
        BY <3>3 DEF Truthful
      <3>7. Recorded(op) => Recorded(new)
        BY <2>3, <3>1, <3>3 DEF Recorded, Terminal
      <3>8. new = operations'[id]
        BY <2>3, <3>1, <3>2
      <3> QED BY <3>1, <3>3, <3>5, <3>6, <3>7, <3>8 DEF Steps
    <2> QED BY <2>2, <2>3 DEF Build
  <1>10. operations' \in [OperationIds -> Rows]
    <2>1. operations' = [id \in OperationIds |-> operations'[id]]
      BY DEF Build
    <2> QED BY <1>9, <2>1
  <1>11. /\ \A k \in OperationIds :
              /\ Row(operations[k])'
              /\ operations[k].type \in Types => operations'[k].type = operations[k].type
              /\ Recorded(operations[k]) => Recorded(operations[k])'
              /\ Truthful(operations[k])'
    BY <1>3, <1>8, <1>9 DEF Steps, Row, Recorded, Truthful
  <1>12. \E r \in Requests :
           /\ beats' = [beats EXCEPT ![b] = r]
           /\ r.desired \subseteq {d} /\ r.report \subseteq s.report
           /\ r.task \subseteq s.task /\ r.results \subseteq s.results /\ r.accepted \subseteq s.accepted
    <2>1. CASE agent.waits = b
      <3>1. PICK D \in SUBSET Desired : D = IF send THEN {d} ELSE {}
        BY <1>6
      <3>2. PICK O \in Glimpses : O = IF s.full THEN s.report ELSE {}
        BY DEF Requests, Glimpses, AtMostOne
      <3>3. PICK r : r = [s EXCEPT !.pc = "answer", !.desired = D, !.report = O, !.defer = FALSE]
        OBVIOUS
      <3>4. /\ r \in Requests /\ r.desired = D /\ r.report = O /\ r.task = s.task
            /\ r.results = s.results /\ r.accepted = s.accepted
        BY <3>3 DEF Requests
      <3>5. beats' = [beats EXCEPT ![b] = r]
        <4>1. beats' = [beats EXCEPT ![b] = [beats[b] EXCEPT !.pc = "answer",
                 !.desired = IF Sends(beats[b], [generation |-> deployment.generation,
                                                 config |-> Configuration])
                               THEN {[generation |-> deployment.generation, config |-> Configuration]}
                               ELSE {},
                 !.report = IF beats[b].full THEN beats[b].report ELSE {}, !.defer = FALSE]]
          BY <2>1 DEF Build
        <4>2. beats' = [beats EXCEPT ![b] = [s EXCEPT !.pc = "answer",
                 !.desired = IF send THEN {d} ELSE {},
                 !.report = IF s.full THEN s.report ELSE {}, !.defer = FALSE]]
          BY <1>2, <1>5, <1>7, <4>1
        <4> QED BY <3>1, <3>2, <3>3, <4>2
      <3> QED BY <3>1, <3>2, <3>4, <3>5
    <2>2. CASE agent.waits # b
      <3>1. beats' = [beats EXCEPT ![b] = Idle]
        BY <2>2 DEF Build
      <3> QED BY <3>1, IdleTyped
    <2> QED BY <2>1, <2>2
  <1>13. PICK r \in Requests :
           /\ beats' = [beats EXCEPT ![b] = r]
           /\ r.desired \subseteq {d} /\ r.report \subseteq s.report
           /\ r.task \subseteq s.task /\ r.results \subseteq s.results /\ r.accepted \subseteq s.accepted
    BY <1>12
  <1>14. /\ beats' \in [Beats -> Requests]
         /\ \A x \in InBeats("desired")' : x \in InBeats("desired") \/ x = d
         /\ \A x \in InBeats("report")' : x \in InBeats("report")
         /\ \A x \in InBeats("task")' : x \in InBeats("task")
         /\ \A x \in InBeats("results")' : x \in InBeats("results")
         /\ \A x \in InBeats("accepted")' : x \in InBeats("accepted")
    BY <1>1, <1>2, <1>13, OneBeat, OfBeat
  <1>15. wire' \subseteq wire \cup {d} /\ faults' \in 0 .. MaxFaults
    <2>1. UNCHANGED <<wire, faults>> \/ (Fault /\ wire' = wire \cup {d})
      BY <1>5 DEF Build
    <2> QED BY <2>1, FaultTyped DEF Inv, Typed
  <1>16. Typed'
    BY <1>3, <1>6, <1>8, <1>10, <1>11, <1>14, <1>15 DEF Inv, Typed
  <1>17. \A x \in Circulating' : x \in Circulating \/ x = d
    BY <1>3, <1>14, <1>15 DEF Circulating
  <1>18. /\ Observations' \subseteq Observations /\ Assigned' \subseteq Assigned
         /\ Results' \subseteq Results /\ Confirmed' \subseteq Confirmed
    BY <1>3, <1>14 DEF Observations, Assigned, Results, Kept, Confirmed
  <1>19. \A x \in Circulating' : \/ x \in Circulating
                                 \/ x.generation = deployment'.generation /\ x.config = Configuration'
    BY <1>4, <1>6, <1>8, <1>17
  <1>20. deployment.generation <= deployment'.generation
    <2>1. deployment.generation \in Nat
      BY <1>1, Bounds DEF Deployments
    <2> QED BY <1>8, <2>1
  <1>21. \A i \in Inbounds : Onward(i)
    BY <1>3 DEF Onward
  <1> QED BY <1>3, <1>8, <1>11, <1>16, <1>18, <1>19, <1>20, <1>21, PanelMoves

-----------------------------------------------------------------------------
(* The initial states. *)

LEMMA FreshTyped ==
  /\ FreshAgent \in Agents /\ FreshAgent.version = "none" /\ FreshAgent.artifact = FALSE
  /\ FreshAgent.generation = 0 /\ FreshAgent.config = {} /\ FreshAgent.job = {}
  /\ FreshAgent.pending = {} /\ FreshAgent.queue = << >> /\ FreshAgent.sent = {}
  /\ FreshAgent.results = [id \in OperationIds |-> "none"]
  <1>1. PICK g \in Generations : g = 0
    BY Bounds
  <1>2. PICK m \in Marks : m = NoGeneration
    BY Bounds
  <1>3. PICK c \in Configs : c = {}
    BY DEF Configs
  <1>4. PICK q \in Seq(Tasks) : q = << >>
    BY EmptySeq
  <1>5. PICK w \in {0} \cup Beats : w = 0
    OBVIOUS
  <1>6. PICK rs \in [OperationIds -> {"none", "SUCCESS", "FAILED"}] : rs = [id \in OperationIds |-> "none"]
    OBVIOUS
  <1>7. FreshAgent =
          [version |-> "none", artifact |-> FALSE, generation |-> g, config |-> c,
           up |-> FALSE, failure |-> m, sent |-> {}, fresh |-> FALSE, job |-> {}, pending |-> {},
           highest |-> m, queue |-> q, results |-> rs, waits |-> w]
    BY <1>1, <1>2, <1>3, <1>4, <1>5, <1>6 DEF FreshAgent
  <1>8. FreshAgent \in Agents
    BY <1>7 DEF Agents, Versions
  <1> QED BY <1>8 DEF FreshAgent

\* Nothing is under way.
LEMMA QuietStart ==
  ASSUME beats = [b \in Beats |-> Idle], wire = {}, agent.job = {}, agent.pending = {},
         agent.queue = << >>, agent.results = [id \in OperationIds |-> "none"]
  PROVE  /\ beats \in [Beats -> Requests]
         /\ Circulating = {} /\ Assigned = {} /\ Results = {} /\ Confirmed = {}
         /\ Observations = report
  <1>1. beats \in [Beats -> Requests] /\ \A b \in Beats : beats[b] = Idle
    BY IdleTyped
  <1>2. /\ InBeats("desired") = {} /\ InBeats("report") = {} /\ InBeats("task") = {}
        /\ InBeats("results") = {} /\ InBeats("accepted") = {}
    BY <1>1, IdleTyped DEF InBeats
  <1>3. Circulating = {} /\ Confirmed = {} /\ Observations = report
    BY <1>2 DEF Circulating, Confirmed, Observations
  <1>4. Kept = {}
    BY DEF Kept
  <1>5. Assigned = {}
    BY <1>2 DEF Assigned
  <1> QED BY <1>1, <1>2, <1>3, <1>4, <1>5 DEF Results

LEMMA InitInv == Init => Inv
  <1> SUFFICES ASSUME Init PROVE Inv
    OBVIOUS
  <1>1. /\ operations \in [OperationIds -> Rows] /\ \A id \in OperationIds : operations[id] = Unused
        /\ \A id \in OperationIds : Row(operations[id]) /\ Truthful(operations[id])
    BY UnusedTyped DEF Init, Row, Truthful
  <1>2. faults \in 0 .. MaxFaults /\ wire = {} /\ beats = [b \in Beats |-> Idle]
    <2>1. 0 \in 0 .. MaxFaults
      BY Bounds
    <2> QED BY <2>1 DEF Init
  <1>3. ASSUME agent = FreshAgent, inbounds = [i \in Inbounds |-> [is |-> "absent", at |-> 0]],
               deployment = [known |-> FALSE, generation |-> 0, hash |-> {}, last |-> 0],
               report = {}
        PROVE  Inv
    <2>1. PICK g \in Generations : g = 0
      BY Bounds
    <2>2. PICK l \in {0} \cup OperationIds : l = 0
      OBVIOUS
    <2>3. deployment = [known |-> FALSE, generation |-> g, hash |-> {}, last |-> l]
      BY <1>3, <2>1, <2>2
    <2>4. deployment \in Deployments /\ deployment.generation = g /\ deployment.hash = {}
      BY <2>3 DEF Deployments
    <2>5. inbounds \in [Inbounds -> Lines] /\ \A i \in Inbounds : inbounds[i].is = "absent"
      <3>1. inbounds = [i \in Inbounds |-> [is |-> "absent", at |-> g]]
        BY <1>3, <2>1
      <3> QED BY <3>1 DEF Lines
    <2>6. /\ beats \in [Beats -> Requests]
          /\ Circulating = {} /\ Assigned = {} /\ Results = {} /\ Confirmed = {}
          /\ Observations = {}
      BY <1>2, <1>3, FreshTyped, QuietStart
    <2>7. Len(agent.queue) <= QueueSize
      BY <1>3, FreshTyped, Bounds, EmptySeq
    <2>8. Typed
      BY <1>1, <1>2, <1>3, <2>4, <2>5, <2>6, <2>7, FreshTyped DEF Typed, AtMostOne
    <2>9. DesiredDated
      BY <2>4, <2>6 DEF DesiredDated
    <2>10. AgentDated
      BY <1>3, <2>1, <2>4, FreshTyped DEF AgentDated, Dated
    <2>11. GoneApplied
      BY <2>5 DEF GoneApplied
    <2>12. ObservedBehind /\ TasksKnown /\ ResultsTrue /\ ConfirmedRecorded
      BY <2>6 DEF ObservedBehind, TasksKnown, ResultsTrue, ConfirmedRecorded
    <2> QED BY <1>1, <2>8, <2>9, <2>10, <2>11, <2>12 DEF Inv, AllTruthful
  <1>4. ASSUME NEW config \in Configs,
               agent = [FreshAgent EXCEPT !.version = "old", !.generation = 1,
                                          !.config = config, !.up = TRUE],
               inbounds = [i \in Inbounds |-> IF i \in config
                             THEN [is |-> "live", at |-> 1] ELSE [is |-> "absent", at |-> 0]],
               deployment = [known |-> TRUE, generation |-> 1, hash |-> {config}, last |-> 0],
               report = {Observe}
        PROVE  Inv
    <2>1. PICK g \in Generations : g = 0
      BY Bounds
    <2>2. PICK h \in Generations : h = 1
      BY BoundsAssumption DEF Generations
    <2>3. PICK l \in {0} \cup OperationIds : l = 0
      OBVIOUS
    <2>4. deployment = [known |-> TRUE, generation |-> h, hash |-> {config}, last |-> l]
      BY <1>4, <2>2, <2>3
    <2>5. deployment \in Deployments /\ deployment.generation = h /\ deployment.hash = {config}
      BY <2>4 DEF Deployments
    <2>6. agent = [FreshAgent EXCEPT !.version = "old", !.generation = h, !.config = config, !.up = TRUE]
      BY <1>4, <2>2
    <2>7. /\ agent \in Agents /\ agent.version = "old" /\ agent.generation = h /\ agent.config = config
          /\ agent.job = {} /\ agent.pending = {} /\ agent.queue = << >>
          /\ agent.results = [id \in OperationIds |-> "none"]
      BY <2>6, FreshTyped DEF Agents, Versions
    <2>8. inbounds = [i \in Inbounds |-> IF i \in config
                        THEN [is |-> "live", at |-> h] ELSE [is |-> "absent", at |-> g]]
      BY <1>4, <2>1, <2>2
    <2>9. /\ inbounds \in [Inbounds -> Lines]
          /\ \A i \in Inbounds : inbounds[i].is = IF i \in config THEN "live" ELSE "absent"
      BY <2>8 DEF Lines
    <2>10. config \subseteq Inbounds /\ Configuration = config
      BY <2>9 DEF Configs, Configuration, Live
    <2>11. /\ beats \in [Beats -> Requests]
           /\ Circulating = {} /\ Assigned = {} /\ Results = {} /\ Confirmed = {}
           /\ Observations = report
      BY <1>2, <2>7, QuietStart
    <2>12. /\ Observe \in Observed /\ Observe.generation = h
           /\ Observe.hash # {} => Observe.version = "old"
      BY <2>7, ObserveTyped
    <2>13. Len(agent.queue) <= QueueSize
      BY <2>7, Bounds, EmptySeq
    <2>14. report \subseteq Observed /\ AtMostOne(report)
      BY <1>4, <2>12 DEF AtMostOne
    <2>15. Typed
      BY <1>1, <1>2, <2>5, <2>7, <2>9, <2>11, <2>13, <2>14 DEF Typed, AtMostOne
    <2>16. DesiredDated
      BY <2>5, <2>10, <2>11 DEF DesiredDated
    <2>17. AgentDated
      BY <2>2, <2>5, <2>7, <2>9, <2>10 DEF AgentDated, Dated
    <2>18. GoneApplied
      BY <2>9 DEF GoneApplied
    <2>19. ObservedBehind
      BY <1>4, <2>2, <2>7, <2>11, <2>12 DEF ObservedBehind, Behind
    <2>20. TasksKnown /\ ResultsTrue /\ ConfirmedRecorded
      BY <2>11 DEF TasksKnown, ResultsTrue, ConfirmedRecorded
    <2> QED BY <1>1, <2>15, <2>16, <2>17, <2>18, <2>19, <2>20 DEF Inv, AllTruthful
  <1> QED BY <1>3, <1>4 DEF Init

-----------------------------------------------------------------------------
(* The theorems. *)

LEMMA StutterInv == Inv /\ UNCHANGED vars => Inv'
  <1> SUFFICES ASSUME Inv, UNCHANGED vars PROVE Inv'
    OBVIOUS
  <1>1. UNCHANGED <<deployment, inbounds, operations, report, agent, beats, wire, faults>>
    BY DEF vars
  <1>2. Typed'
    BY <1>1 DEF Inv, Typed, Row
  <1>3. /\ Circulating' = Circulating /\ Observations' = Observations /\ Assigned' = Assigned
        /\ Results' = Results /\ Confirmed' = Confirmed
    BY <1>1 DEF Circulating, Observations, Assigned, Results, Kept, Confirmed, InBeats
  <1> QED BY <1>1, <1>2, <1>3, AgentStays

LEMMA NextInv == Inv /\ [Next]_vars => Inv'
  <1> SUFFICES ASSUME Inv, [Next]_vars PROVE Inv'
    OBVIOUS
  <1>1. ASSUME NEW i \in Inbounds, CreateInbound(i) \/ RemoveInbound(i) PROVE Inv'
    <2>1. CASE CreateInbound(i)
      <3>1. Mutate(i, "absent", "live")
        BY <2>1 DEF CreateInbound
      <3> QED BY <3>1, MutateInv
    <2>2. CASE RemoveInbound(i)
      <3>1. Mutate(i, "live", "deleting")
        BY <2>2 DEF RemoveInbound
      <3> QED BY <3>1, MutateInv
    <2> QED BY <1>1, <2>1, <2>2
  <1>2. CASE CreateInstall \/ CreateUpgrade \/ CreateRestart
    <2>1. PICK type \in Types : CreateTask(type)
      BY <1>2 DEF CreateInstall, CreateUpgrade, CreateRestart, Types
    <2> QED BY <2>1, CreateTaskInv
  <1>3. CASE CreateSync
    BY <1>3, CreateSyncInv
  <1>4. ASSUME NEW b \in Beats, Handle(b) \/ Lose(b) PROVE Inv'
    <2>1. CASE Receive(b)
      BY <2>1, ReceiveInv
    <2>2. CASE Take(b, FALSE) \/ Take(b, TRUE)
      <3>1. PICK late \in BOOLEAN : Take(b, late)
        BY <2>2
      <3> QED BY <3>1, TakeInv
    <2>3. CASE Build(b)
      BY <2>3, BuildInv
    <2>4. CASE Answer(b)
      BY <2>4, AnswerInv
    <2>5. CASE Lose(b)
      BY <2>5, LoseInv
    <2> QED BY <1>4, <2>1, <2>2, <2>3, <2>4, <2>5 DEF Handle
  <1>5. CASE Beat \/ RunJob \/ RunTask
    BY <1>5, BeatInv, RunJobInv, RunTaskInv
  <1>6. ASSUME NEW d \in wire, Push(d) PROVE Inv'
    BY <1>6, PushInv
  <1>7. CASE Crash \/ GiveUp \/ Die \/ Revive
    BY <1>7, CrashInv, GiveUpInv, DieReviveInv
  <1>8. CASE UNCHANGED vars
    BY <1>8, StutterInv
  <1> QED BY <1>1, <1>2, <1>3, <1>4, <1>5, <1>6, <1>7, <1>8 DEF Next, Admin

\* The panel and the Agent keep the whole invariant, however heartbeats are
\* lost, overtaken or answered late, and whenever the Agent starts again.
THEOREM ConvergenceInvariance == Spec => []Inv
  BY InitInv, NextInv, PTL DEF Spec

\* deleteAppliedPendingXrayRecordsWithinHostLock never takes a row, and with
\* it a port, from under a listener: the Agent runs nothing but rows that are
\* there, for any number of inbounds, heartbeats and faults.
THEOREM ListenersHaveRows == Spec => []RowBehindListener
  <1>1. Inv => RowBehindListener
    <2> SUFFICES ASSUME Inv, NEW i \in agent.config
                 PROVE  inbounds[i].is \in {"live", "deleting"}
      BY DEF RowBehindListener
    <2>1. agent \in Agents /\ inbounds \in [Inbounds -> Lines]
      BY DEF Inv, Typed
    <2>2. i \in Inbounds
      BY <2>1 DEF Agents, Configs
    <2>3. inbounds[i] \in Lines /\ agent.generation \in Nat
      BY <2>1, <2>2, Bounds DEF Agents
    <2>4. inbounds[i].is \in {"absent", "live", "deleting", "gone"} /\ inbounds[i].at \in Nat
      BY <2>3, Bounds DEF Lines
    <2>5. inbounds[i].is # "absent" /\ (inbounds[i].is = "gone" => agent.generation < inbounds[i].at)
      BY DEF Inv, AgentDated, Dated
    <2>6. inbounds[i].is = "gone" => inbounds[i].at <= agent.generation
      BY <2>2 DEF Inv, GoneApplied
    <2>7. inbounds[i].is # "gone"
      BY <2>3, <2>4, <2>5, <2>6
    <2> QED BY <2>4, <2>5, <2>7
  <1> QED BY <1>1, ConvergenceInvariance, PTL

\* An operation the panel shows as SUCCESS did succeed on the host, also when
\* its result, or the report that concluded it, came late, twice or after
\* another operation.
THEOREM SuccessHolds == Spec => []SuccessIsTrue
  <1>1. Inv => SuccessIsTrue
    <2> SUFFICES ASSUME Inv, NEW id \in OperationIds, operations[id].status = "SUCCESS"
                 PROVE  CASE operations[id].type = "SYNC"    -> agent.generation >= operations[id].generation
                          [] operations[id].type = "UPGRADE" -> agent.version = "new"
                          [] operations[id].type = "INSTALL" -> agent.artifact
                          [] operations[id].type = "RESTART" -> agent.version # "none"
      BY DEF SuccessIsTrue
    <2>1. Row(operations[id]) /\ Truthful(operations[id])
      BY DEF Inv, Typed, AllTruthful
    <2>2. operations[id].type \in Types
      BY <2>1, UnusedTyped DEF Row
    <2>3. operations[id].generation \in Nat /\ agent.generation \in Nat
      BY Bounds DEF Inv, Typed, Rows, Agents
    <2>4. CASE operations[id].type = "SYNC"
      BY <2>1, <2>3, <2>4 DEF Truthful
    <2>5. CASE operations[id].type = "UPGRADE"
      BY <2>1, <2>5 DEF Truthful
    <2>6. CASE operations[id].type = "INSTALL"
      BY <2>1, <2>6 DEF Truthful
    <2>7. CASE operations[id].type = "RESTART"
      BY <2>1, <2>7 DEF Truthful
    <2> QED BY <2>2, <2>4, <2>5, <2>6, <2>7 DEF Types
  <1> QED BY <1>1, ConvergenceInvariance, PTL

LEMMA AtMostOneCounted ==
  ASSUME NEW S, AtMostOne(S)
  PROVE  Cardinality(S) <= 1
  <1>1. CASE S = {}
    BY <1>1, FS_EmptySet
  <1>2. ASSUME NEW x \in S, S = {x} PROVE Cardinality(S) <= 1
    <2>1. Cardinality({x}) = 1
      BY FS_Singleton
    <2> QED BY <1>2, <2>1
  <1> QED BY <1>1, <1>2 DEF AtMostOne

\* buildXrayHeartbeatDesiredState never meets a hash that is not that of the
\* rows, so no host is ever cut off by that conflict; and every table and the
\* Agent keep their types.
THEOREM HashNeverConflicts == Spec => []HashIsCurrent
  <1>1. Inv => HashIsCurrent
    <2> SUFFICES ASSUME Inv PROVE HashIsCurrent
      OBVIOUS
    <2>1. Typed /\ deployment.hash \subseteq {Configuration}
      BY DEF Inv, DesiredDated
    <2>2. Cardinality(report) <= 1 /\ Cardinality(agent.job) <= 1 /\ Cardinality(agent.pending) <= 1
      BY <2>1, AtMostOneCounted DEF Typed
    <2>3. \A id \in OperationIds :
            \/ operations[id] = Unused
            \/ /\ operations[id].type \in {"SYNC", "INSTALL", "UPGRADE", "RESTART"}
               /\ operations[id].status \in Open \cup Terminal
               /\ operations[id].generation <= deployment.generation
      BY <2>1 DEF Typed, Row, Types, Statuses
    <2>4. /\ agent.generation \in Generations /\ agent.failure \in Generations \cup {NoGeneration}
          /\ agent.job \subseteq Desired /\ agent.pending \subseteq Desired
      BY <2>1 DEF Typed, Agents, Marks
    <2>5. TypeOK
      BY <2>1, <2>2, <2>3, <2>4 DEF TypeOK, Typed, Deployments, Lines
    <2> QED BY <2>1, <2>5 DEF HashIsCurrent
  <1> QED BY <1>1, ConvergenceInvariance, PTL

\* Which results an action drops: Answer those it has the acceptance of, and
\* no other action any.
Keeps(id) == agent.results[id] # "none" => agent'.results[id] # "none"

LEMMA AnswerForgets ==
  ASSUME Inv, NEW b \in Beats, Answer(b), NEW id \in OperationIds
  PROVE  Keeps(id) \/ Recorded(operations[id])
  <1>1. agent \in Agents /\ beats \in [Beats -> Requests]
        /\ AtMostOne(agent.job) /\ AtMostOne(agent.pending) /\ Len(agent.queue) <= QueueSize
    BY DEF Inv, Typed
  <1>2. PICK r \in Requests : r = beats[b]
    BY <1>1
  <1>3. PICK x \in Agents : x = Acknowledged(agent, r)
    BY <1>1, AcknowledgedTyped
  <1>4. /\ SameJobs(agent, x) /\ x.queue = agent.queue
        /\ x.results[id] = IF id \in r.accepted THEN "none" ELSE agent.results[id]
    BY <1>1, <1>3, AcknowledgedTyped
  <1>5. r.task \in SUBSET Tasks /\ Len(x.queue) <= QueueSize
    BY <1>1, <1>4 DEF Requests
  <1>6. PICK a \in Agents : a = Enqueued(x, r.task)
    BY <1>5, EnqueuedTyped
  <1>7. SameJobs(x, a) /\ a.results = x.results
    BY <1>5, <1>6, EnqueuedTyped
  <1>8. agent' = IF r.ask THEN Asked(a)
                 ELSE IF r.desired = {} THEN a ELSE Schedule(a, CHOOSE d \in r.desired : TRUE)
    BY <1>2, <1>3, <1>6 DEF Answer
  <1>9. AtMostOne(a.job) /\ AtMostOne(a.pending)
    BY <1>1, <1>4, <1>7 DEF SameJobs
  <1>10. agent'.results = a.results
    <2>1. CASE r.ask
      BY <1>8, <2>1, AskedTyped DEF SameWork
    <2>2. CASE ~r.ask /\ r.desired = {}
      BY <1>8, <2>2
    <2>3. CASE ~r.ask /\ r.desired # {}
      <3>1. PICK d \in r.desired : d = CHOOSE e \in r.desired : TRUE
        BY <2>3
      <3>2. d \in Desired
        BY DEF Requests
      <3>3. agent' = Schedule(a, d)
        BY <1>8, <2>3, <3>1
      <3> QED BY <1>9, <3>2, <3>3, ScheduleTyped DEF SameWork
    <2> QED BY <2>1, <2>2, <2>3
  <1>11. CASE id \in r.accepted
    <2>1. id \in Confirmed
      BY <1>1, <1>2, <1>11, OfBeat DEF Confirmed
    <2> QED BY <2>1 DEF Inv, ConfirmedRecorded
  <1>12. CASE id \notin r.accepted
    BY <1>4, <1>7, <1>10, <1>12 DEF Keeps
  <1> QED BY <1>11, <1>12

LEMMA OthersKeep ==
  ASSUME Inv, [Next]_vars, \A b \in Beats : ~Answer(b), NEW id \in OperationIds
  PROVE  Keeps(id)
  <1>1. agent \in Agents /\ AtMostOne(agent.job) /\ AtMostOne(agent.pending)
    BY DEF Inv, Typed
  <1>2. agent.results \in [OperationIds -> {"none", "SUCCESS", "FAILED"}]
    BY <1>1 DEF Agents
  <1>3. CASE agent' = agent
    BY <1>3 DEF Keeps
  <1>4. CASE SameWork(agent, agent')
    BY <1>4 DEF SameWork, Keeps
  <1>5. CASE Admin
    BY <1>3, <1>5 DEF Admin, CreateInbound, RemoveInbound, Mutate, CreateInstall, CreateUpgrade,
                      CreateRestart, CreateTask, CreateSync
  <1>6. ASSUME NEW b \in Beats, Handle(b) \/ Lose(b) PROVE Keeps(id)
    <2>1. CASE Receive(b) \/ Take(b, FALSE) \/ Take(b, TRUE) \/ Build(b)
      BY <1>3, <2>1 DEF Receive, Take, Build
    <2>2. CASE Lose(b)
      <3>1. agent' = [agent EXCEPT !.waits = 0, !.fresh = FALSE] \/ agent' = agent
        BY <2>2 DEF Lose
      <3> QED BY <1>1, <1>3, <1>4, <3>1, StopsWaiting
    <2> QED BY <1>6, <2>1, <2>2 DEF Handle
  <1>7. CASE Beat
    <2>1. PICK b \in Beats : agent' = [agent EXCEPT !.waits = b, !.fresh = FALSE]
      BY <1>7 DEF Beat
    <2>2. SameWork(agent, agent')
      BY <1>1, <2>1 DEF Agents, SameWork
    <2> QED BY <1>4, <2>2
  <1>8. CASE RunJob
    <2>1. PICK d \in agent.job : Apply(d)
      BY <1>8 DEF RunJob
    <2>2. d \in Desired /\ d.generation \in Generations /\ d.config \in Configs /\ d.generation \in Marks
      BY <1>1, Bounds DEF Agents, Desired
    <2>3. \E a \in Agents : SameWork(agent, a) /\ agent' = NextJob(a)
      <3>1. CASE agent' = NextJob(FailedAt(agent, d.generation))
        BY <1>1, <2>2, <3>1, FailedAtTyped
      <3>2. CASE agent' = NextJob([agent EXCEPT !.failure = NoGeneration])
        <4>1. PICK a : a = [agent EXCEPT !.failure = NoGeneration]
          OBVIOUS
        <4>2. a \in Agents /\ SameWork(agent, a)
          BY <1>1, <4>1, Bounds DEF Agents, SameWork
        <4> QED BY <3>2, <4>1, <4>2
      <3>3. CASE agent' = NextJob([agent EXCEPT !.failure = NoGeneration, !.version = "new",
                    !.generation = d.generation, !.config = d.config, !.up = d.config # {}])
        <4>1. PICK u \in BOOLEAN : u = (d.config # {})
          OBVIOUS
        <4>2. PICK a : a = [agent EXCEPT !.failure = NoGeneration, !.version = "new",
                              !.generation = d.generation, !.config = d.config, !.up = u]
          OBVIOUS
        <4>3. a \in Agents /\ SameWork(agent, a)
          BY <1>1, <2>2, <4>2, Bounds DEF Agents, Versions, SameWork
        <4> QED BY <3>3, <4>1, <4>2, <4>3
      <3> QED BY <2>1, <3>1, <3>2, <3>3 DEF Apply
    <2>4. SameWork(agent, agent')
      BY <2>3, NextJobTyped DEF SameWork
    <2> QED BY <1>4, <2>4
  <1>9. CASE RunTask
    <2>1. PICK t \in Tasks : t = Head(agent.queue)
      BY <1>9, HeadTask DEF RunTask
    <2>2. t.id \in OperationIds
      BY DEF Tasks
    <2>3. PICK q \in Seq(Tasks) : q = Tail(agent.queue)
      BY <1>9, HeadTask DEF RunTask
    <2>4. CASE agent' = [agent EXCEPT !.queue = Tail(@)]
      <3>1. agent' = [agent EXCEPT !.queue = q]
        BY <2>3, <2>4
      <3>2. agent'.results = agent.results
        BY <1>1, <3>1 DEF Agents
      <3> QED BY <3>2 DEF Keeps
    <2>5. ASSUME NEW a \in Agents, SameWork(agent, a), NEW outcome \in {"SUCCESS", "FAILED"},
                 agent' = Finish(a, t, outcome)
          PROVE  Keeps(id)
      <3>1. PICK m \in [OperationIds -> {"none", "SUCCESS", "FAILED"}] :
              m = [agent.results EXCEPT ![t.id] = outcome]
        BY <1>2
      <3>2. agent' = [a EXCEPT !.queue = q, !.results = m]
        BY <2>3, <2>5, <3>1 DEF Finish, SameWork
      <3>3. agent'.results = m
        BY <3>2 DEF Agents
      <3>4. m[id] = outcome \/ m[id] = agent.results[id]
        BY <1>2, <2>2, <3>1
      <3> QED BY <3>3, <3>4 DEF Keeps
    <2>6. SameWork(agent, agent) /\ Done(agent, t) \in Agents /\ SameWork(agent, Done(agent, t))
      BY <1>1, DoneTyped DEF SameWork
    <2> QED BY <1>1, <1>9, <2>1, <2>4, <2>5, <2>6 DEF RunTask
  <1>10. ASSUME NEW d \in wire, Push(d) PROVE Keeps(id)
    <2>1. d \in Desired /\ agent' = Schedule(agent, d)
      BY <1>10 DEF Inv, Typed, Push
    <2>2. SameWork(agent, agent')
      BY <1>1, <2>1, ScheduleTyped
    <2> QED BY <1>4, <2>2
  <1>11. CASE Crash
    <2>1. \E a \in Agents : SameWork(agent, a) /\ agent' = Rebooted(a)
      <3>1. CASE agent' = Rebooted(agent)
        BY <1>1, <3>1 DEF SameWork
      <3>2. CASE agent.queue # <<>> /\ agent' = Rebooted(Done(agent, Head(agent.queue)))
        BY <1>1, <3>2, HeadTask, DoneTyped
      <3> QED BY <1>11, <3>1, <3>2 DEF Crash
    <2>2. agent'.results = agent.results
      BY <2>1, RebootedTyped DEF SameWork
    <2> QED BY <2>2 DEF Keeps
  <1>12. CASE GiveUp
    BY <1>1, <1>4, <1>12, StopsWaiting DEF GiveUp
  <1>13. CASE Die \/ Revive
    <2>1. PICK u \in BOOLEAN : agent' = [agent EXCEPT !.up = u]
      BY <1>13 DEF Die, Revive
    <2>2. SameWork(agent, agent')
      BY <1>1, <2>1 DEF Agents, SameWork
    <2> QED BY <1>4, <2>2
  <1>14. CASE UNCHANGED vars
    BY <1>3, <1>14 DEF vars
  <1> QED BY <1>5, <1>6, <1>7, <1>8, <1>9, <1>10, <1>11, <1>12, <1>13, <1>14 DEF Next

\* commitXrayHeartbeatState and acknowledgeXrayTaskResultsAt drop a result
\* only after the panel has taken note of it, whatever was lost or handled
\* twice before.
THEOREM ResultsOutliveDelivery == Spec => ResultsKept
  <1> DEFINE Step ==
        \A id \in OperationIds :
          agent.results[id] # "none" /\ agent'.results[id] = "none" =>
            operations[id].status \in Terminal \/ operations[id].stage = "INSTALL_COMPLETE"
  <1>1. Inv /\ [Next]_vars => Step
    <2> SUFFICES ASSUME Inv, [Next]_vars, NEW id \in OperationIds
                 PROVE  Keeps(id) \/ Recorded(operations[id])
      BY DEF Keeps, Recorded
    <2> QED BY AnswerForgets, OthersKeep
  <1>2. Inv /\ [Next]_vars => [Step]_vars
    BY <1>1
  <1> HIDE DEF Step
  <1>3. Spec => [][Step]_vars
    BY <1>2, ConvergenceInvariance, PTL DEF Spec
  <1> USE DEF Step
  <1> QED BY <1>3 DEF ResultsKept
=============================================================================
