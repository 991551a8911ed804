---------------------------- MODULE HeartbeatGate ----------------------------
(***************************************************************************)
(* Which heartbeats the panel works on, and which it answers from a plan.  *)
(* A full reconciliation of a host is expensive: AgentHeartbeatGate lets   *)
(* one per host and a few at a time through, and queues the hosts it turns *)
(* away; a host whose last reconciliation left nothing to do is answered   *)
(* from its stable plan, until something invalidates the plan or it is old *)
(* enough for an audit.                                                    *)
(*                                                                         *)
(* Time is abstract: what is "recent", "stale" or "aged" becomes so in a   *)
(* step of its own.  A configuration is the number of changes made to the  *)
(* host's rows; what an Agent runs, reports and acknowledges is the number *)
(* it was last answered.                                                   *)
(***************************************************************************)
EXTENDS Integers, FiniteSets, Sequences, SequencesExt

CONSTANTS
  Hosts,           \* the hosts
  Edited,          \* the hosts whose rows an administrator changes
  MaxConcurrent,   \* maxConcurrent of the gate
  MaxChanges,      \* bound: changes to the rows of an edited host
  MaxFaults        \* bound: restarts, departures, requests given up and
                   \* handlers that throw

ASSUME GateAssumption ==
  /\ Edited \subseteq Hosts
  /\ MaxConcurrent \in Nat \ {0}
  /\ MaxChanges \in Nat
  /\ MaxFaults \in Nat

VARIABLES
  gate,      \* agentHeartbeatGate: active, completedAt, waiting, waitingSince
  plan,      \* agentStableHeartbeatPlanCache
  work,      \* the reconciliations the panel is in the middle of
  config,    \* the configuration in the rows of each host
  dirty,     \* hosts whose rows have changed and whose plan has not been dropped
  running,   \* the configuration each Agent runs
  wake,      \* Agents that a refresh event has told to force a heartbeat
  awaits,    \* Agents that wait for the answer of a reconciliation
  online,    \* Agents that send full heartbeats
  faults

vars == <<gate, plan, work, config, dirty, running, wake, awaits, online, faults>>

Configs == 0 .. MaxChanges
Plan    == [built : Configs, aged : BOOLEAN]
Work    == [host : Hosts, pc : {"match", "finish"}, force : BOOLEAN,
            reported : Configs, seen : Configs]

Empty == [active |-> {}, recent |-> {}, waiting |-> <<>>, stale |-> {}]

Fault == faults < MaxFaults /\ faults' = faults + 1

-----------------------------------------------------------------------------
(* AgentHeartbeatGate. *)

Waits(g, h) == h \in ToSet(g.waiting)

\* Mutant: a host that no longer asks keeps its place.
PrunedNever(g) == g

\* pruneWaiting drops hosts from the head, and stops at the first one that has
\* asked lately.
Pruned(g) ==
  LET dropped == {i \in DOMAIN g.waiting : \A j \in 1 .. i : g.waiting[j] \in g.stale}
      left    == SubSeq(g.waiting, Cardinality(dropped) + 1, Len(g.waiting))
  IN  [g EXCEPT !.waiting = left, !.stale = @ \cap ToSet(left)]

\* enqueue: a host that waits keeps its place, and has asked just now.
Enqueued(g, h) ==
  [g EXCEPT !.waiting = IF Waits(g, h) THEN @ ELSE Append(@, h),
            !.stale = @ \ {h}]

\* Mutant: a host that is being reconciled may take a second slot.
CoalescesRecent(g, h, force) == ~force /\ h \in g.recent

\* A heartbeat that is not even queued.
Coalesces(g, h, force) == h \in g.active \/ (~force /\ h \in g.recent)

\* A slot is free, and nobody else is first in the queue.
MayEnter(g, h) ==
  /\ Cardinality(g.active) < MaxConcurrent
  /\ g.waiting # <<>> => Head(g.waiting) = h

\* Whoever enters leaves the queue, if there is one, from its head.
Entered(g, h) ==
  [g EXCEPT !.active = @ \cup {h}, !.waiting = IF @ = <<>> THEN @ ELSE Tail(@),
            !.stale = @ \ {h}]

\* What the closure that tryAcquire returns does.
Released(g, h) == [g EXCEPT !.active = @ \ {h}, !.recent = @ \cup {h}]

-----------------------------------------------------------------------------
(* The heartbeat route. *)

\* tryAcquire, from a full heartbeat.  A refresh event makes the heartbeat a
\* forced one, and is forgotten whether the gate opens or not.
Ask(h) ==
  LET g     == Pruned(gate)
      force == h \in wake
  IN  /\ h \in online \ awaits
      /\ wake' = wake \ {h}
      /\ \/ /\ Coalesces(g, h, force)
            /\ gate' = g
            /\ UNCHANGED <<work, awaits>>
         \/ /\ ~Coalesces(g, h, force) /\ ~MayEnter(g, h)
            /\ gate' = Enqueued(g, h)
            /\ UNCHANGED <<work, awaits>>
         \/ /\ ~Coalesces(g, h, force) /\ MayEnter(g, h)
            /\ gate' = Entered(g, h)
            /\ work' = work \cup {[host |-> h, pc |-> "match", force |-> force,
                                   reported |-> running[h], seen |-> 0]}
            /\ awaits' = awaits \cup {h}
      /\ UNCHANGED <<plan, config, dirty, running, online, faults>>

\* Mutant: a plan is good for ever.
MatchesForever(w) ==
  ~w.force /\ \E p \in plan[w.host] : p.built = w.reported

\* AgentStableHeartbeatPlanCache.match.
Matches(w) ==
  /\ ~w.force
  /\ \E p \in plan[w.host] : ~p.aged /\ p.built = w.reported

\* The plan answers, or the rows of the host are read.
Match(w) ==
  /\ w.pc = "match"
  /\ \/ /\ Matches(w)
        /\ work' = work \ {w}
        /\ gate' = Released(gate, w.host)
        /\ awaits' = awaits \ {w.host}
     \/ /\ ~Matches(w)
        /\ work' = (work \ {w}) \cup {[w EXCEPT !.pc = "finish", !.seen = config[w.host]]}
        /\ UNCHANGED <<gate, awaits>>
  /\ UNCHANGED <<plan, config, dirty, running, wake, online, faults>>

\* The answer, long after the rows were read: an Agent that already runs what
\* they said has nothing to do, and that becomes its plan.
Finish(w) ==
  LET h == w.host
  IN  /\ w.pc = "finish"
      /\ plan' = [plan EXCEPT ![h] =
           IF w.reported = w.seen THEN {[built |-> w.seen, aged |-> FALSE]} ELSE {}]
      /\ running' = IF h \in awaits THEN [running EXCEPT ![h] = w.seen] ELSE running
      /\ awaits' = awaits \ {h}
      /\ work' = work \ {w}
      /\ gate' = Released(gate, h)
      /\ UNCHANGED <<config, dirty, wake, online, faults>>

\* Somewhere before that the handler throws: the Agent hears of an error and
\* the slot is given back; the plan is neither made nor dropped.
Throw(w) ==
  /\ Fault
  /\ work' = work \ {w}
  /\ gate' = Released(gate, w.host)
  /\ awaits' = awaits \ {w.host}
  /\ UNCHANGED <<plan, config, dirty, running, wake, online>>

\* An administrator's change is in the rows ...
Change(h) ==
  /\ h \in Edited \ dirty
  /\ config[h] < MaxChanges
  /\ config' = [config EXCEPT ![h] = @ + 1]
  /\ dirty' = dirty \cup {h}
  /\ UNCHANGED <<gate, plan, work, running, wake, awaits, online, faults>>

\* ... and recordConfigAuditEvent and pushAgentRefresh drop the plan; the
\* event reaches an Agent whose stream is up.
Notify(h) ==
  /\ h \in dirty
  /\ dirty' = dirty \ {h}
  /\ plan' = [plan EXCEPT ![h] = {}]
  /\ \/ h \in online /\ wake' = wake \cup {h}
     \/ UNCHANGED wake
  /\ UNCHANGED <<gate, work, config, running, awaits, online, faults>>

-----------------------------------------------------------------------------
(* Time. *)

\* coalesceMs after a reconciliation.
Cool(h) ==
  /\ h \in gate.recent
  /\ gate' = [gate EXCEPT !.recent = @ \ {h}]
  /\ UNCHANGED <<plan, work, config, dirty, running, wake, awaits, online, faults>>

\* waitingTimeoutMs after the last heartbeat: an Agent that is turned away
\* asks again within five seconds, so only a silent one grows stale.
Stale(h) ==
  /\ Waits(gate, h) /\ h \notin online \cup gate.stale
  /\ gate' = [gate EXCEPT !.stale = @ \cup {h}]
  /\ UNCHANGED <<plan, work, config, dirty, running, wake, awaits, online, faults>>

\* auditIntervalMs after a plan was made.
Age(h) ==
  /\ \E p \in plan[h] : ~p.aged
  /\ plan' = [plan EXCEPT ![h] = {[p EXCEPT !.aged = TRUE] : p \in @}]
  /\ UNCHANGED <<gate, work, config, dirty, running, wake, awaits, online, faults>>

-----------------------------------------------------------------------------
(* Faults. *)

\* An Agent stops sending full heartbeats: it is gone, or busy with actions.
Leave(h) ==
  /\ Fault
  /\ h \in online
  /\ online' = online \ {h}
  /\ awaits' = awaits \ {h}
  /\ wake' = wake \ {h}
  /\ UNCHANGED <<gate, plan, work, config, dirty, running>>

Return(h) ==
  /\ h \notin online
  /\ online' = online \cup {h}
  /\ UNCHANGED <<gate, plan, work, config, dirty, running, wake, awaits, faults>>

\* The Agent no longer waits for an answer that the panel is still preparing.
GiveUp(h) ==
  /\ Fault
  /\ awaits' = awaits \ {h}
  /\ h \in awaits
  /\ UNCHANGED <<gate, plan, work, config, dirty, running, wake, online>>

\* The panel starts again.
Restart ==
  /\ Fault
  /\ gate' = Empty
  /\ plan' = [h \in Hosts |-> {}]
  /\ work' = {}
  /\ dirty' = {}
  /\ awaits' = {}
  /\ UNCHANGED <<config, running, wake, online>>

-----------------------------------------------------------------------------
Init ==
  /\ gate = Empty
  /\ plan = [h \in Hosts |-> {}]
  /\ work = {}
  /\ config = [h \in Hosts |-> 0]
  /\ running = [h \in Hosts |-> 0]
  /\ dirty = {}
  /\ wake = {}
  /\ awaits = {}
  /\ online = Hosts
  /\ faults = 0

Next ==
  \/ \E h \in Hosts : \/ Ask(h) \/ Change(h) \/ Notify(h)
                      \/ Cool(h) \/ Stale(h) \/ Age(h)
                      \/ Leave(h) \/ Return(h) \/ GiveUp(h)
  \/ \E w \in work : Match(w) \/ Finish(w) \/ Throw(w)
  \/ Restart

\* Agents that are online keep asking, the panel ends what it has begun, and
\* time passes.  An Agent need not come back.
Fairness ==
  /\ \A h \in Hosts : /\ WF_vars(Ask(h)) /\ WF_vars(Notify(h))
                      /\ WF_vars(Cool(h)) /\ WF_vars(Stale(h)) /\ WF_vars(Age(h))
                      /\ WF_vars(\E w \in work : w.host = h /\ (Match(w) \/ Finish(w)))

Spec == Init /\ [][Next]_vars /\ Fairness

-----------------------------------------------------------------------------
(* Properties. *)

\* The state keeps its shape, and no more hosts are reconciled at a time than
\* the gate has slots.
TypeOK ==
  /\ gate.active \subseteq Hosts /\ gate.recent \subseteq Hosts
  /\ gate.waiting \in Seq(Hosts) /\ gate.stale \subseteq Hosts
  /\ Cardinality(gate.active) <= MaxConcurrent
  /\ plan \in [Hosts -> SUBSET Plan]
  /\ work \subseteq Work
  /\ config \in [Hosts -> Configs] /\ running \in [Hosts -> Configs]
  /\ dirty \subseteq Hosts /\ wake \subseteq Hosts
  /\ awaits \subseteq Hosts /\ online \subseteq Hosts
  /\ faults \in 0 .. MaxFaults

\* Every slot belongs to exactly one reconciliation that is under way, none
\* has leaked, and a host has one place: it is reconciled, or it waits once.
\* (And everything keeps its type.)
SlotsExact ==
  /\ TypeOK
  /\ gate.active = {w.host : w \in work}
  /\ Cardinality(work) = Cardinality(gate.active)
  /\ Cardinality(ToSet(gate.waiting)) = Len(gate.waiting)
  /\ gate.active \cap ToSet(gate.waiting) = {}
  /\ gate.stale \subseteq ToSet(gate.waiting)

\* A host that keeps asking is reconciled again and again, however busy the
\* others keep the gate and whoever leaves while waiting in front of it.
Served == \A h \in Hosts : []<>(h \in gate.active \/ h \notin online)

\* A change reaches the Agent, also when its refresh event is lost or comes
\* while the host is being reconciled, and a plan made from the old rows is
\* stored after the change has dropped the plan.
Delivered == <>[](\A h \in online : running[h] = config[h])
=============================================================================
