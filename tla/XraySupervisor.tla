--------------------------- MODULE XraySupervisor ---------------------------
(***************************************************************************)
(* The supervisor of the Agent's Xray process (agent/xray_supervisor.go).  *)
(*                                                                         *)
(* Start, Stop, Restart and Recover are called by one goroutine at a time  *)
(* (the mutex of xrayRuntime); every tracked process has a goroutine that  *)
(* waits for its exit and then becomes the watchdog that starts Xray       *)
(* again.  All of them take transitionMu for a whole transition, and mu    *)
(* for each look at the supervisor's fields: what runs under mu is one     *)
(* step here.  A launch spec stands for a binary, a configuration and the  *)
(* hashes of both; the one whose files are on disk is the one that         *)
(* validateSpec accepts.                                                   *)
(***************************************************************************)
EXTENDS Naturals, FiniteSets

CONSTANTS
    Specs,          \* launch specs
    NoSpec,
    MaxRestarts,    \* maxRestarts
    MaxLaunches,    \* bound on processes
    MaxCalls,       \* bound on calls
    MaxFaults,      \* bound on failed launches, writes and reads
    MaxDeaths,      \* bound on unexpected exits
    MaxCrashes      \* bound on crashes of the Agent

ASSUME SupervisorAssumption ==
    /\ NoSpec \notin Specs
    /\ MaxRestarts \in Nat /\ MaxLaunches \in Nat
    /\ MaxCalls \in Nat /\ MaxFaults \in Nat /\ MaxDeaths \in Nat /\ MaxCrashes \in Nat

Pids == 1 .. MaxLaunches
NoProc == 0
\* Goroutine 0 is the caller's, goroutine p belongs to process p.
Caller == 0
Threads == 0 .. MaxLaunches

VARIABLES
    proc,      \* the operating system's processes: [st, spec]
    sup,       \* the fields of xraySupervisor that mu guards
    born,      \* tracked.epoch of every process
    pc,        \* where each goroutine is
    arg,       \* the spec each goroutine works with
    op,        \* the call that is being served
    hold,      \* locals of the transition that holds transitionMu: [pid, epoch]
    outcome,   \* what the last call returned
    record,    \* supervisor.json
    onDisk,    \* the spec whose files are in place
    up,        \* the Agent runs
    survivors, \* processes that have outlived an Agent
    left       \* what is left of each bound

vars == <<proc, sup, born, pc, arg, op, hold, outcome, record, onDisk, up,
          survivors, left>>

Fresh == [current |-> NoProc, spec |-> NoSpec, want |-> FALSE,
          status |-> "STOPPED", attempts |-> 0, epoch |-> 0]
NoRecord == [want |-> FALSE, spec |-> NoSpec, pid |-> NoProc]

Init ==
    /\ proc = [p \in Pids |-> [st |-> "unused", spec |-> NoSpec]]
    /\ sup = Fresh
    /\ born = [p \in Pids |-> 0]
    /\ pc = [t \in Threads |-> IF t = Caller THEN "idle" ELSE "none"]
    /\ arg = [t \in Threads |-> NoSpec]
    /\ op = "none"
    /\ hold = [pid |-> NoProc, epoch |-> 0]
    /\ outcome = "ok"
    /\ record = NoRecord
    /\ onDisk \in Specs
    /\ up = TRUE
    /\ survivors = {}
    /\ left = [calls |-> MaxCalls, faults |-> MaxFaults,
               deaths |-> MaxDeaths, crashes |-> MaxCrashes]

Alive(p) == proc[p].st = "alive"

\* transitionMu: held from the first step of a transition to its return.
InTransition == {"start", "launch", "track", "signal", "waiting", "killed"}
LockFree == \A t \in Threads : pc[t] \notin InTransition

\* persistLocked, for the fields as they are about to become.
RecordOf(s) == [want |-> s.want, spec |-> s.spec, pid |-> s.current]
Save(s) == record' = RecordOf(s) /\ left' = left
Fault == left.faults > 0 /\ left' = [left EXCEPT !.faults = @ - 1]
SaveFails == Fault /\ UNCHANGED record
\* "_ = supervisor.persistLocked()"
TrySave(s) == Save(s) \/ SaveFails

\* Mutant: the watchdog tries once.
ReturnOnce(t, ok) ==
    /\ pc' = [pc EXCEPT ![t] = IF t = Caller THEN "idle" ELSE "ended"]
    /\ outcome' = IF t # Caller THEN outcome ELSE IF ok THEN "ok" ELSE "error"

\* A transition returns: to the caller, or to the watchdog, which tries again
\* after an error.
Return(t, ok) ==
    /\ pc' = [pc EXCEPT ![t] = IF t = Caller THEN "idle" ELSE IF ok THEN "ended" ELSE "loop"]
    /\ outcome' = IF t # Caller THEN outcome ELSE IF ok THEN "ok" ELSE "error"

Goto(t, place) == pc' = [pc EXCEPT ![t] = place] /\ UNCHANGED outcome

-----------------------------------------------------------------------------
(* Calls.                                                                  *)

\* The runtime puts the files of another spec in place.
Install(s) ==
    /\ up /\ pc[Caller] = "idle" /\ left.calls > 0
    /\ s # onDisk
    /\ onDisk' = s
    /\ UNCHANGED <<proc, sup, born, pc, arg, op, hold, outcome, record, up, survivors, left>>

\* Start and Restart return at once when the spec is not valid, so only the
\* spec on disk gets further.
Call(o) ==
    /\ up /\ pc[Caller] = "idle" /\ left.calls > 0
    /\ left' = [left EXCEPT !.calls = @ - 1]
    /\ op' = o
    /\ arg' = [arg EXCEPT ![Caller] = onDisk]
    /\ pc' = [pc EXCEPT ![Caller] = "call"]
    /\ UNCHANGED <<proc, sup, born, hold, outcome, record, onDisk, up, survivors>>

\* Start takes transitionMu.
StartCall ==
    /\ pc[Caller] = "call" /\ op = "start" /\ LockFree
    /\ Goto(Caller, "start")
    /\ UNCHANGED <<proc, sup, born, arg, op, hold, record, onDisk, up, survivors, left>>

-----------------------------------------------------------------------------
(* startLocked.                                                            *)

\* A start that the watchdog does not make opens an epoch of its own.
Enter(t) == IF t = Caller THEN [sup EXCEPT !.epoch = @ + 1, !.attempts = 0] ELSE sup

\* The first part, up to the launch: a process that is already tracked is
\* reused if it is alive and has the same spec.
StartCheck(t) ==
    /\ pc[t] = "start"
    /\ UNCHANGED <<proc, born, arg, op, record, onDisk, up, survivors, left>>
    /\ \/ /\ arg[t] # onDisk
          /\ Return(t, FALSE)
          /\ UNCHANGED <<sup, hold>>
       \/ /\ arg[t] = onDisk
          /\ sup.current # NoProc
          /\ IF ~Alive(sup.current)
             THEN Return(t, FALSE) /\ sup' = [sup EXCEPT !.status = "ERROR"]
             ELSE Return(t, proc[sup.current].spec = arg[t]) /\ UNCHANGED sup
          /\ UNCHANGED hold
       \/ /\ arg[t] = onDisk
          /\ sup.current = NoProc
          /\ sup' = Enter(t)
          /\ hold' = [pid |-> NoProc, epoch |-> sup'.epoch]
          /\ Goto(t, "launch")

LaunchFails(t) ==
    /\ pc[t] = "launch"
    /\ Fault
    /\ sup' = [sup EXCEPT !.status = "ERROR"]
    /\ Return(t, FALSE)
    /\ UNCHANGED <<proc, born, arg, op, hold, record, onDisk, up, survivors>>

Launch(t) ==
    /\ pc[t] = "launch"
    /\ \E p \in Pids :
         /\ proc[p].st = "unused"
         /\ \A q \in Pids : proc[q].st = "unused" => p <= q
         /\ proc' = [proc EXCEPT ![p] = [st |-> "alive", spec |-> arg[t]]]
         /\ hold' = [hold EXCEPT !.pid = p]
    /\ Goto(t, "track")
    /\ UNCHANGED <<sup, born, arg, op, record, onDisk, up, survivors, left>>

Kill(p) == proc' = [proc EXCEPT ![p].st = "dead"]

\* Tracking needs a live process and that nothing has happened meanwhile.
MayTrack == Alive(hold.pid) /\ sup.epoch = hold.epoch /\ sup.current = NoProc
Tracked(t) == [sup EXCEPT !.current = hold.pid, !.spec = arg[t], !.want = TRUE,
                          !.status = "RUNNING"]

\* The process was gone when it was inspected, or is not the one wanted: kill it.
TrackRefused(t) ==
    /\ pc[t] = "track" /\ ~MayTrack
    /\ Kill(hold.pid)
    /\ Return(t, FALSE)
    /\ UNCHANGED <<sup, born, arg, op, hold, record, onDisk, up, survivors, left>>

\* Mutant: the process whose identity could not be saved is not killed.
TrackUnsavedKeeps(t) ==
    /\ pc[t] = "track" /\ MayTrack
    /\ SaveFails
    /\ sup' = [Tracked(t) EXCEPT !.current = NoProc, !.want = FALSE, !.status = "ERROR"]
    /\ Return(t, FALSE)
    /\ UNCHANGED <<proc, born, arg, op, hold, onDisk, up, survivors>>

\* Its identity could not be saved: kill it, and Xray is no longer wanted.
TrackUnsaved(t) ==
    /\ pc[t] = "track" /\ MayTrack
    /\ SaveFails
    /\ sup' = [Tracked(t) EXCEPT !.current = NoProc, !.want = FALSE, !.status = "ERROR"]
    /\ Kill(hold.pid)
    /\ Return(t, FALSE)
    /\ UNCHANGED <<born, arg, op, hold, onDisk, up, survivors>>

\* Mutant: the watchdog goes on after it has started Xray.
TrackLoops(t) ==
    /\ pc[t] = "track" /\ MayTrack
    /\ Save(Tracked(t))
    /\ sup' = Tracked(t)
    /\ born' = [born EXCEPT ![hold.pid] = hold.epoch]
    /\ pc' = [pc EXCEPT ![t] = IF t = Caller THEN "idle" ELSE "loop", ![hold.pid] = "wait"]
    /\ outcome' = IF t = Caller THEN "ok" ELSE outcome
    /\ UNCHANGED <<proc, arg, op, hold, onDisk, up, survivors>>

\* It is the tracked process, in memory and in supervisor.json, and watched.
Track(t) ==
    /\ pc[t] = "track" /\ MayTrack
    /\ Save(Tracked(t))
    /\ sup' = Tracked(t)
    /\ born' = [born EXCEPT ![hold.pid] = hold.epoch]
    /\ pc' = [pc EXCEPT ![t] = IF t = Caller THEN "idle" ELSE "ended", ![hold.pid] = "wait"]
    /\ outcome' = IF t = Caller THEN "ok" ELSE outcome
    /\ UNCHANGED <<proc, arg, op, hold, onDisk, up, survivors>>

-----------------------------------------------------------------------------
(* stopLocked, by Stop and Restart.                                        *)

\* stopLocked returns nil: Restart goes on to start.
Stopped == IF op = "restart" THEN Goto(Caller, "start") ELSE Return(Caller, TRUE)

\* The intent goes first: desiredRunning and a new epoch, in memory and on disk.
StopBegin ==
    /\ pc[Caller] = "call" /\ op \in {"stop", "restart"} /\ LockFree
    /\ LET s == [sup EXCEPT !.epoch = @ + 1, !.want = FALSE,
                            !.status = IF sup.current = NoProc THEN "STOPPED" ELSE @]
       IN /\ sup' = s
          /\ \/ SaveFails /\ Return(Caller, FALSE) /\ UNCHANGED hold
             \/ /\ Save(s)
                /\ IF sup.current = NoProc
                   THEN Stopped /\ UNCHANGED hold
                   ELSE Goto(Caller, "signal") /\ hold' = [hold EXCEPT !.pid = sup.current]
    /\ UNCHANGED <<proc, born, arg, op, onDisk, up, survivors>>

\* Inspect, then signal: the inspection finds the process dead, or it dies in
\* between and the signal fails, or the signal is sent.
StopSignal ==
    /\ pc[Caller] = "signal"
    /\ \/ /\ ~Alive(hold.pid)
          /\ sup' = [sup EXCEPT !.status = "ERROR"]
          /\ TrySave(sup')
          /\ Return(Caller, FALSE)
       \/ /\ ~Alive(hold.pid)
          /\ Return(Caller, FALSE)
          /\ UNCHANGED <<sup, record, left>>
       \/ /\ Alive(hold.pid) \/ pc[hold.pid] = "wait"
          /\ Goto(Caller, "waiting")
          /\ UNCHANGED <<sup, record, left>>
    /\ UNCHANGED <<proc, born, arg, op, hold, onDisk, up, survivors>>

\* tracked.done is closed.
Done(p) == pc[p] # "wait"

\* Mutant: the wait for done has no timeout.
StopWaitForever ==
    /\ pc[Caller] = "waiting"
    /\ Done(hold.pid) /\ Stopped /\ UNCHANGED proc
    /\ UNCHANGED <<sup, born, arg, op, hold, record, onDisk, up, survivors, left>>

\* waitXrayProcessDone: done is closed, or the timeout passes and the process
\* is inspected again and killed.
StopWait ==
    /\ pc[Caller] = "waiting"
    /\ \/ Done(hold.pid) /\ Stopped /\ UNCHANGED proc
       \/ ~Done(hold.pid) /\ ~Alive(hold.pid) /\ Return(Caller, FALSE) /\ UNCHANGED proc
       \/ ~Done(hold.pid) /\ Alive(hold.pid) /\ Kill(hold.pid) /\ Goto(Caller, "killed")
    /\ UNCHANGED <<sup, born, arg, op, hold, record, onDisk, up, survivors, left>>

\* The second wait, after the kill.
StopKilled ==
    /\ pc[Caller] = "killed"
    /\ IF Done(hold.pid) THEN Stopped ELSE Return(Caller, FALSE)
    /\ UNCHANGED <<proc, sup, born, arg, op, hold, record, onDisk, up, survivors, left>>

-----------------------------------------------------------------------------
(* watch and restartAfterUnexpectedExit.                                   *)

\* Wait returns and done is closed; mu is taken only afterwards.
WatchClose(p) ==
    /\ pc[p] = "wait" /\ ~Alive(p)
    /\ Goto(p, "closed")
    /\ UNCHANGED <<proc, sup, born, arg, op, hold, record, onDisk, up, survivors, left>>

\* The rest of watch; "stable" if the process has run for the stable window.
WatchClear(p) ==
    /\ pc[p] = "closed"
    /\ \/ /\ sup.current # p
          /\ Goto(p, "ended")
          /\ UNCHANGED <<sup, record, left>>
       \/ /\ sup.current = p
          /\ ~(sup.want /\ sup.epoch = born[p])
          /\ sup' = [sup EXCEPT !.current = NoProc, !.status = "STOPPED"]
          /\ TrySave(sup')
          /\ Goto(p, "ended")
       \/ /\ sup.current = p
          /\ sup.want /\ sup.epoch = born[p]
          /\ \E stable \in BOOLEAN :
               sup' = [sup EXCEPT !.current = NoProc, !.status = "ERROR",
                                  !.attempts = IF stable THEN 0 ELSE @]
          /\ TrySave(sup')
          /\ Goto(p, "loop")
    /\ UNCHANGED <<proc, born, arg, op, hold, onDisk, up, survivors>>

Exhausted == sup.attempts >= MaxRestarts

\* The head of the watchdog's loop: give up, or count the attempt and wait.
WatchdogLoop(p) ==
    /\ pc[p] = "loop"
    /\ \/ /\ ~sup.want \/ sup.epoch # born[p] \/ sup.current # NoProc
          /\ Goto(p, "ended")
          /\ UNCHANGED <<sup, arg, record, left>>
       \/ /\ sup.want /\ sup.epoch = born[p] /\ sup.current = NoProc
          /\ Exhausted
          /\ sup' = [sup EXCEPT !.status = "ERROR"]
          /\ TrySave(sup')
          /\ Goto(p, "ended")
          /\ UNCHANGED arg
       \/ /\ sup.want /\ sup.epoch = born[p] /\ sup.current = NoProc
          /\ ~Exhausted
          /\ sup' = [sup EXCEPT !.attempts = @ + 1]
          /\ arg' = [arg EXCEPT ![p] = sup.spec]
          /\ TrySave(sup')
          /\ Goto(p, "delay")
    /\ UNCHANGED <<proc, born, op, hold, onDisk, up, survivors>>

\* Mutant: the watchdog does not look again after its delay.
WatchdogWakeBlind(p) ==
    /\ pc[p] = "delay" /\ LockFree
    /\ Goto(p, "start")
    /\ UNCHANGED <<proc, sup, born, arg, op, hold, record, onDisk, up, survivors, left>>

\* After the delay the watchdog takes transitionMu and looks again.
WatchdogWake(p) ==
    /\ pc[p] = "delay" /\ LockFree
    /\ LET stillDesired == sup.want /\ sup.epoch = born[p] /\ sup.current = NoProc
       IN Goto(p, IF stillDesired THEN "start" ELSE "ended")
    /\ UNCHANGED <<proc, sup, born, arg, op, hold, record, onDisk, up, survivors, left>>

-----------------------------------------------------------------------------
(* Recover, and what happens to the Agent and its processes.               *)

\* Recover adopts the process of the record if it is alive, or else starts
\* the record's spec.
Recover ==
    /\ pc[Caller] = "call" /\ op = "recover" /\ LockFree
    /\ \/ /\ Fault
          /\ Return(Caller, FALSE)
          /\ UNCHANGED <<sup, born, arg>>
       \/ /\ ~record.want
          /\ Return(Caller, TRUE)
          /\ UNCHANGED <<sup, born, arg, left>>
       \/ /\ record.want /\ record.spec # onDisk
          /\ Return(Caller, FALSE)
          /\ UNCHANGED <<sup, born, arg, left>>
       \/ /\ record.want /\ record.spec = onDisk
          /\ record.pid # NoProc /\ Alive(record.pid)
          /\ sup' = [sup EXCEPT !.epoch = @ + 1, !.current = record.pid, !.spec = record.spec,
                                !.want = TRUE, !.status = "RUNNING"]
          /\ born' = [born EXCEPT ![record.pid] = sup'.epoch]
          /\ pc' = [pc EXCEPT ![Caller] = "idle", ![record.pid] = "wait"]
          /\ outcome' = "ok"
          /\ UNCHANGED <<arg, left>>
       \/ /\ record.want /\ record.spec = onDisk
          /\ record.pid # NoProc => ~Alive(record.pid)
          /\ arg' = [arg EXCEPT ![Caller] = record.spec]
          /\ Goto(Caller, "start")
          /\ UNCHANGED <<sup, born, left>>
    /\ UNCHANGED <<proc, op, hold, record, onDisk, up, survivors>>

\* A process exits: because of Stop's signal, or unexpectedly.
Die(p) ==
    /\ Alive(p)
    /\ Kill(p)
    /\ IF pc[Caller] = "waiting" /\ hold.pid = p
       THEN UNCHANGED left
       ELSE left.deaths > 0 /\ left' = [left EXCEPT !.deaths = @ - 1]
    /\ UNCHANGED <<sup, born, pc, arg, op, hold, outcome, record, onDisk, up, survivors>>

\* The Agent dies.  Its service's control group is cleaned up with it, unless
\* the Agent runs outside of one.
Crash ==
    /\ up /\ left.crashes > 0
    /\ left' = [left EXCEPT !.crashes = @ - 1]
    /\ up' = FALSE
    /\ \/ /\ proc' = [p \in Pids |-> IF Alive(p) THEN [proc[p] EXCEPT !.st = "dead"] ELSE proc[p]]
          /\ UNCHANGED survivors
       \/ /\ survivors' = survivors \cup {p \in Pids : Alive(p)}
          /\ UNCHANGED proc
    /\ sup' = Fresh
    /\ born' = [p \in Pids |-> 0]
    /\ pc' = [t \in Threads |-> IF t = Caller THEN "idle" ELSE "none"]
    /\ arg' = [t \in Threads |-> NoSpec]
    /\ hold' = [pid |-> NoProc, epoch |-> 0]
    /\ op' = "none"
    /\ outcome' = "ok"
    /\ UNCHANGED <<record, onDisk>>

\* The Agent starts: RecoverLocal calls Recover before anything else.
Boot ==
    /\ ~up
    /\ up' = TRUE
    /\ op' = "recover"
    /\ pc' = [pc EXCEPT ![Caller] = "call"]
    /\ UNCHANGED <<proc, sup, born, arg, hold, outcome, record, onDisk, survivors, left>>

-----------------------------------------------------------------------------

CallerStep ==
    \/ StartCall \/ StopBegin \/ StopSignal \/ StopWait \/ StopKilled \/ Recover

Transition(t) ==
    \/ StartCheck(t) \/ LaunchFails(t) \/ Launch(t)
    \/ TrackRefused(t) \/ TrackUnsaved(t) \/ Track(t)

Watcher(p) == WatchClose(p) \/ WatchClear(p) \/ WatchdogLoop(p) \/ WatchdogWake(p)

Next ==
    \/ \E s \in Specs : Install(s)
    \/ \E o \in {"start", "stop", "restart"} : Call(o)
    \/ CallerStep
    \/ \E t \in Threads : Transition(t)
    \/ \E p \in Pids : Watcher(p) \/ Die(p)
    \/ Crash \/ Boot

Spec == Init /\ [][Next]_vars

\* Goroutines that can run do run: timers fire, sleeps end, system calls
\* return, and transitionMu is handed to whoever waits for it.  Nothing makes
\* a process exit, a call come or the Agent start.
Fairness ==
    /\ WF_vars(CallerStep)
    /\ \A t \in Threads : WF_vars(Transition(t))
    /\ \A p \in Pids : WF_vars(Watcher(p))

FairSpec == Spec /\ Fairness

-----------------------------------------------------------------------------
(* Properties.                                                             *)

Statuses == {"STOPPED", "RUNNING", "ERROR"}
Places == {"idle", "call", "none", "wait", "closed", "loop", "delay", "ended"} \cup InTransition

\* Types; and transitionMu is held by one goroutine at most.
TypeOK ==
    /\ proc \in [Pids -> [st: {"unused", "alive", "dead"}, spec: Specs \cup {NoSpec}]]
    /\ sup \in [current: Threads, spec: Specs \cup {NoSpec}, want: BOOLEAN,
                status: Statuses, attempts: 0 .. MaxRestarts, epoch: Nat]
    /\ born \in [Pids -> Nat]
    /\ pc \in [Threads -> Places]
    /\ arg \in [Threads -> Specs \cup {NoSpec}]
    /\ op \in {"none", "start", "stop", "restart", "recover"}
    /\ hold \in [pid: Threads, epoch: Nat]
    /\ outcome \in {"ok", "error"}
    /\ record \in [want: BOOLEAN, spec: Specs \cup {NoSpec}, pid: Threads]
    /\ onDisk \in Specs
    /\ up \in BOOLEAN
    /\ survivors \subseteq Pids
    /\ left \in [calls: Nat, faults: Nat, deaths: Nat, crashes: Nat]

\* A process that transitionMu's holder has launched and not tracked yet.
Launching(p) == hold.pid = p /\ \E t \in Threads : pc[t] = "track"

\* Whatever fails, an Agent has at most one Xray process of its own alive, and
\* none that it does not know: it is the tracked one, watched by its goroutine,
\* or the one being launched.  Stop and Restart rely on it when they hand the
\* ports to the next process; a process that outlived an earlier Agent and was
\* not adopted is the exception (the control group is there to prevent it).
\* (And everything keeps its type.)
NoProcessForgotten ==
    /\ TypeOK
    /\ \A p \in Pids \ survivors :
         Alive(p) => (sup.current = p /\ pc[p] = "wait") \/ Launching(p)

\* A tracked process is never replaced or forgotten while its goroutine has
\* not seen it exit, and only one goroutine at a time can be the watchdog of
\* the current epoch: two would start Xray twice.
OneWatchdog ==
    /\ sup.current # NoProc => pc[sup.current] \in {"wait", "closed"}
    /\ \A p, q \in Pids :
         pc[p] \in {"loop", "delay"} /\ pc[q] \in {"loop", "delay"}
           /\ born[p] = sup.epoch /\ born[q] = sup.epoch => p = q

\* The watchdog launches Xray only while it is still wanted: a Stop that came
\* between the exit and the end of the delay wins.
WatchdogObeysStop ==
    [][\A t \in Pids : pc[t] = "launch" /\ pc'[t] = "track" => sup.want /\ sup.epoch = born[t]]_vars

\* Every call returns, whatever the process does with the signal.
CallsReturn == (pc[Caller] # "idle") ~> (pc[Caller] = "idle")

\* An unexpected exit is made good: Xray runs again, or it is no longer
\* wanted, the attempts are used up, a call has failed or the Agent has died.
ExitMadeGood ==
    (up /\ sup.want) ~>
        \/ ~up \/ ~sup.want \/ sup.attempts = MaxRestarts \/ outcome = "error"
        \/ sup.current # NoProc /\ Alive(sup.current)
=============================================================================
