-------------------------- MODULE XrayAgentRuntime --------------------------
(***************************************************************************)
(* How the Agent applies an Xray desired state (agent/xray_desired.go,     *)
(* xray_runtime.go, xray_persistence.go, xray_state.go).                   *)
(*                                                                         *)
(* Apply, RestartLastGood and RecoverLocal run one at a time (the runtime  *)
(* mutex); each is a job that walks through a fixed order of file writes   *)
(* and process changes.  Every write may fail, before or after it took     *)
(* effect; the Agent may die between any two of them, and the Xray process *)
(* may die and be restarted by the watchdog meanwhile.  A configuration    *)
(* stands for its bytes and for its SHA-256; starting or stopping the      *)
(* process is one step.                                                    *)
(***************************************************************************)
EXTENDS Naturals, Sequences

CONSTANTS
    Configs,     \* configurations
    Empty,       \* the configurations without expected listeners
    Desired,     \* desired states the panel may send: [gen, cfg]
    MaxBuild,    \* number of Agent builds, each with its managed version
    MaxFaults,   \* bound on failures, crashes and process deaths
    None

Builds == 1 .. MaxBuild

\* xrayRuntimeState: what state.json says was applied.
States == [running: BOOLEAN, gen: Nat, cfg: Configs, ver: Builds]
Specs == [gen: Nat, cfg: Configs, ver: Builds]
SpecOf(s) == [gen |-> s.gen, cfg |-> s.cfg, ver |-> s.ver]

ASSUME RuntimeAssumption ==
    /\ Empty \subseteq Configs
    /\ Desired \subseteq [gen: Nat, cfg: Configs]
    /\ MaxBuild \in Nat \ {0} /\ MaxFaults \in Nat
    /\ None \notin Configs \cup Builds \cup States \cup Specs \cup Desired

VARIABLES
    disk,     \* the managed files
    proc,     \* the launch spec of the live Xray process, or None
    sup,      \* the supervisor's desiredRunning and spec
    rec,      \* the same in supervisor.json
    sched,    \* xrayDesiredApplyScheduler: current, pending, highest
    job,      \* what holds the runtime mutex
    agent,    \* "down", "boot" (before RecoverLocal is done) or "up"
    build,    \* the Agent build that is installed
    tainted,  \* a ROLLBACK_FAILED has not been made good since
    amiss,    \* history: what has gone wrong and was never reported as such
    faults    \* faults left

vars == <<disk, proc, sup, rec, sched, job, agent, build, tainted, amiss, faults>>

\* "late": the state.json of a switch that is being undone is in place, since
\* its write failed only after the rename.  "revived": a rollback has started
\* Xray for a state that wants none.
Amiss == {"late", "revived"}

Phases == {"idle", "begin", "recover", "finish", "check", "prepare", "apply",
           "rollback", "cleanup", "start", "restart", "restore"}

\* at: the place in the order of the phase's writes; snap: snapshot(), the committed
\* state the job found; dirty: a file could not be cleaned up.
Idle == [kind |-> "none", phase |-> "idle", at |-> 1, d |-> None,
         snap |-> None, dirty |-> FALSE]
NoSup == [want |-> FALSE, spec |-> None]
NoSched == [current |-> None, pending |-> None, highest |-> None]

Init ==
    /\ disk = [lgConfig |-> None, lgHash |-> None, config |-> None, hash |-> None,
               current |-> None, state |-> None, marker |-> None]
    /\ proc = None
    /\ sup = NoSup /\ rec = NoSup
    /\ sched = NoSched
    /\ job = Idle
    /\ agent = "down"
    /\ build = 1
    /\ tainted = FALSE
    /\ amiss = {}
    /\ faults = MaxFaults

-----------------------------------------------------------------------------
(* The queue of desired states: one being applied and one waiting.         *)

Older(d, hi) == d.gen < hi.gen \/ (d.gen = hi.gen /\ d.cfg # hi.cfg)

\* Schedule: the same identity coalesces, an older or conflicting one is
\* rejected, a newer one takes the place of the one that waits.
Schedule(d) ==
    /\ agent = "up"
    /\ d \notin {sched.current, sched.pending}
    /\ sched.highest # None => ~Older(d, sched.highest)
    /\ sched' = [highest |-> d,
                 current |-> IF sched.current = None THEN d ELSE sched.current,
                 pending |-> IF /\ sched.current # None
                                /\ sched.pending = None \/ d.gen > sched.pending.gen
                             THEN d ELSE sched.pending]
    /\ UNCHANGED <<disk, proc, sup, rec, job, agent, build, tainted, amiss, faults>>

-----------------------------------------------------------------------------
(* Jobs.                                                                   *)

\* Mutant: the marker is written before last-good is complete.
OrderMarkerFirst(phase) ==
    CASE phase = "recover" -> <<"config", "hash", "current", "state", "marker">>
      [] phase = "finish" -> <<"marker">>
      [] phase = "prepare" -> <<"marker", "lgConfig", "lgHash">>
      [] phase = "apply" -> <<"current", "config", "hash", "proc", "state", "marker">>
      [] phase = "rollback" -> <<"config", "hash", "current", "state", "proc", "marker">>
      [] phase = "cleanup" -> <<"proc", "config", "hash", "current", "state">>
      [] OTHER -> <<>>

\* What each phase writes, in order; proc is a change of the Xray process.
Order(phase) ==
    CASE phase = "recover" -> <<"config", "hash", "current", "state", "marker">>
      [] phase = "finish" -> <<"marker">>
      [] phase = "prepare" -> <<"lgConfig", "lgHash", "marker">>
      [] phase = "apply" -> <<"current", "config", "hash", "proc", "state", "marker">>
      [] phase = "rollback" -> <<"config", "hash", "current", "state", "proc", "marker">>
      [] phase = "cleanup" -> <<"proc", "config", "hash", "current", "state">>
      [] OTHER -> <<>>

At == Order(job.phase)[job.at]

NewState(d) == [running |-> d.cfg \notin Empty, gen |-> d.gen, cfg |-> d.cfg, ver |-> build]

\* The state whose files the phase puts in place.
Target ==
    CASE job.phase = "apply" -> NewState(job.d)
      [] job.phase = "recover" -> disk.marker
      [] OTHER -> job.snap

Value(f) ==
    IF job.phase = "cleanup" THEN None
    ELSE CASE f = "marker" -> IF job.phase = "prepare" THEN job.snap ELSE None
           [] f = "state" -> Target
           [] f = "current" -> Target.ver
           [] OTHER -> Target.cfg

Written(f) == [disk EXCEPT ![f] = Value(f)]

Fault == faults > 0 /\ faults' = faults - 1

Enter(phase) == /\ job' = [job EXCEPT !.phase = phase, !.at = 1]
                /\ UNCHANGED <<sched, agent>>

\* The job returns and leaves the queue to the next desired state.
Return ==
    /\ job' = Idle
    /\ agent' = "up"
    /\ sched' = IF job.kind = "apply"
                THEN [sched EXCEPT !.current = sched.pending, !.pending = None]
                ELSE sched

\* Return with ROLLBACK_FAILED (or RecoverLocal with an error).
ReturnTainted == Return /\ tainted' = TRUE

AfterRecovery == IF job.kind = "boot" THEN "start" ELSE "check"

Advance ==
    IF job.at < Len(Order(job.phase))
    THEN /\ job' = [job EXCEPT !.at = @ + 1]
         /\ UNCHANGED <<sched, agent, tainted>>
    ELSE CASE job.phase \in {"recover", "finish"} -> Enter(AfterRecovery) /\ UNCHANGED tainted
           [] job.phase = "prepare" -> Enter("apply") /\ UNCHANGED tainted
           [] OTHER -> Return /\ tainted' = job.dirty

\* Mutant: a failed switch is reported without a rollback.
OnErrorNoRollback ==
    CASE job.phase \in {"prepare", "apply"} -> Return /\ UNCHANGED tainted
      [] OTHER -> ReturnTainted

\* An error: rollbackAfterFailure once the switch has begun, except for a
\* marker that stays behind; a clean-up goes on with the other files.
OnError ==
    CASE job.phase = "prepare" -> Return /\ UNCHANGED tainted
      [] job.phase = "apply" /\ At = "marker" -> Return /\ tainted' = FALSE
      [] job.phase = "apply" /\ At # "marker" ->
            Enter(IF job.snap = None THEN "cleanup" ELSE "rollback") /\ UNCHANGED tainted
      [] job.phase = "cleanup" /\ job.at \in 2 .. 4 ->
            /\ job' = [job EXCEPT !.at = @ + 1, !.dirty = TRUE]
            /\ UNCHANGED <<sched, agent, tainted>>
      [] OTHER -> ReturnTainted

\* state.json is what a switch is judged by.
Noted(late) ==
    IF At = "state" THEN (amiss \ {"late"}) \cup {l \in {"late"} : late} ELSE amiss

\* One file is replaced (or removed) atomically.  The error may come before
\* that, or after it, from the synchronization of the directory.
WriteFile ==
    /\ job.phase \in {"recover", "finish", "prepare", "apply", "rollback", "cleanup"}
    /\ At # "proc"
    /\ \/ disk' = Written(At) /\ Advance /\ amiss' = Noted(FALSE) /\ UNCHANGED faults
       \/ Fault /\ OnError /\ UNCHANGED <<disk, amiss>>
       \/ Fault /\ OnError /\ disk' = Written(At) /\ amiss' = Noted(job.phase = "apply")
    /\ UNCHANGED <<proc, sup, rec, build>>

-----------------------------------------------------------------------------
(* The Xray process, through the supervisor.                               *)

Stopped ==
    /\ proc' = None
    /\ sup' = [sup EXCEPT !.want = FALSE]
    /\ rec' = sup'

\* validateSpec has compared the hash of config.json with the spec.
Launched(spec) ==
    /\ disk.config = spec.cfg
    /\ proc' = spec
    /\ sup' = [want |-> TRUE, spec |-> spec]
    /\ rec' = sup'

\* Stop could not persist, signal or outwait the process: it is left alone,
\* but it is no longer wanted.
NotStopped ==
    /\ sup' = [sup EXCEPT !.want = FALSE]
    /\ rec' \in {rec, sup'}
    /\ UNCHANGED proc

\* The launch itself fails; a watchdog that was at work has been superseded.
NotStarted ==
    /\ proc' = None
    /\ sup' = [sup EXCEPT !.want = FALSE]
    /\ rec' \in {rec, sup'}

\* Restart or Start fails: the old process stays, no process is there, or the
\* new one is up but its listeners are not ready.
LaunchFails(spec) == NotStopped \/ NotStarted \/ Launched(spec)

ChangeProcess ==
    LET stop == job.phase = "cleanup" \/ (job.phase = "apply" /\ job.d.cfg \in Empty)
        spec == SpecOf(Target)
        revives == job.phase = "rollback" /\ ~job.snap.running
    IN
    /\ job.phase \in {"apply", "rollback", "cleanup"}
    /\ At = "proc"
    /\ \/ /\ (IF stop THEN Stopped ELSE Launched(spec)) /\ Advance /\ UNCHANGED faults
          /\ amiss' = (amiss \ {"revived"}) \cup {r \in {"revived"} : revives}
       \/ /\ Fault /\ (IF stop THEN NotStopped ELSE LaunchFails(spec)) /\ OnError
          /\ amiss' = amiss \cup {r \in {"revived"} : revives}
    /\ UNCHANGED <<disk, build>>

-----------------------------------------------------------------------------
(* Apply.                                                                  *)

BeginApply ==
    /\ agent = "up" /\ job = Idle
    /\ sched.current # None
    /\ job' = [Idle EXCEPT !.kind = "apply", !.phase = "begin", !.d = sched.current]
    /\ UNCHANGED <<disk, proc, sup, rec, sched, agent, build, tainted, amiss, faults>>

\* The new state.json was written before the interruption.
Committed == disk.state \notin {None, disk.marker}

\* snapshot(): the files are those that state.json describes.
Consistent ==
    disk.state # None => /\ disk.config = disk.state.cfg
                         /\ disk.hash = disk.state.cfg
                         /\ disk.current = disk.state.ver

\* Mutant: last-good is compared with the configuration in place.
LastGoodIsCurrent == disk.lgConfig = disk.config /\ disk.lgHash = disk.config

LastGoodValid == disk.lgConfig = disk.marker.cfg /\ disk.lgHash = disk.marker.cfg

\* recoverInterruptedApply, first in Apply and in RecoverLocal: a marker of a
\* committed switch is removed, otherwise last-good is put back.
BeginRecovery ==
    /\ job.phase = "begin"
    /\ CASE disk.marker = None -> Enter(AfterRecovery) /\ UNCHANGED tainted
         [] disk.marker # None /\ Committed /\ Consistent ->
               Enter("finish") /\ UNCHANGED tainted
         [] disk.marker # None /\ ~Committed /\ LastGoodValid ->
               Enter("recover") /\ UNCHANGED tainted
         [] OTHER -> ReturnTainted
    /\ amiss' = IF Consistent THEN amiss \ {"late"} ELSE amiss
    /\ UNCHANGED <<disk, proc, sup, rec, build, faults>>

\* Mutant: only the queue compares generations.
RefusedDowngrade(d) == disk.state # None /\ disk.state.ver > build /\ d.gen > 0

\* The applied state refuses d: a downgrade, or an older generation.
Refused(d) ==
    disk.state # None /\ (disk.state.ver > build \/ Older(d, disk.state))

\* d is what is applied already and the process is as it should be.
Reusable(d) ==
    /\ disk.state # None
    /\ disk.state.gen = d.gen /\ disk.state.cfg = d.cfg
    /\ \/ ~disk.state.running /\ d.cfg \in Empty /\ proc = None
       \/ proc # None

CheckApply ==
    /\ job.phase = "check"
    /\ \/ /\ ~Consistent \/ Refused(job.d) \/ Reusable(job.d)
          /\ Return /\ UNCHANGED faults
       \/ /\ Consistent /\ ~Refused(job.d)
          /\ \/ ~Reusable(job.d) /\ UNCHANGED faults
             \/ Reusable(job.d) /\ proc # None /\ Fault   \* listeners not ready
          /\ job' = [job EXCEPT !.phase = IF disk.state = None THEN "apply" ELSE "prepare",
                                !.at = 1, !.snap = disk.state]
          /\ UNCHANGED <<sched, agent>>
       \/ Fault /\ Return   \* no binary, or the configuration test fails
    /\ UNCHANGED <<disk, proc, sup, rec, build, tainted, amiss>>

-----------------------------------------------------------------------------
(* RecoverLocal and RestartLastGood.                                       *)

\* The Agent service starts, before it talks to the panel.
Boot ==
    /\ agent = "down"
    /\ agent' = "boot"
    /\ job' = [Idle EXCEPT !.kind = "boot", !.phase = "begin"]
    /\ UNCHANGED <<disk, proc, sup, rec, sched, build, tainted, amiss, faults>>

\* Recover() first starts what supervisor.json names, if its configuration is
\* the one on disk, and replaces it when it is not the applied state.
StartLocal ==
    LET spec == SpecOf(disk.state)
        stray == rec.want /\ rec.spec.cfg = disk.config /\ rec.spec # spec
    IN
    /\ job.phase = "start"
    /\ \/ /\ disk.state # None => ~disk.state.running
          /\ Return /\ UNCHANGED <<proc, sup, rec, tainted, faults>>
       \/ /\ disk.state # None /\ disk.state.running
          /\ ~Consistent
          /\ ReturnTainted /\ UNCHANGED <<proc, sup, rec, faults>>
       \/ /\ disk.state # None /\ disk.state.running
          /\ Consistent
          /\ \/ Launched(spec) /\ Return /\ tainted' = FALSE /\ UNCHANGED faults
             \/ Fault /\ (Launched(spec) \/ NotStarted) /\ Return /\ UNCHANGED tainted
             \/ /\ stray /\ Fault /\ ReturnTainted
                /\ proc' = rec.spec
                /\ sup' = [want |-> FALSE, spec |-> rec.spec]
                /\ rec' \in {rec, sup'}
    /\ UNCHANGED <<disk, build, amiss>>

\* An administrator's RESTART task.
BeginRestart ==
    /\ agent = "up" /\ job = Idle
    /\ Consistent
    /\ disk.state # None /\ disk.state.running
    /\ job' = [Idle EXCEPT !.kind = "restart", !.phase = "restart", !.snap = disk.state]
    /\ UNCHANGED <<disk, proc, sup, rec, sched, agent, build, tainted, amiss, faults>>

RestartProcess ==
    LET spec == SpecOf(job.snap) IN
    /\ job.phase = "restart"
    /\ \/ Launched(spec) /\ Return /\ UNCHANGED faults
       \/ Fault /\ LaunchFails(spec) /\ Enter("restore")
    /\ UNCHANGED <<disk, build, tainted, amiss>>

\* The second attempt.  Start finds the process that could not be stopped and
\* reuses it, without wanting it again.
RestoreProcess ==
    LET spec == SpecOf(job.snap) IN
    /\ job.phase = "restore"
    /\ \/ /\ Return /\ UNCHANGED <<faults, tainted>>
          /\ IF proc = spec THEN UNCHANGED <<proc, sup, rec>> ELSE Launched(spec)
       \/ Fault /\ LaunchFails(spec) /\ ReturnTainted
    /\ UNCHANGED <<disk, build, amiss>>

-----------------------------------------------------------------------------
(* Around the jobs.                                                        *)

\* The Agent dies or is upgraded; systemd kills its control group, Xray too.
Crash ==
    /\ Fault
    /\ agent # "down"
    /\ agent' = "down"
    /\ build' \in {build, build + 1} \cap Builds
    /\ proc' = None /\ sup' = NoSup
    /\ sched' = NoSched /\ job' = Idle
    /\ amiss' = amiss \ {"revived"}
    /\ UNCHANGED <<disk, rec, tainted>>

ProcessDies ==
    /\ Fault
    /\ proc # None
    /\ proc' = None
    /\ UNCHANGED <<disk, sup, rec, sched, job, agent, build, tainted, amiss>>

\* restartAfterUnexpectedExit: the file must still have the wanted hash.
Watchdog ==
    /\ sup.want
    /\ proc = None
    /\ disk.config = sup.spec.cfg
    /\ proc' = sup.spec
    /\ UNCHANGED <<disk, sup, rec, sched, job, agent, build, tainted, amiss, faults>>

JobStep ==
    BeginRecovery \/ WriteFile \/ ChangeProcess \/ CheckApply \/ StartLocal
        \/ RestartProcess \/ RestoreProcess

Next ==
    \/ \E d \in Desired : Schedule(d)
    \/ BeginApply
    \/ JobStep
    \/ Boot
    \/ BeginRestart
    \/ Crash
    \/ ProcessDies
    \/ Watchdog

Newest == CHOOSE d \in Desired : \A e \in Desired : e.gen <= d.gen

\* systemd restarts the Agent, jobs run, the runtime mutex starves nobody,
\* and the panel keeps sending the newest desired state.
Fairness == /\ WF_vars(Boot) /\ WF_vars(JobStep)
            /\ SF_vars(BeginApply) /\ SF_vars(Schedule(Newest))

Spec == Init /\ [][Next]_vars /\ Fairness

-----------------------------------------------------------------------------
(* Properties.                                                             *)

Disks == [lgConfig: Configs \cup {None}, lgHash: Configs \cup {None},
          config: Configs \cup {None}, hash: Configs \cup {None},
          current: Builds \cup {None}, state: States \cup {None}, marker: States \cup {None}]
Supervision == [want: BOOLEAN, spec: Specs \cup {None}]
Queues == [current: Desired \cup {None}, pending: Desired \cup {None},
           highest: Desired \cup {None}]
Jobs == [kind: {"none", "apply", "boot", "restart"}, phase: Phases, at: 1 .. 6,
         d: Desired \cup {None}, snap: States \cup {None}, dirty: BOOLEAN]

TypeOK ==
    /\ disk \in Disks
    /\ proc \in Specs \cup {None}
    /\ sup \in Supervision /\ rec \in Supervision
    /\ sched \in Queues
    /\ job \in Jobs
    /\ agent \in {"down", "boot", "up"}
    /\ build \in Builds
    /\ tainted \in BOOLEAN
    /\ amiss \subseteq Amiss
    /\ faults \in 0 .. MaxFaults

\* Wherever the Agent dies, what it leaves behind can be recovered: the files
\* are those of the committed state, or the marker and last-good lead back to
\* the state before the switch.  Even when a state.json that was reported as
\* not written is being undone, whatever a marker stands for is still in
\* last-good, though recoverInterruptedApply then refuses to put it back.  (And
\* everything keeps its type.)
CrashSafe ==
    /\ TypeOK
    /\ CASE "late" \in amiss -> disk.marker # None => LastGoodValid
         [] "late" \notin amiss /\ (disk.marker = None \/ Committed) -> Consistent
         [] OTHER -> LastGoodValid

\* Unless a job has reported ROLLBACK_FAILED, nothing is half-applied between
\* jobs: config, hash, binary link and state belong together, and the process
\* was launched from the very state that is recorded as applied, which wants
\* one, whatever the watchdog restarted and whatever was rolled back.  There
\* are two exceptions: the Agent dies while it takes back a state.json that was
\* reported as not written, and a rollback to a state without listeners starts
\* Xray all the same.
NothingHalfApplied ==
    agent = "up" /\ job = Idle /\ ~tainted =>
        /\ Consistent \/ "late" \in amiss
        /\ proc # None => /\ disk.state # None /\ proc = SpecOf(disk.state)
                          /\ disk.state.running \/ "revived" \in amiss

\* The applied generation never goes back, whatever is rolled back, recovered
\* or delivered late.  Only a state.json that was reported as not written may
\* be taken back, and then by nothing but the state before the switch.
AppliedNeverRegresses ==
    [][disk.state # None =>
         IF "late" \in amiss
         THEN disk'.state \in {disk.state, job.snap}
         ELSE disk'.state # None /\ disk'.state.gen >= disk.state.gen]_vars

\* Once failures stop, the newest desired state is applied, and stays so;
\* unless the rollback of a state.json that was reported as not written was
\* itself cut short: no recovery accepts the files that leaves.
Converges ==
    \/ <>[](disk.state # None /\ disk.state.gen = Newest.gen /\ disk.state.cfg = Newest.cfg)
    \/ <>[]("late" \in amiss /\ ~Consistent)
=============================================================================
