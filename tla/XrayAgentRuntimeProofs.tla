------------------------ MODULE XrayAgentRuntimeProofs ------------------------
(***************************************************************************)
(* Theorems about XrayAgentRuntime, for any set of configurations, desired *)
(* states and Agent builds, and any number of faults.                      *)
(*                                                                         *)
(* CrashSafe alone is not inductive: that a write leaves the files         *)
(* recoverable depends on the writes the phase has made before.  The       *)
(* invariant therefore says, phase by phase, which files are in place      *)
(* (RecoverFiles ... OtherFiles), and which state the process and the      *)
(* watchdog serve meanwhile (ProcessOfJob).  A write that reports an error *)
(* may have taken effect: Late marks the one case where that matters, a    *)
(* new state.json in the middle of a switch that is being undone.          *)
(***************************************************************************)
EXTENDS XrayAgentRuntime, TLAPS

\* The phases of each kind of job.
PhasesOf(kind) ==
    CASE kind = "none" -> {"idle"}
      [] kind = "apply" -> {"begin", "recover", "finish", "check", "prepare", "apply",
                            "rollback", "cleanup"}
      [] kind = "boot" -> {"begin", "recover", "finish", "start"}
      [] kind = "restart" -> {"restart", "restore"}

\* The number of writes of a phase.
Writes(phase) ==
    CASE phase \in {"recover", "cleanup"} -> 5
      [] phase = "prepare" -> 3
      [] phase \in {"apply", "rollback"} -> 6
      [] OTHER -> 1

JobShape ==
    /\ job.phase \in PhasesOf(job.kind)
    /\ job.at <= Writes(job.phase)
    /\ job.kind = "none" => job = Idle
    /\ job.kind = "apply" => job.d # None
    /\ job.kind = "restart" => job.snap # None
    /\ job.phase # "cleanup" => job.dirty = FALSE
    /\ agent = "boot" <=> job.kind = "boot"
    /\ agent = "down" => job.kind = "none"

Late == "late" \in amiss
Revived == "revived" \in amiss

\* The second conjunct of CrashSafe.
Recoverable ==
    IF Late THEN disk.marker # None => LastGoodValid
    ELSE IF disk.marker = None \/ Committed THEN Consistent ELSE LastGoodValid

\* The files a phase has put in place so far, and where it goes back to.
RecoverFiles ==
    job.phase = "recover" =>
        /\ disk.marker # None /\ disk.state = disk.marker /\ LastGoodValid
        /\ job.at > 1 => disk.config = disk.marker.cfg
        /\ job.at > 2 => disk.hash = disk.marker.cfg
        /\ job.at > 3 => disk.current = disk.marker.ver
        /\ job.at > 4 => ~Late

PrepareFiles ==
    job.phase = "prepare" =>
        /\ ~Late
        /\ disk.marker = None /\ disk.state = job.snap
        /\ job.snap # None /\ job.snap.gen <= job.d.gen
        /\ job.at > 1 => disk.lgConfig = job.snap.cfg
        /\ job.at > 2 => disk.lgHash = job.snap.cfg

ApplyFiles ==
    job.phase = "apply" =>
        /\ ~Late
        /\ disk.marker = job.snap
        /\ job.snap # None => LastGoodValid /\ job.snap.gen <= job.d.gen
        /\ job.at <= 5 => disk.state = job.snap
        /\ job.at > 1 => disk.current = build
        /\ job.at > 2 => disk.config = job.d.cfg
        /\ job.at > 3 => disk.hash = job.d.cfg
        /\ job.at > 5 => disk.state = NewState(job.d)

RollbackFiles ==
    job.phase = "rollback" =>
        /\ disk.marker = job.snap /\ disk.state # None
        /\ job.snap # None /\ LastGoodValid
        /\ ~Late => disk.state = job.snap
        /\ job.at > 1 => disk.config = job.snap.cfg
        /\ job.at > 2 => disk.hash = job.snap.cfg
        /\ job.at > 3 => disk.current = job.snap.ver
        /\ job.at > 4 => ~Late

OtherFiles ==
    /\ disk.marker # None => disk.state # None
    /\ job.phase = "finish" => ~Late /\ disk.marker # None /\ Committed /\ Consistent
    /\ job.phase \in {"check", "start"} => disk.marker = None /\ (Late => ~Consistent)
    /\ job.phase = "cleanup" => /\ disk.marker = None /\ job.snap = None
                                /\ ~Late => disk.state = None
    /\ job.kind = "restart" => disk.state = job.snap /\ Consistent /\ job.snap.running

\* The process, and the one the watchdog would start, are those of state t, and
\* t wants them or a rollback has started them.
Serves(t) == /\ proc # None => proc = SpecOf(t)
             /\ sup.want => sup.spec = SpecOf(t)
             /\ t.running \/ Revived \/ (proc = None /\ ~sup.want)
Quiet == proc = None /\ ~sup.want
AsApplied == IF disk.state = None THEN Quiet ELSE Serves(disk.state)

\* The process has not been touched by the job yet, or has been restarted from
\* the state in place.
Untouched ==
    \/ job.phase \in {"idle", "begin", "recover", "finish", "check", "prepare", "restart", "restore"}
    \/ job.phase = "apply" /\ job.at <= 4

ProcessOfJob ==
    /\ agent = "down" \/ job.kind = "boot" => Quiet
    /\ job.phase = "apply" /\ job.at > 4 => Serves(NewState(job.d))
    /\ job.phase = "rollback" /\ job.at > 5 => Serves(job.snap)
    /\ job.phase = "cleanup" /\ job.at > 1 => Quiet
    /\ ~tainted /\ Untouched => AsApplied

\* Between jobs, no file is half-written unless ROLLBACK_FAILED was reported.
UpConsistent == agent = "up" /\ job.kind = "none" /\ ~tainted => Consistent \/ Late

Inv == /\ TypeOK /\ JobShape /\ Recoverable
       /\ RecoverFiles /\ PrepareFiles /\ ApplyFiles /\ RollbackFiles /\ OtherFiles
       /\ ProcessOfJob /\ UpConsistent

-----------------------------------------------------------------------------
(* The order of the writes. *)

LEMMA RecoverOrder ==
  ASSUME job.phase = "recover", job.at \in 1 .. 5
  PROVE  /\ Len(Order(job.phase)) = 5
         /\ job.at = 1 => At = "config"
         /\ job.at = 2 => At = "hash"
         /\ job.at = 3 => At = "current"
         /\ job.at = 4 => At = "state"
         /\ job.at = 5 => At = "marker"
  BY DEF At, Order

LEMMA FinishOrder ==
  ASSUME job.phase = "finish", job.at = 1
  PROVE  Len(Order(job.phase)) = 1 /\ At = "marker"
  BY DEF At, Order

LEMMA PrepareOrder ==
  ASSUME job.phase = "prepare", job.at \in 1 .. 3
  PROVE  /\ Len(Order(job.phase)) = 3
         /\ job.at = 1 => At = "lgConfig"
         /\ job.at = 2 => At = "lgHash"
         /\ job.at = 3 => At = "marker"
  BY DEF At, Order

LEMMA ApplyOrder ==
  ASSUME job.phase = "apply", job.at \in 1 .. 6
  PROVE  /\ Len(Order(job.phase)) = 6
         /\ job.at = 1 => At = "current"
         /\ job.at = 2 => At = "config"
         /\ job.at = 3 => At = "hash"
         /\ job.at = 4 => At = "proc"
         /\ job.at = 5 => At = "state"
         /\ job.at = 6 => At = "marker"
  BY DEF At, Order

LEMMA RollbackOrder ==
  ASSUME job.phase = "rollback", job.at \in 1 .. 6
  PROVE  /\ Len(Order(job.phase)) = 6
         /\ job.at = 1 => At = "config"
         /\ job.at = 2 => At = "hash"
         /\ job.at = 3 => At = "current"
         /\ job.at = 4 => At = "state"
         /\ job.at = 5 => At = "proc"
         /\ job.at = 6 => At = "marker"
  BY DEF At, Order

LEMMA CleanupOrder ==
  ASSUME job.phase = "cleanup", job.at \in 1 .. 5
  PROVE  /\ Len(Order(job.phase)) = 5
         /\ job.at = 1 => At = "proc"
         /\ job.at = 2 => At = "config"
         /\ job.at = 3 => At = "hash"
         /\ job.at = 4 => At = "current"
         /\ job.at = 5 => At = "state"
  BY DEF At, Order

-----------------------------------------------------------------------------
(* What a step does to the job and to the files. *)

LEMMA IdleJob ==
  /\ Idle \in Jobs
  /\ Idle.kind = "none" /\ Idle.phase = "idle" /\ Idle.at = 1
  /\ Idle.d = None /\ Idle.snap = None /\ Idle.dirty = FALSE
  BY DEF Idle, Jobs, Phases

\* A phase begins.
LEMMA EnterJob ==
  ASSUME TypeOK, NEW p \in Phases, Enter(p)
  PROVE  /\ job' \in Jobs /\ job'.phase = p /\ job'.at = 1
         /\ job'.kind = job.kind /\ job'.d = job.d /\ job'.snap = job.snap
         /\ job'.dirty = job.dirty
         /\ sched' = sched /\ agent' = agent
  <1>1. PICK n \in 1 .. 6 : n = 1
    OBVIOUS
  <1>2. job \in Jobs /\ job' = [job EXCEPT !.phase = p, !.at = n] /\ sched' = sched /\ agent' = agent
    BY <1>1 DEF TypeOK, Enter
  <1>3. job' \in Jobs
    BY <1>2 DEF Jobs
  <1> QED BY <1>1, <1>2, <1>3 DEF Jobs

\* The next write of the phase.
LEMMA NextAt ==
  ASSUME TypeOK, NEW m \in 1 .. 6, job.at < m
  PROVE  \E n \in 1 .. 6 : n = job.at + 1
  <1>1. job.at \in 1 .. 6
    BY DEF TypeOK, Jobs
  <1> QED BY <1>1

LEMMA NextWrite ==
  ASSUME TypeOK, NEW m \in 1 .. 6, Len(Order(job.phase)) = m, job.at < m, Advance
  PROVE  /\ job' \in Jobs /\ job'.at = job.at + 1
         /\ job'.kind = job.kind /\ job'.phase = job.phase /\ job'.d = job.d
         /\ job'.snap = job.snap /\ job'.dirty = job.dirty
         /\ sched' = sched /\ agent' = agent /\ tainted' = tainted
  <1>1. job \in Jobs
    BY DEF TypeOK
  <1>2. PICK n \in 1 .. 6 : n = job.at + 1
    BY NextAt
  <1>3. job' = [job EXCEPT !.at = n] /\ sched' = sched /\ agent' = agent /\ tainted' = tainted
    BY <1>2 DEF Advance
  <1>4. job' \in Jobs
    BY <1>1, <1>3 DEF Jobs
  <1> QED BY <1>1, <1>2, <1>3, <1>4 DEF Jobs

\* The job returns.
LEMMA ReturnJob ==
  ASSUME TypeOK, Return
  PROVE  job' = Idle /\ agent' = "up" /\ sched' \in Queues
  BY DEF TypeOK, Return, Queues

\* Most steps leave the history alone.
LEMMA AmissKept ==
  ASSUME TypeOK, UNCHANGED amiss
  PROVE  amiss' \subseteq Amiss /\ (Late' <=> Late) /\ (Revived' <=> Revived)
  BY DEF TypeOK, Late, Revived

\* What a write does to the history.
LEMMA NotedFacts ==
  ASSUME amiss \subseteq Amiss, NEW l \in BOOLEAN, amiss' = Noted(l)
  PROVE  /\ amiss' \subseteq Amiss
         /\ Revived' <=> Revived
         /\ At # "state" => (Late' <=> Late)
         /\ At = "state" => (Late' <=> l)
  BY DEF Noted, Amiss, Late, Revived

\* One file changes.
LEMMA OneFile ==
  ASSUME disk \in Disks, disk' = Written(At)
  PROVE  /\ disk'.lgConfig = IF At = "lgConfig" THEN Value("lgConfig") ELSE disk.lgConfig
         /\ disk'.lgHash = IF At = "lgHash" THEN Value("lgHash") ELSE disk.lgHash
         /\ disk'.config = IF At = "config" THEN Value("config") ELSE disk.config
         /\ disk'.hash = IF At = "hash" THEN Value("hash") ELSE disk.hash
         /\ disk'.current = IF At = "current" THEN Value("current") ELSE disk.current
         /\ disk'.state = IF At = "state" THEN Value("state") ELSE disk.state
         /\ disk'.marker = IF At = "marker" THEN Value("marker") ELSE disk.marker
  BY DEF Disks, Written

LEMMA FileTyped ==
  ASSUME disk \in Disks, disk' = Written(At),
         At \in {"lgConfig", "lgHash", "config", "hash"} => Value(At) \in Configs \cup {None},
         At = "current" => Value(At) \in Builds \cup {None},
         At \in {"state", "marker"} => Value(At) \in States \cup {None}
  PROVE  disk' \in Disks
  BY DEF Disks, Written

\* A desired state that is applied.
LEMMA NewStateTyped ==
  ASSUME NEW d \in Desired, build \in Builds
  PROVE  /\ NewState(d) \in States /\ NewState(d).gen = d.gen /\ NewState(d).cfg = d.cfg
         /\ NewState(d).ver = build /\ d.gen \in Nat /\ d.cfg \in Configs /\ NewState(d) # None
  <1>1. d.gen \in Nat /\ d.cfg \in Configs
    BY RuntimeAssumption
  <1>2. NewState(d) \in States
    BY <1>1 DEF NewState, States
  <1>3. None \notin States
    BY RuntimeAssumption
  <1>4. NewState(d).gen = d.gen /\ NewState(d).cfg = d.cfg /\ NewState(d).ver = build
    BY DEF NewState
  <1> QED BY <1>1, <1>2, <1>3, <1>4

LEMMA StateTyped ==
  ASSUME NEW t \in States
  PROVE  t.gen \in Nat /\ t.cfg \in Configs /\ t.ver \in Builds /\ t # None /\ SpecOf(t) \in Specs
         /\ t.running \in BOOLEAN
  BY RuntimeAssumption DEF States, Specs, SpecOf

\* A job's types.
LEMMA JobTypes ==
  ASSUME TypeOK, JobShape
  PROVE  /\ job \in Jobs /\ disk \in Disks /\ build \in Builds
         /\ job.at \in 1 .. 6 /\ job.at <= Writes(job.phase)
         /\ job.kind = "apply" => job.d \in Desired
         /\ job.snap \in States \cup {None}
         /\ disk.state \in States \cup {None} /\ disk.marker \in States \cup {None}
         /\ job.phase \in Phases
  BY DEF TypeOK, JobShape, Jobs, Disks

\* The last write of the phase.
LEMMA LastWrite ==
  ASSUME job.at = Len(Order(job.phase)), job.at \in 1 .. 6, Advance
  PROVE  /\ job.phase \in {"recover", "finish"} => Enter(AfterRecovery) /\ tainted' = tainted
         /\ job.phase = "prepare" => Enter("apply") /\ tainted' = tainted
         /\ job.phase \in {"apply", "rollback", "cleanup"} => Return /\ tainted' = job.dirty
  <1>1. ~(job.at < Len(Order(job.phase)))
    OBVIOUS
  <1>2. (CASE job.phase \in {"recover", "finish"} -> Enter(AfterRecovery) /\ UNCHANGED tainted
           [] job.phase = "prepare" -> Enter("apply") /\ UNCHANGED tainted
           [] OTHER -> Return /\ tainted' = job.dirty)
    BY <1>1 DEF Advance
  <1>3. ASSUME job.phase \in {"recover", "finish"} PROVE Enter(AfterRecovery) /\ tainted' = tainted
    BY <1>2, <1>3
  <1>4. ASSUME job.phase = "prepare" PROVE Enter("apply") /\ tainted' = tainted
    BY <1>2, <1>4
  <1>5. ASSUME job.phase \in {"apply", "rollback", "cleanup"} PROVE Return /\ tainted' = job.dirty
    BY <1>2, <1>5
  <1> QED BY <1>3, <1>4, <1>5

\* A job that returns leaves recoverable files, and the process of the state in
\* place, unless it reports ROLLBACK_FAILED.
LEMMA Returned ==
  ASSUME TypeOK', Recoverable', disk'.marker # None => disk'.state # None,
         job' = Idle, agent' = "up", ~tainted' => AsApplied' /\ (Consistent' \/ Late')
  PROVE  Inv'
  <1>1. /\ job'.kind = "none" /\ job'.phase = "idle" /\ job'.at = 1
        /\ job'.d = None /\ job'.snap = None /\ job'.dirty = FALSE
    BY IdleJob
  <1>2. JobShape'
    BY <1>1 DEF JobShape, PhasesOf, Writes
  <1>3. RecoverFiles' /\ PrepareFiles' /\ ApplyFiles' /\ RollbackFiles' /\ OtherFiles'
    BY <1>1 DEF RecoverFiles, PrepareFiles, ApplyFiles, RollbackFiles, OtherFiles
  <1>4. ProcessOfJob' /\ UpConsistent'
    BY <1>1 DEF ProcessOfJob, Untouched, UpConsistent
  <1> QED BY <1>2, <1>3, <1>4 DEF Inv

\* The job, the files and the report stay as they are.
LEMMA JobKept ==
  ASSUME Inv, TypeOK', ProcessOfJob', UNCHANGED <<disk, job, agent, build, tainted, amiss>>
  PROVE  Inv'
  <1>1. /\ NewState(job.d)' = NewState(job.d) /\ Consistent' = Consistent /\ Committed' = Committed
        /\ Late' = Late
    BY DEF NewState, Consistent, Committed, Late
  <1>2. JobShape' /\ Recoverable' /\ UpConsistent'
    BY <1>1 DEF Inv, JobShape, Recoverable, UpConsistent, LastGoodValid
  <1>3. RecoverFiles' /\ PrepareFiles' /\ ApplyFiles' /\ RollbackFiles' /\ OtherFiles'
    BY <1>1 DEF Inv, RecoverFiles, PrepareFiles, ApplyFiles, RollbackFiles, OtherFiles, LastGoodValid
  <1> QED BY <1>2, <1>3 DEF Inv

-----------------------------------------------------------------------------
(* Writes: the file that a phase puts in place, and what follows when the  *)
(* write succeeds.                                                         *)

\* recoverInterruptedApply puts last-good back.
LEMMA RecoverWritten ==
  ASSUME Inv, job.phase = "recover", At # "proc", disk' = Written(At)
  PROVE  /\ job.kind \in {"apply", "boot"} /\ job.dirty = FALSE /\ disk.marker \in States
         /\ job.at \in 1 .. 5 /\ disk \in Disks
         /\ disk' \in Disks
         /\ Len(Order(job.phase)) = 5
         /\ disk'.lgConfig = disk.lgConfig /\ disk'.lgHash = disk.lgHash
         /\ disk'.config = IF job.at = 1 THEN disk.marker.cfg ELSE disk.config
         /\ disk'.hash = IF job.at = 2 THEN disk.marker.cfg ELSE disk.hash
         /\ disk'.current = IF job.at = 3 THEN disk.marker.ver ELSE disk.current
         /\ disk'.state = disk.state
         /\ disk'.marker = IF job.at = 5 THEN None ELSE disk.marker
         /\ At = "state" <=> job.at = 4
  <1>1. /\ TypeOK /\ JobShape /\ Recoverable
        /\ RecoverFiles /\ PrepareFiles /\ ApplyFiles /\ RollbackFiles /\ OtherFiles
        /\ ProcessOfJob /\ UpConsistent
    BY DEF Inv
  <1>2. job.kind \in {"apply", "boot"} /\ job.dirty = FALSE /\ disk.marker \in States
    BY <1>1 DEF JobShape, PhasesOf, TypeOK, Jobs, Disks, RecoverFiles
  <1>3. job.at \in 1 .. 5 /\ disk \in Disks
    BY <1>1, JobTypes DEF Writes
  <1>4. /\ Value("current") = disk.marker.ver /\ Value("config") = disk.marker.cfg
        /\ Value("hash") = disk.marker.cfg /\ Value("state") = disk.marker /\ Value("marker") = None
    BY DEF Value, Target
  <1>5. /\ Len(Order(job.phase)) = 5
        /\ job.at = 1 => At = "config"
        /\ job.at = 2 => At = "hash"
        /\ job.at = 3 => At = "current"
        /\ job.at = 4 => At = "state"
        /\ job.at = 5 => At = "marker"
    BY <1>3, RecoverOrder
  <1>6. disk' \in Disks
    BY <1>2, <1>3, <1>4, <1>5, FileTyped, StateTyped
  <1>7. /\ disk'.lgConfig = disk.lgConfig /\ disk'.lgHash = disk.lgHash
        /\ disk'.config = IF job.at = 1 THEN disk.marker.cfg ELSE disk.config
        /\ disk'.hash = IF job.at = 2 THEN disk.marker.cfg ELSE disk.hash
        /\ disk'.current = IF job.at = 3 THEN disk.marker.ver ELSE disk.current
        /\ disk'.state = disk.state
        /\ disk'.marker = IF job.at = 5 THEN None ELSE disk.marker
    BY <1>1, <1>3, <1>4, <1>5, OneFile DEF RecoverFiles
  <1> QED BY <1>2, <1>3, <1>5, <1>6, <1>7

LEMMA WriteRecover ==
  ASSUME Inv, job.phase = "recover", At # "proc", disk' = Written(At), Advance,
         amiss' = Noted(FALSE), UNCHANGED <<proc, sup, rec, build, faults>>
  PROVE  Inv'
  <1>1. /\ TypeOK /\ JobShape /\ Recoverable
        /\ RecoverFiles /\ PrepareFiles /\ ApplyFiles /\ RollbackFiles /\ OtherFiles
        /\ ProcessOfJob /\ UpConsistent
    BY DEF Inv
  <1>2. job.kind \in {"apply", "boot"} /\ job.dirty = FALSE /\ disk.marker \in States
    BY RecoverWritten
  <1>3. job.at \in 1 .. 5 /\ disk \in Disks
    BY RecoverWritten
  <1>4. /\ amiss' \subseteq Amiss /\ (Revived' <=> Revived)
        /\ IF job.at = 4 THEN ~Late' ELSE Late' <=> Late
    BY <1>1, RecoverWritten, NotedFacts DEF TypeOK
  <1>5. Len(Order(job.phase)) = 5
    BY RecoverWritten
  <1>6. disk' \in Disks
    BY RecoverWritten
  <1>7. /\ disk'.lgConfig = disk.lgConfig /\ disk'.lgHash = disk.lgHash
        /\ disk'.config = IF job.at = 1 THEN disk.marker.cfg ELSE disk.config
        /\ disk'.hash = IF job.at = 2 THEN disk.marker.cfg ELSE disk.hash
        /\ disk'.current = IF job.at = 3 THEN disk.marker.ver ELSE disk.current
        /\ disk'.state = disk.state
        /\ disk'.marker = IF job.at = 5 THEN None ELSE disk.marker
    BY RecoverWritten
  <1>8. CASE job.at < 5
    <2>1. /\ job' \in Jobs /\ job'.at = job.at + 1
          /\ job'.kind = job.kind /\ job'.phase = "recover" /\ job'.d = job.d
          /\ job'.snap = job.snap /\ job'.dirty = job.dirty
          /\ sched' = sched /\ agent' = agent /\ tainted' = tainted
      BY <1>1, <1>5, <1>8, NextWrite
    <2>2. TypeOK'
      BY <1>1, <1>4, <1>6, <2>1 DEF TypeOK
    <2>3. JobShape'
      BY <1>1, <1>2, <1>3, <1>8, <2>1 DEF JobShape, PhasesOf, Writes
    <2>4. RecoverFiles'
      BY <1>1, <1>3, <1>4, <1>7, <1>8, <2>1 DEF RecoverFiles, LastGoodValid
    <2>5. Recoverable'
      BY <1>1, <1>3, <1>4, <1>7, <1>8, <2>4, <2>1 DEF RecoverFiles, Recoverable, Committed, LastGoodValid
    <2>6. ApplyFiles' /\ PrepareFiles' /\ RollbackFiles'
      BY <2>1 DEF ApplyFiles, PrepareFiles, RollbackFiles
    <2>7. OtherFiles'
      BY <1>1, <1>2, <1>4, <1>7, <1>8, <2>1 DEF OtherFiles, RecoverFiles
    <2>8. ProcessOfJob'
      BY <1>1, <1>2, <1>4, <1>7, <2>1 DEF ProcessOfJob, Quiet, Serves, AsApplied, Untouched
    <2>9. UpConsistent'
      BY <1>2, <2>1 DEF UpConsistent
    <2> QED BY <2>2, <2>3, <2>4, <2>5, <2>6, <2>7, <2>8, <2>9 DEF Inv
  <1>9. CASE job.at = 5
    <2>1. Enter(AfterRecovery) /\ tainted' = tainted
      BY <1>3, <1>5, <1>9, LastWrite
    <2>2. /\ job' \in Jobs /\ job'.phase = AfterRecovery /\ job'.at = 1
          /\ job'.kind = job.kind /\ job'.d = job.d /\ job'.snap = job.snap
          /\ job'.dirty = job.dirty
          /\ sched' = sched /\ agent' = agent
      BY <1>1, <2>1, EnterJob DEF Phases, AfterRecovery
    <2>3. TypeOK'
      BY <1>1, <1>4, <1>6, <2>1, <2>2 DEF TypeOK
    <2>4. JobShape'
      BY <1>1, <1>2, <2>2 DEF JobShape, PhasesOf, Writes, AfterRecovery
    <2>5. job'.phase \in {"check", "start"} /\ disk'.marker = None /\ job'.kind # "restart"
      BY <1>2, <1>4, <1>7, <1>9, <2>2 DEF AfterRecovery
    <2>6. Consistent' /\ Recoverable'
      BY <1>1, <1>4, <1>7, <1>9 DEF RecoverFiles, Consistent, Recoverable
    <2>7. RecoverFiles' /\ ApplyFiles' /\ PrepareFiles' /\ RollbackFiles' /\ OtherFiles'
      BY <1>1, <1>4, <1>9, <2>5 DEF RecoverFiles, ApplyFiles, PrepareFiles, RollbackFiles, OtherFiles
    <2>8. ProcessOfJob'
      BY <1>1, <1>2, <1>4, <1>7, <2>1, <2>2, <2>5 DEF ProcessOfJob, Quiet, Serves, AsApplied, Untouched
    <2>9. UpConsistent'
      BY <1>2, <2>2 DEF UpConsistent
    <2> QED BY <2>3, <2>4, <2>6, <2>7, <2>8, <2>9 DEF Inv
  <1> QED BY <1>3, <1>8, <1>9

\* recoverInterruptedApply removes the marker of a committed switch.
LEMMA FinishWritten ==
  ASSUME Inv, job.phase = "finish", At # "proc", disk' = Written(At)
  PROVE  /\ job.kind \in {"apply", "boot"} /\ job.dirty = FALSE
         /\ job.at = 1 /\ disk \in Disks
         /\ disk' \in Disks
         /\ Len(Order(job.phase)) = 1
         /\ disk'.config = disk.config /\ disk'.hash = disk.hash
         /\ disk'.current = disk.current /\ disk'.state = disk.state /\ disk'.marker = None
         /\ At # "state"
  <1>1. /\ TypeOK /\ JobShape /\ Recoverable
        /\ RecoverFiles /\ PrepareFiles /\ ApplyFiles /\ RollbackFiles /\ OtherFiles
        /\ ProcessOfJob /\ UpConsistent
    BY DEF Inv
  <1>2. job.kind \in {"apply", "boot"} /\ job.dirty = FALSE
    BY <1>1 DEF JobShape, PhasesOf, TypeOK, Jobs
  <1>3. job.at = 1 /\ disk \in Disks
    BY <1>1, JobTypes DEF Writes
  <1>4. Value("marker") = None
    BY DEF Value
  <1>5. Len(Order(job.phase)) = 1 /\ At = "marker"
    BY <1>3, FinishOrder
  <1>6. disk' \in Disks
    BY <1>3, <1>4, <1>5, FileTyped
  <1>7. /\ disk'.config = disk.config /\ disk'.hash = disk.hash
        /\ disk'.current = disk.current /\ disk'.state = disk.state /\ disk'.marker = None
    BY <1>3, <1>4, <1>5, OneFile
  <1> QED BY <1>2, <1>3, <1>5, <1>6, <1>7

LEMMA WriteFinish ==
  ASSUME Inv, job.phase = "finish", At # "proc", disk' = Written(At), Advance,
         amiss' = Noted(FALSE), UNCHANGED <<proc, sup, rec, build, faults>>
  PROVE  Inv'
  <1>1. /\ TypeOK /\ JobShape /\ Recoverable
        /\ RecoverFiles /\ PrepareFiles /\ ApplyFiles /\ RollbackFiles /\ OtherFiles
        /\ ProcessOfJob /\ UpConsistent
    BY DEF Inv
  <1>2. job.kind \in {"apply", "boot"} /\ job.dirty = FALSE
    BY FinishWritten
  <1>3. job.at = 1 /\ disk \in Disks
    BY FinishWritten
  <1>4. /\ amiss' \subseteq Amiss /\ (Revived' <=> Revived)
        /\ Late' <=> Late
    BY <1>1, FinishWritten, NotedFacts DEF TypeOK
  <1>5. Len(Order(job.phase)) = 1
    BY FinishWritten
  <1>6. disk' \in Disks
    BY FinishWritten
  <1>7. /\ disk'.config = disk.config /\ disk'.hash = disk.hash
        /\ disk'.current = disk.current /\ disk'.state = disk.state /\ disk'.marker = None
    BY FinishWritten
  <1>8. Inv'
    <2>1. Enter(AfterRecovery) /\ tainted' = tainted
      BY <1>3, <1>5, LastWrite
    <2>2. /\ job' \in Jobs /\ job'.phase = AfterRecovery /\ job'.at = 1
          /\ job'.kind = job.kind /\ job'.d = job.d /\ job'.snap = job.snap
          /\ job'.dirty = job.dirty
          /\ sched' = sched /\ agent' = agent
      BY <1>1, <2>1, EnterJob DEF Phases, AfterRecovery
    <2>3. TypeOK'
      BY <1>1, <1>4, <1>6, <2>1, <2>2 DEF TypeOK
    <2>4. JobShape'
      BY <1>1, <1>2, <2>2 DEF JobShape, PhasesOf, Writes, AfterRecovery
    <2>5. job'.phase \in {"check", "start"} /\ job'.kind # "restart"
      BY <1>2, <2>2 DEF AfterRecovery
    <2>6. Consistent' /\ Recoverable'
      BY <1>1, <1>4, <1>7 DEF OtherFiles, Consistent, Recoverable
    <2>7. RecoverFiles' /\ ApplyFiles' /\ PrepareFiles' /\ RollbackFiles' /\ OtherFiles'
      BY <1>1, <1>4, <1>7, <2>5 DEF RecoverFiles, ApplyFiles, PrepareFiles, RollbackFiles, OtherFiles
    <2>8. ProcessOfJob'
      BY <1>1, <1>2, <1>4, <1>7, <2>1, <2>2, <2>5 DEF ProcessOfJob, Quiet, Serves, AsApplied, Untouched
    <2>9. UpConsistent'
      BY <1>2, <2>2 DEF UpConsistent
    <2> QED BY <2>3, <2>4, <2>6, <2>7, <2>8, <2>9 DEF Inv
  <1> QED BY <1>8

\* prepareLastGood.
LEMMA PrepareWritten ==
  ASSUME Inv, job.phase = "prepare", At # "proc", disk' = Written(At)
  PROVE  /\ job.kind = "apply" /\ job.dirty = FALSE /\ job.snap \in States
         /\ job.at \in 1 .. 3 /\ disk \in Disks
         /\ disk' \in Disks
         /\ Len(Order(job.phase)) = 3
         /\ disk'.lgConfig = IF job.at = 1 THEN job.snap.cfg ELSE disk.lgConfig
         /\ disk'.lgHash = IF job.at = 2 THEN job.snap.cfg ELSE disk.lgHash
         /\ disk'.config = disk.config /\ disk'.hash = disk.hash
         /\ disk'.current = disk.current /\ disk'.state = disk.state
         /\ disk'.marker = IF job.at = 3 THEN job.snap ELSE disk.marker
         /\ At # "state"
  <1>1. /\ TypeOK /\ JobShape /\ Recoverable
        /\ RecoverFiles /\ PrepareFiles /\ ApplyFiles /\ RollbackFiles /\ OtherFiles
        /\ ProcessOfJob /\ UpConsistent
    BY DEF Inv
  <1>2. job.kind = "apply" /\ job.dirty = FALSE /\ job.snap \in States
    BY <1>1 DEF JobShape, PhasesOf, TypeOK, Jobs, PrepareFiles
  <1>3. job.at \in 1 .. 3 /\ disk \in Disks
    BY <1>1, JobTypes DEF Writes
  <1>4. Value("lgConfig") = job.snap.cfg /\ Value("lgHash") = job.snap.cfg /\ Value("marker") = job.snap
    BY DEF Value, Target
  <1>5. /\ Len(Order(job.phase)) = 3
        /\ job.at = 1 => At = "lgConfig"
        /\ job.at = 2 => At = "lgHash"
        /\ job.at = 3 => At = "marker"
    BY <1>3, PrepareOrder
  <1>6. disk' \in Disks
    BY <1>2, <1>3, <1>4, <1>5, FileTyped, StateTyped
  <1>7. /\ disk'.lgConfig = IF job.at = 1 THEN job.snap.cfg ELSE disk.lgConfig
        /\ disk'.lgHash = IF job.at = 2 THEN job.snap.cfg ELSE disk.lgHash
        /\ disk'.config = disk.config /\ disk'.hash = disk.hash
        /\ disk'.current = disk.current /\ disk'.state = disk.state
        /\ disk'.marker = IF job.at = 3 THEN job.snap ELSE disk.marker
    BY <1>3, <1>4, <1>5, OneFile
  <1> QED BY <1>2, <1>3, <1>5, <1>6, <1>7

LEMMA WritePrepare ==
  ASSUME Inv, job.phase = "prepare", At # "proc", disk' = Written(At), Advance,
         amiss' = Noted(FALSE), UNCHANGED <<proc, sup, rec, build, faults>>
  PROVE  Inv'
  <1>1. /\ TypeOK /\ JobShape /\ Recoverable
        /\ RecoverFiles /\ PrepareFiles /\ ApplyFiles /\ RollbackFiles /\ OtherFiles
        /\ ProcessOfJob /\ UpConsistent
    BY DEF Inv
  <1>2. job.kind = "apply" /\ job.dirty = FALSE /\ job.snap \in States
    BY PrepareWritten
  <1>3. job.at \in 1 .. 3 /\ disk \in Disks
    BY PrepareWritten
  <1>4. /\ amiss' \subseteq Amiss /\ (Revived' <=> Revived)
        /\ Late' <=> Late
    BY <1>1, PrepareWritten, NotedFacts DEF TypeOK
  <1>5. Len(Order(job.phase)) = 3
    BY PrepareWritten
  <1>6. disk' \in Disks
    BY PrepareWritten
  <1>7. /\ disk'.lgConfig = IF job.at = 1 THEN job.snap.cfg ELSE disk.lgConfig
        /\ disk'.lgHash = IF job.at = 2 THEN job.snap.cfg ELSE disk.lgHash
        /\ disk'.config = disk.config /\ disk'.hash = disk.hash
        /\ disk'.current = disk.current /\ disk'.state = disk.state
        /\ disk'.marker = IF job.at = 3 THEN job.snap ELSE disk.marker
    BY PrepareWritten
  <1>8. CASE job.at < 3
    <2>1. /\ job' \in Jobs /\ job'.at = job.at + 1
          /\ job'.kind = job.kind /\ job'.phase = "prepare" /\ job'.d = job.d
          /\ job'.snap = job.snap /\ job'.dirty = job.dirty
          /\ sched' = sched /\ agent' = agent /\ tainted' = tainted
      BY <1>1, <1>5, <1>8, NextWrite
    <2>2. TypeOK'
      BY <1>1, <1>4, <1>6, <2>1 DEF TypeOK
    <2>3. JobShape'
      BY <1>1, <1>2, <1>3, <1>8, <2>1 DEF JobShape, PhasesOf, Writes
    <2>4. PrepareFiles'
      BY <1>1, <1>3, <1>4, <1>7, <1>8, <2>1 DEF PrepareFiles
    <2>5. Recoverable'
      BY <1>1, <1>4, <1>7, <1>8 DEF PrepareFiles, Recoverable, Consistent
    <2>6. ApplyFiles' /\ RecoverFiles' /\ RollbackFiles'
      BY <2>1 DEF ApplyFiles, RecoverFiles, RollbackFiles
    <2>7. OtherFiles'
      BY <1>1, <1>2, <1>4, <1>7, <1>8, <2>1 DEF OtherFiles, PrepareFiles
    <2>8. ProcessOfJob'
      BY <1>1, <1>2, <1>4, <1>7, <2>1 DEF ProcessOfJob, Quiet, Serves, AsApplied, Untouched
    <2>9. UpConsistent'
      BY <1>2, <2>1 DEF UpConsistent
    <2> QED BY <2>2, <2>3, <2>4, <2>5, <2>6, <2>7, <2>8, <2>9 DEF Inv
  <1>9. CASE job.at = 3
    <2>1. Enter("apply") /\ tainted' = tainted
      BY <1>3, <1>5, <1>9, LastWrite
    <2>2. /\ job' \in Jobs /\ job'.phase = "apply" /\ job'.at = 1
          /\ job'.kind = job.kind /\ job'.d = job.d /\ job'.snap = job.snap
          /\ job'.dirty = job.dirty
          /\ sched' = sched /\ agent' = agent
      BY <1>1, <2>1, EnterJob DEF Phases, AfterRecovery
    <2>3. TypeOK'
      BY <1>1, <1>4, <1>6, <2>1, <2>2 DEF TypeOK
    <2>4. JobShape'
      BY <1>1, <1>2, <2>2 DEF JobShape, PhasesOf, Writes, AfterRecovery
    <2>5. ApplyFiles'
      BY <1>1, <1>4, <1>7, <1>9, <2>2 DEF PrepareFiles, ApplyFiles, LastGoodValid
    <2>6. Recoverable'
      BY <1>1, <1>4, <1>7, <1>9, <2>2 DEF PrepareFiles, Recoverable, Committed, LastGoodValid
    <2>7. RecoverFiles' /\ PrepareFiles' /\ RollbackFiles'
      BY <2>2 DEF RecoverFiles, PrepareFiles, RollbackFiles
    <2>8. OtherFiles'
      BY <1>1, <1>2, <1>4, <1>7, <2>2 DEF OtherFiles, PrepareFiles
    <2>9. ProcessOfJob'
      BY <1>1, <1>2, <1>4, <1>7, <2>1, <2>2 DEF ProcessOfJob, Quiet, Serves, AsApplied, Untouched
    <2>10. UpConsistent'
      BY <1>2, <2>2 DEF UpConsistent
    <2> QED BY <2>3, <2>4, <2>5, <2>6, <2>7, <2>8, <2>9, <2>10 DEF Inv
  <1> QED BY <1>3, <1>8, <1>9

\* The switch to the new state.
LEMMA ApplyWritten ==
  ASSUME Inv, job.phase = "apply", At # "proc", disk' = Written(At)
  PROVE  /\ job.kind = "apply" /\ job.dirty = FALSE
         /\ job.d \in Desired /\ job.at \in 1 .. 6 /\ disk \in Disks /\ build \in Builds
         /\ disk' \in Disks
         /\ Len(Order(job.phase)) = 6 /\ job.at # 4
         /\ disk'.lgConfig = disk.lgConfig /\ disk'.lgHash = disk.lgHash
         /\ disk'.config = IF job.at = 2 THEN job.d.cfg ELSE disk.config
         /\ disk'.hash = IF job.at = 3 THEN job.d.cfg ELSE disk.hash
         /\ disk'.current = IF job.at = 1 THEN build ELSE disk.current
         /\ disk'.state = IF job.at = 5 THEN NewState(job.d) ELSE disk.state
         /\ disk'.marker = IF job.at = 6 THEN None ELSE disk.marker
         /\ At = "state" <=> job.at = 5
  <1>1. /\ TypeOK /\ JobShape /\ Recoverable
        /\ RecoverFiles /\ PrepareFiles /\ ApplyFiles /\ RollbackFiles /\ OtherFiles
        /\ ProcessOfJob /\ UpConsistent
    BY DEF Inv
  <1>2. job.kind = "apply" /\ job.dirty = FALSE
    BY <1>1 DEF JobShape, PhasesOf, TypeOK, Jobs
  <1>3. job.d \in Desired /\ job.at \in 1 .. 6 /\ disk \in Disks /\ build \in Builds
    BY <1>1, <1>2, JobTypes
  <1>4. /\ Value("current") = build /\ Value("config") = job.d.cfg /\ Value("hash") = job.d.cfg
        /\ Value("state") = NewState(job.d) /\ Value("marker") = None
    BY <1>3, NewStateTyped DEF Value, Target
  <1>5. /\ Len(Order(job.phase)) = 6 /\ job.at # 4
        /\ job.at = 1 => At = "current"
        /\ job.at = 2 => At = "config"
        /\ job.at = 3 => At = "hash"
        /\ job.at = 5 => At = "state"
        /\ job.at = 6 => At = "marker"
    BY <1>3, ApplyOrder
  <1>6. disk' \in Disks
    BY <1>3, <1>4, <1>5, FileTyped, NewStateTyped
  <1>7. /\ disk'.lgConfig = disk.lgConfig /\ disk'.lgHash = disk.lgHash
        /\ disk'.config = IF job.at = 2 THEN job.d.cfg ELSE disk.config
        /\ disk'.hash = IF job.at = 3 THEN job.d.cfg ELSE disk.hash
        /\ disk'.current = IF job.at = 1 THEN build ELSE disk.current
        /\ disk'.state = IF job.at = 5 THEN NewState(job.d) ELSE disk.state
        /\ disk'.marker = IF job.at = 6 THEN None ELSE disk.marker
    BY <1>3, <1>4, <1>5, OneFile
  <1> QED BY <1>2, <1>3, <1>5, <1>6, <1>7

LEMMA WriteApply ==
  ASSUME Inv, job.phase = "apply", At # "proc", disk' = Written(At), Advance,
         amiss' = Noted(FALSE), UNCHANGED <<proc, sup, rec, build, faults>>
  PROVE  Inv'
  <1>1. /\ TypeOK /\ JobShape /\ Recoverable
        /\ RecoverFiles /\ PrepareFiles /\ ApplyFiles /\ RollbackFiles /\ OtherFiles
        /\ ProcessOfJob /\ UpConsistent
    BY DEF Inv
  <1>2. job.kind = "apply" /\ job.dirty = FALSE
    BY ApplyWritten
  <1>3. job.d \in Desired /\ job.at \in 1 .. 6 /\ disk \in Disks /\ build \in Builds
    BY ApplyWritten
  <1>4. /\ amiss' \subseteq Amiss /\ (Revived' <=> Revived)
        /\ IF job.at = 5 THEN ~Late' ELSE Late' <=> Late
    BY <1>1, ApplyWritten, NotedFacts DEF TypeOK
  <1>5. Len(Order(job.phase)) = 6 /\ job.at # 4
    BY ApplyWritten
  <1>6. disk' \in Disks
    BY ApplyWritten
  <1>7. /\ disk'.lgConfig = disk.lgConfig /\ disk'.lgHash = disk.lgHash
        /\ disk'.config = IF job.at = 2 THEN job.d.cfg ELSE disk.config
        /\ disk'.hash = IF job.at = 3 THEN job.d.cfg ELSE disk.hash
        /\ disk'.current = IF job.at = 1 THEN build ELSE disk.current
        /\ disk'.state = IF job.at = 5 THEN NewState(job.d) ELSE disk.state
        /\ disk'.marker = IF job.at = 6 THEN None ELSE disk.marker
    BY ApplyWritten
  <1>8. CASE job.at < 6
    <2>1. /\ job' \in Jobs /\ job'.at = job.at + 1
          /\ job'.kind = job.kind /\ job'.phase = "apply" /\ job'.d = job.d
          /\ job'.snap = job.snap /\ job'.dirty = job.dirty
          /\ sched' = sched /\ agent' = agent /\ tainted' = tainted
      BY <1>1, <1>5, <1>8, NextWrite
    <2>2. TypeOK'
      BY <1>1, <1>4, <1>6, <2>1 DEF TypeOK
    <2>3. JobShape'
      BY <1>1, <1>2, <1>3, <1>8, <2>1 DEF JobShape, PhasesOf, Writes
    <2>4. NewState(job.d)' = NewState(job.d)
      BY <2>1 DEF NewState
    <2>5. ApplyFiles'
      BY <1>1, <1>3, <1>5, <1>4, <1>7, <1>8, <2>1, <2>4 DEF ApplyFiles, LastGoodValid
    <2>6. Recoverable'
      BY <1>1, <1>3, <1>5, <1>4, <1>7, <1>8, <2>1, <2>4, <2>5, NewStateTyped
         DEF ApplyFiles, Recoverable, Committed, Consistent, LastGoodValid
    <2>7. RecoverFiles' /\ PrepareFiles' /\ RollbackFiles'
      BY <2>1 DEF RecoverFiles, PrepareFiles, RollbackFiles
    <2>8. OtherFiles'
      BY <1>1, <1>2, <1>3, <1>4, <1>7, <1>8, <2>1, NewStateTyped DEF OtherFiles, ApplyFiles
    <2>9. ProcessOfJob'
      BY <1>1, <1>2, <1>3, <1>5, <1>4, <1>7, <2>1, <2>4
         DEF ProcessOfJob, Quiet, Serves, AsApplied, Untouched
    <2>10. UpConsistent'
      BY <1>2, <2>1 DEF UpConsistent
    <2> QED BY <2>2, <2>3, <2>5, <2>6, <2>7, <2>8, <2>9, <2>10 DEF Inv
  <1>9. CASE job.at = 6
    <2>1. Return /\ tainted' = FALSE
      BY <1>2, <1>3, <1>5, <1>9, LastWrite
    <2>2. job' = Idle /\ agent' = "up" /\ sched' \in Queues
      BY <1>1, <2>1, ReturnJob
    <2>3. TypeOK'
      BY <1>1, <1>4, <1>6, <2>1, <2>2, IdleJob DEF TypeOK
    <2>4. Consistent'
      BY <1>1, <1>3, <1>4, <1>7, <1>9, NewStateTyped DEF ApplyFiles, Consistent
    <2>5. AsApplied'
      BY <1>1, <1>3, <1>4, <1>7, <1>9, NewStateTyped DEF ApplyFiles, ProcessOfJob, Serves, AsApplied
    <2> QED BY <1>7, <1>9, <2>2, <2>3, <2>4, <2>5, Returned DEF Recoverable
  <1> QED BY <1>3, <1>8, <1>9

\* rollbackAfterFailure puts the state before the switch back.
LEMMA RollbackWritten ==
  ASSUME Inv, job.phase = "rollback", At # "proc", disk' = Written(At)
  PROVE  /\ job.kind = "apply" /\ job.dirty = FALSE /\ job.snap \in States
         /\ job.at \in 1 .. 6 /\ disk \in Disks
         /\ disk' \in Disks
         /\ Len(Order(job.phase)) = 6 /\ job.at # 5
         /\ disk'.lgConfig = disk.lgConfig /\ disk'.lgHash = disk.lgHash
         /\ disk'.config = IF job.at = 1 THEN job.snap.cfg ELSE disk.config
         /\ disk'.hash = IF job.at = 2 THEN job.snap.cfg ELSE disk.hash
         /\ disk'.current = IF job.at = 3 THEN job.snap.ver ELSE disk.current
         /\ disk'.state = IF job.at = 4 THEN job.snap ELSE disk.state
         /\ disk'.marker = IF job.at = 6 THEN None ELSE disk.marker
         /\ At = "state" <=> job.at = 4
  <1>1. /\ TypeOK /\ JobShape /\ Recoverable
        /\ RecoverFiles /\ PrepareFiles /\ ApplyFiles /\ RollbackFiles /\ OtherFiles
        /\ ProcessOfJob /\ UpConsistent
    BY DEF Inv
  <1>2. job.kind = "apply" /\ job.dirty = FALSE /\ job.snap \in States
    BY <1>1 DEF JobShape, PhasesOf, TypeOK, Jobs, RollbackFiles
  <1>3. job.at \in 1 .. 6 /\ disk \in Disks
    BY <1>1, JobTypes
  <1>4. /\ Value("current") = job.snap.ver /\ Value("config") = job.snap.cfg
        /\ Value("hash") = job.snap.cfg /\ Value("state") = job.snap /\ Value("marker") = None
    BY DEF Value, Target
  <1>5. /\ Len(Order(job.phase)) = 6 /\ job.at # 5
        /\ job.at = 1 => At = "config"
        /\ job.at = 2 => At = "hash"
        /\ job.at = 3 => At = "current"
        /\ job.at = 4 => At = "state"
        /\ job.at = 6 => At = "marker"
    BY <1>3, RollbackOrder
  <1>6. disk' \in Disks
    BY <1>2, <1>3, <1>4, <1>5, FileTyped, StateTyped
  <1>7. /\ disk'.lgConfig = disk.lgConfig /\ disk'.lgHash = disk.lgHash
        /\ disk'.config = IF job.at = 1 THEN job.snap.cfg ELSE disk.config
        /\ disk'.hash = IF job.at = 2 THEN job.snap.cfg ELSE disk.hash
        /\ disk'.current = IF job.at = 3 THEN job.snap.ver ELSE disk.current
        /\ disk'.state = IF job.at = 4 THEN job.snap ELSE disk.state
        /\ disk'.marker = IF job.at = 6 THEN None ELSE disk.marker
    BY <1>1, <1>3, <1>4, <1>5, OneFile DEF RollbackFiles
  <1> QED BY <1>2, <1>3, <1>5, <1>6, <1>7

LEMMA WriteRollback ==
  ASSUME Inv, job.phase = "rollback", At # "proc", disk' = Written(At), Advance,
         amiss' = Noted(FALSE), UNCHANGED <<proc, sup, rec, build, faults>>
  PROVE  Inv'
  <1>1. /\ TypeOK /\ JobShape /\ Recoverable
        /\ RecoverFiles /\ PrepareFiles /\ ApplyFiles /\ RollbackFiles /\ OtherFiles
        /\ ProcessOfJob /\ UpConsistent
    BY DEF Inv
  <1>2. job.kind = "apply" /\ job.dirty = FALSE /\ job.snap \in States
    BY RollbackWritten
  <1>3. job.at \in 1 .. 6 /\ disk \in Disks
    BY RollbackWritten
  <1>4. /\ amiss' \subseteq Amiss /\ (Revived' <=> Revived)
        /\ IF job.at = 4 THEN ~Late' ELSE Late' <=> Late
    BY <1>1, RollbackWritten, NotedFacts DEF TypeOK
  <1>5. Len(Order(job.phase)) = 6 /\ job.at # 5
    BY RollbackWritten
  <1>6. disk' \in Disks
    BY RollbackWritten
  <1>7. /\ disk'.lgConfig = disk.lgConfig /\ disk'.lgHash = disk.lgHash
        /\ disk'.config = IF job.at = 1 THEN job.snap.cfg ELSE disk.config
        /\ disk'.hash = IF job.at = 2 THEN job.snap.cfg ELSE disk.hash
        /\ disk'.current = IF job.at = 3 THEN job.snap.ver ELSE disk.current
        /\ disk'.state = IF job.at = 4 THEN job.snap ELSE disk.state
        /\ disk'.marker = IF job.at = 6 THEN None ELSE disk.marker
    BY RollbackWritten
  <1>8. CASE job.at < 6
    <2>1. /\ job' \in Jobs /\ job'.at = job.at + 1
          /\ job'.kind = job.kind /\ job'.phase = "rollback" /\ job'.d = job.d
          /\ job'.snap = job.snap /\ job'.dirty = job.dirty
          /\ sched' = sched /\ agent' = agent /\ tainted' = tainted
      BY <1>1, <1>5, <1>8, NextWrite
    <2>2. TypeOK'
      BY <1>1, <1>4, <1>6, <2>1 DEF TypeOK
    <2>3. JobShape'
      BY <1>1, <1>2, <1>3, <1>8, <2>1 DEF JobShape, PhasesOf, Writes
    <2>4. RollbackFiles'
      BY <1>1, <1>3, <1>5, <1>4, <1>7, <1>8, <2>1 DEF RollbackFiles, LastGoodValid
    <2>5. Recoverable'
      BY <1>1, <1>4, <1>7, <1>8 DEF RollbackFiles, Recoverable, Committed, LastGoodValid
    <2>6. RecoverFiles' /\ PrepareFiles' /\ ApplyFiles'
      BY <2>1 DEF RecoverFiles, PrepareFiles, ApplyFiles
    <2>7. OtherFiles'
      BY <1>1, <1>2, <1>4, <1>7, <1>8, <2>1 DEF OtherFiles, RollbackFiles
    <2>8. ProcessOfJob'
      BY <1>1, <1>2, <1>3, <1>5, <1>4, <1>7, <2>1
         DEF ProcessOfJob, Quiet, Serves, AsApplied, Untouched
    <2>9. UpConsistent'
      BY <1>2, <2>1 DEF UpConsistent
    <2> QED BY <2>2, <2>3, <2>4, <2>5, <2>6, <2>7, <2>8, <2>9 DEF Inv
  <1>9. CASE job.at = 6
    <2>1. Return /\ tainted' = FALSE
      BY <1>2, <1>3, <1>5, <1>9, LastWrite
    <2>2. job' = Idle /\ agent' = "up" /\ sched' \in Queues
      BY <1>1, <2>1, ReturnJob
    <2>3. TypeOK'
      BY <1>1, <1>4, <1>6, <2>1, <2>2, IdleJob DEF TypeOK
    <2>4. Consistent'
      BY <1>1, <1>4, <1>7, <1>9 DEF RollbackFiles, Consistent
    <2>5. AsApplied'
      BY <1>1, <1>4, <1>7, <1>9 DEF RollbackFiles, ProcessOfJob, Serves, AsApplied
    <2> QED BY <1>7, <1>9, <2>2, <2>3, <2>4, <2>5, Returned DEF Recoverable
  <1> QED BY <1>3, <1>8, <1>9

\* The files of a first state that could not be applied are removed.
LEMMA CleanupWritten ==
  ASSUME Inv, job.phase = "cleanup", At # "proc", disk' = Written(At)
  PROVE  /\ job.kind = "apply" /\ job.dirty \in BOOLEAN
         /\ job.at \in 1 .. 5 /\ disk \in Disks
         /\ disk' \in Disks
         /\ Len(Order(job.phase)) = 5 /\ job.at # 1
         /\ disk'.marker = None /\ disk'.state = IF job.at = 5 THEN None ELSE disk.state
         /\ At = "state" <=> job.at = 5
  <1>1. /\ TypeOK /\ JobShape /\ Recoverable
        /\ RecoverFiles /\ PrepareFiles /\ ApplyFiles /\ RollbackFiles /\ OtherFiles
        /\ ProcessOfJob /\ UpConsistent
    BY DEF Inv
  <1>2. job.kind = "apply" /\ job.dirty \in BOOLEAN
    BY <1>1 DEF JobShape, PhasesOf, TypeOK, Jobs
  <1>3. job.at \in 1 .. 5 /\ disk \in Disks
    BY <1>1, JobTypes DEF Writes
  <1>4. \A f : Value(f) = None
    BY DEF Value
  <1>5. /\ Len(Order(job.phase)) = 5 /\ job.at # 1
        /\ job.at = 2 => At = "config"
        /\ job.at = 3 => At = "hash"
        /\ job.at = 4 => At = "current"
        /\ job.at = 5 => At = "state"
    BY <1>3, CleanupOrder
  <1>6. disk' \in Disks
    BY <1>3, <1>4, <1>5, FileTyped
  <1>7. disk'.marker = None /\ disk'.state = IF job.at = 5 THEN None ELSE disk.state
    BY <1>1, <1>3, <1>4, <1>5, OneFile DEF OtherFiles
  <1> QED BY <1>2, <1>3, <1>5, <1>6, <1>7

LEMMA WriteCleanup ==
  ASSUME Inv, job.phase = "cleanup", At # "proc", disk' = Written(At), Advance,
         amiss' = Noted(FALSE), UNCHANGED <<proc, sup, rec, build, faults>>
  PROVE  Inv'
  <1>1. /\ TypeOK /\ JobShape /\ Recoverable
        /\ RecoverFiles /\ PrepareFiles /\ ApplyFiles /\ RollbackFiles /\ OtherFiles
        /\ ProcessOfJob /\ UpConsistent
    BY DEF Inv
  <1>2. job.kind = "apply" /\ job.dirty \in BOOLEAN
    BY CleanupWritten
  <1>3. job.at \in 1 .. 5 /\ disk \in Disks
    BY CleanupWritten
  <1>4. /\ amiss' \subseteq Amiss /\ (Revived' <=> Revived)
        /\ IF job.at = 5 THEN ~Late' ELSE Late' <=> Late
    BY <1>1, CleanupWritten, NotedFacts DEF TypeOK
  <1>5. Len(Order(job.phase)) = 5 /\ job.at # 1
    BY CleanupWritten
  <1>6. disk' \in Disks
    BY CleanupWritten
  <1>7. disk'.marker = None /\ disk'.state = IF job.at = 5 THEN None ELSE disk.state
    BY CleanupWritten
  <1>8. Quiet'
    BY <1>1, <1>3, <1>5 DEF ProcessOfJob, Quiet
  <1>9. CASE job.at < 5
    <2>1. /\ job' \in Jobs /\ job'.at = job.at + 1
          /\ job'.kind = job.kind /\ job'.phase = "cleanup" /\ job'.d = job.d
          /\ job'.snap = job.snap /\ job'.dirty = job.dirty
          /\ sched' = sched /\ agent' = agent /\ tainted' = tainted
      BY <1>1, <1>5, <1>9, NextWrite
    <2>2. TypeOK'
      BY <1>1, <1>4, <1>6, <2>1 DEF TypeOK
    <2>3. JobShape'
      BY <1>1, <1>2, <1>3, <1>9, <2>1 DEF JobShape, PhasesOf, Writes
    <2>4. RecoverFiles' /\ PrepareFiles' /\ ApplyFiles' /\ RollbackFiles'
      BY <2>1 DEF RecoverFiles, PrepareFiles, ApplyFiles, RollbackFiles
    <2>5. Recoverable' /\ OtherFiles'
      BY <1>1, <1>2, <1>4, <1>7, <2>1 DEF Recoverable, Consistent, OtherFiles
    <2>6. ProcessOfJob' /\ UpConsistent'
      BY <1>2, <1>8, <2>1 DEF ProcessOfJob, Untouched, UpConsistent
    <2> QED BY <2>2, <2>3, <2>4, <2>5, <2>6 DEF Inv
  <1>10. CASE job.at = 5
    <2>1. Return /\ tainted' = job.dirty
      BY <1>2, <1>3, <1>5, <1>10, LastWrite
    <2>2. job' = Idle /\ agent' = "up" /\ sched' \in Queues
      BY <1>1, <2>1, ReturnJob
    <2>3. TypeOK'
      BY <1>1, <1>2, <1>4, <1>6, <2>1, <2>2, IdleJob DEF TypeOK
    <2>4. Consistent' /\ AsApplied' /\ Recoverable'
      BY <1>4, <1>7, <1>8, <1>10 DEF Consistent, AsApplied, Recoverable
    <2> QED BY <1>7, <2>2, <2>3, <2>4, Returned
  <1> QED BY <1>3, <1>9, <1>10

-----------------------------------------------------------------------------
(* Errors. *)

LEMMA ErrorCases ==
  ASSUME OnError
  PROVE  /\ job.phase = "prepare" => Return /\ tainted' = tainted
         /\ job.phase = "apply" /\ At = "marker" => Return /\ tainted' = FALSE
         /\ job.phase = "apply" /\ At # "marker" =>
               Enter(IF job.snap = None THEN "cleanup" ELSE "rollback") /\ tainted' = tainted
         /\ job.phase = "cleanup" /\ job.at \in 2 .. 4 =>
               /\ job' = [job EXCEPT !.at = job.at + 1, !.dirty = TRUE]
               /\ sched' = sched /\ agent' = agent /\ tainted' = tainted
         /\ job.phase \in {"recover", "finish", "rollback"} => ReturnTainted
         /\ job.phase = "cleanup" /\ job.at \notin 2 .. 4 => ReturnTainted
  <1>1. ASSUME job.phase = "prepare" PROVE Return /\ tainted' = tainted
    BY <1>1 DEF OnError
  <1>2. ASSUME job.phase = "apply", At = "marker" PROVE Return /\ tainted' = FALSE
    BY <1>2 DEF OnError
  <1>3. ASSUME job.phase = "apply", At # "marker"
        PROVE  Enter(IF job.snap = None THEN "cleanup" ELSE "rollback") /\ tainted' = tainted
    BY <1>3 DEF OnError
  <1>4. ASSUME job.phase = "cleanup", job.at \in 2 .. 4
        PROVE  /\ job' = [job EXCEPT !.at = job.at + 1, !.dirty = TRUE]
               /\ sched' = sched /\ agent' = agent /\ tainted' = tainted
    BY <1>4 DEF OnError
  <1>5. ASSUME job.phase \in {"recover", "finish", "rollback"} PROVE ReturnTainted
    BY <1>5 DEF OnError
  <1>6. ASSUME job.phase = "cleanup", job.at \notin 2 .. 4 PROVE ReturnTainted
    BY <1>6 DEF OnError
  <1> QED BY <1>1, <1>2, <1>3, <1>4, <1>5, <1>6

\* A write that had no effect, or a change of the process, fails.
LEMMA ErrorInv ==
  ASSUME Inv, job.phase \in {"recover", "finish", "prepare", "apply", "rollback", "cleanup"},
         UNCHANGED <<disk, build>>, OnError,
         proc' \in Specs \cup {None}, sup' \in Supervision, rec' \in Supervision,
         faults' \in 0 .. MaxFaults, At # "proc" => UNCHANGED <<proc, sup>>,
         amiss' \subseteq Amiss, Late' <=> Late, Revived => Revived'
  PROVE  Inv'
  <1>1. /\ TypeOK /\ JobShape /\ Recoverable
        /\ RecoverFiles /\ PrepareFiles /\ ApplyFiles /\ RollbackFiles /\ OtherFiles
        /\ ProcessOfJob /\ UpConsistent
    BY DEF Inv
  <1>2. /\ disk \in Disks /\ build \in Builds /\ job.at \in 1 .. 6
        /\ job.kind = "apply" => job.d \in Desired
        /\ tainted \in BOOLEAN /\ sched \in Queues /\ agent \in {"down", "boot", "up"}
    BY <1>1, JobTypes DEF TypeOK
  <1>3. Consistent' = Consistent /\ Recoverable'
    BY <1>1 DEF Consistent, Committed, LastGoodValid, Recoverable
  <1>4. disk'.marker # None => disk'.state # None
    BY <1>1 DEF OtherFiles
  <1>5. ASSUME Return, tainted' \in BOOLEAN, ~tainted' => AsApplied' /\ Consistent
        PROVE  Inv'
    <2>1. job' = Idle /\ agent' = "up" /\ sched' \in Queues
      BY <1>1, <1>5, ReturnJob
    <2>2. TypeOK'
      BY <1>2, <1>5, <2>1, IdleJob DEF TypeOK
    <2> QED BY <1>3, <1>4, <1>5, <2>1, <2>2, Returned
  <1>6. CASE job.phase = "prepare"
    <2>1. Return /\ tainted' = tainted
      BY <1>6, ErrorCases
    <2>2. job.at \in 1 .. 3
      BY <1>1, <1>2, <1>6 DEF JobShape, Writes
    <2>3. UNCHANGED <<proc, sup>>
      BY <1>6, <2>2, PrepareOrder
    <2>4. Consistent
      BY <1>1, <1>6 DEF PrepareFiles, Recoverable
    <2>5. ~tainted => AsApplied'
      BY <1>1, <1>6, <2>3 DEF ProcessOfJob, Untouched, AsApplied, Quiet, Serves
    <2> QED BY <1>2, <1>5, <2>1, <2>4, <2>5
  <1>7. CASE job.phase = "apply" /\ At = "marker"
    <2>1. Return /\ tainted' = FALSE
      BY <1>7, ErrorCases
    <2>2. job.at = 6 /\ UNCHANGED <<proc, sup>>
      BY <1>2, <1>7, ApplyOrder
    <2>3. job.d \in Desired
      BY <1>1, <1>2, <1>7 DEF JobShape, PhasesOf, TypeOK, Jobs
    <2>4. Consistent
      BY <1>1, <1>2, <1>7, <2>2, <2>3, NewStateTyped DEF ApplyFiles, Consistent
    <2>5. AsApplied'
      BY <1>1, <1>2, <1>7, <2>2, <2>3, NewStateTyped DEF ApplyFiles, ProcessOfJob, AsApplied, Serves
    <2> QED BY <1>5, <2>1, <2>4, <2>5
  <1>8. CASE job.phase = "apply" /\ At # "marker"
    <2>1. Enter(IF job.snap = None THEN "cleanup" ELSE "rollback") /\ tainted' = tainted
      BY <1>8, ErrorCases
    <2>2. job.at <= 5 /\ job.kind = "apply" /\ job.dirty = FALSE
      BY <1>1, <1>2, <1>8, ApplyOrder DEF JobShape, PhasesOf, TypeOK, Jobs
    <2>3. /\ job' \in Jobs /\ job'.at = 1
          /\ job'.phase = IF job.snap = None THEN "cleanup" ELSE "rollback"
          /\ job'.kind = job.kind /\ job'.d = job.d /\ job'.snap = job.snap
          /\ job'.dirty = job.dirty
          /\ sched' = sched /\ agent' = agent
      BY <1>1, <2>1, EnterJob DEF Phases
    <2>4. TypeOK'
      BY <1>2, <2>1, <2>3 DEF TypeOK
    <2>5. JobShape'
      BY <1>1, <2>2, <2>3 DEF JobShape, PhasesOf, Writes
    <2>6. RollbackFiles'
      BY <1>1, <1>8, <2>2, <2>3 DEF ApplyFiles, RollbackFiles, LastGoodValid
    <2>7. OtherFiles'
      BY <1>1, <1>8, <2>2, <2>3 DEF ApplyFiles, OtherFiles
    <2>8. RecoverFiles' /\ PrepareFiles' /\ ApplyFiles'
      BY <2>3 DEF RecoverFiles, PrepareFiles, ApplyFiles
    <2>9. agent = "up"
      BY <1>1, <1>2, <2>2 DEF JobShape
    <2>10. ProcessOfJob' /\ UpConsistent'
      BY <2>2, <2>3, <2>9 DEF ProcessOfJob, Untouched, UpConsistent
    <2> QED BY <1>3, <2>4, <2>5, <2>6, <2>7, <2>8, <2>10 DEF Inv
  <1>9. CASE job.phase = "cleanup" /\ job.at \in 2 .. 4
    <2>1. PICK n \in 1 .. 6 : n = job.at + 1
      BY <1>9
    <2>2. /\ job' = [job EXCEPT !.at = n, !.dirty = TRUE]
          /\ sched' = sched /\ agent' = agent /\ tainted' = tainted
      BY <1>9, <2>1, ErrorCases
    <2>3. job \in Jobs
      BY <1>1 DEF TypeOK
    <2>4. job' \in Jobs
      BY <2>2, <2>3 DEF Jobs
    <2>5. /\ job'.at = n /\ job'.kind = job.kind /\ job'.phase = "cleanup" /\ job'.d = job.d
          /\ job'.snap = job.snap
      BY <1>9, <2>2, <2>3 DEF Jobs
    <2>6. UNCHANGED <<proc, sup>> /\ job.kind = "apply"
      BY <1>1, <1>9, CleanupOrder DEF JobShape, PhasesOf, TypeOK, Jobs
    <2>7. TypeOK'
      BY <1>2, <2>2, <2>4 DEF TypeOK
    <2>8. JobShape'
      BY <1>1, <1>9, <2>1, <2>2, <2>5, <2>6 DEF JobShape, PhasesOf, Writes
    <2>9. OtherFiles'
      BY <1>1, <1>9, <2>5, <2>6 DEF OtherFiles
    <2>10. RecoverFiles' /\ PrepareFiles' /\ ApplyFiles' /\ RollbackFiles'
      BY <2>5 DEF RecoverFiles, PrepareFiles, ApplyFiles, RollbackFiles
    <2>11. ProcessOfJob' /\ UpConsistent'
      BY <1>1, <1>9, <2>2, <2>5, <2>6 DEF ProcessOfJob, Quiet, Untouched, UpConsistent, JobShape
    <2> QED BY <1>3, <2>7, <2>8, <2>9, <2>10, <2>11 DEF Inv
  <1>10. CASE \/ job.phase \in {"recover", "finish", "rollback"}
              \/ job.phase = "cleanup" /\ job.at \notin 2 .. 4
    <2>1. Return /\ tainted' = TRUE
      BY <1>10, ErrorCases DEF ReturnTainted
    <2> QED BY <1>5, <2>1
  <1> QED BY <1>6, <1>7, <1>8, <1>9, <1>10

\* A write fails after it took effect.
LEMMA LateErrorInv ==
  ASSUME Inv, job.phase \in {"recover", "finish", "prepare", "apply", "rollback", "cleanup"},
         At # "proc", disk' = Written(At), OnError, amiss' = Noted(job.phase = "apply"),
         UNCHANGED <<proc, sup, rec, build>>, faults' \in 0 .. MaxFaults
  PROVE  Inv'
  <1>1. /\ TypeOK /\ JobShape /\ Recoverable
        /\ RecoverFiles /\ PrepareFiles /\ ApplyFiles /\ RollbackFiles /\ OtherFiles
        /\ ProcessOfJob /\ UpConsistent
    BY DEF Inv
  <1>2. /\ build \in Builds /\ tainted \in BOOLEAN /\ sched \in Queues /\ agent \in {"down", "boot", "up"}
        /\ proc \in Specs \cup {None} /\ sup \in Supervision /\ rec \in Supervision
    BY <1>1 DEF TypeOK
  <1>3. /\ amiss' \subseteq Amiss /\ (Revived' <=> Revived)
        /\ At # "state" => (Late' <=> Late)
        /\ At = "state" => (Late' <=> job.phase = "apply")
    BY <1>1, NotedFacts DEF TypeOK
  <1>4. ASSUME Return, disk' \in Disks, Recoverable', disk'.marker # None => disk'.state # None,
               tainted' \in BOOLEAN, ~tainted' => AsApplied' /\ Consistent'
        PROVE  Inv'
    <2>1. job' = Idle /\ agent' = "up" /\ sched' \in Queues
      BY <1>1, <1>4, ReturnJob
    <2>2. TypeOK'
      BY <1>2, <1>3, <1>4, <2>1, IdleJob DEF TypeOK
    <2> QED BY <1>4, <2>1, <2>2, Returned
  <1>5. CASE job.phase = "prepare"
    <2>1. Return /\ tainted' = tainted
      BY <1>5, ErrorCases
    <2>2. disk' \in Disks /\ Consistent' /\ Recoverable' /\ (disk'.marker # None => disk'.state # None)
      <3>1. Consistent' /\ ~Late'
        BY <1>1, <1>3, <1>5, PrepareWritten DEF PrepareFiles, Recoverable, Consistent
      <3> QED BY <1>1, <1>5, <3>1, PrepareWritten
             DEF PrepareFiles, Recoverable, Committed, LastGoodValid
    <2>3. ~tainted => AsApplied'
      BY <1>1, <1>3, <1>5, PrepareWritten DEF ProcessOfJob, Untouched, AsApplied, Quiet, Serves
    <2> QED BY <1>2, <1>4, <2>1, <2>2, <2>3
  <1>6. CASE job.phase = "apply" /\ At = "marker"
    <2>1. Return /\ tainted' = FALSE
      BY <1>6, ErrorCases
    <2>2. job.d \in Desired /\ job.at = 6
      BY <1>1, <1>6, ApplyWritten, ApplyOrder
    <2>3. Consistent'
      BY <1>1, <1>2, <1>6, <2>2, NewStateTyped, ApplyWritten DEF ApplyFiles, Consistent
    <2>4. AsApplied'
      BY <1>1, <1>2, <1>3, <1>6, <2>2, NewStateTyped, ApplyWritten
         DEF ApplyFiles, ProcessOfJob, Serves, AsApplied
    <2>5. disk' \in Disks /\ disk'.marker = None
      BY <1>6, <2>2, ApplyWritten
    <2> QED BY <1>4, <2>1, <2>3, <2>4, <2>5 DEF Recoverable
  <1>7. CASE job.phase = "apply" /\ At # "marker"
    <2>1. Enter(IF job.snap = None THEN "cleanup" ELSE "rollback") /\ tainted' = tainted
      BY <1>7, ErrorCases
    <2>2. job.at <= 5 /\ job.kind = "apply" /\ job.dirty = FALSE /\ job.d \in Desired
      <3>1. job.kind = "apply" /\ job.dirty = FALSE /\ job.d \in Desired /\ job.at \in 1 .. 6
        BY <1>7, ApplyWritten
      <3>2. job.at # 6
        BY <1>7, <3>1, ApplyOrder
      <3> QED BY <3>1, <3>2
    <2>3. /\ job' \in Jobs /\ job'.at = 1
          /\ job'.phase = IF job.snap = None THEN "cleanup" ELSE "rollback"
          /\ job'.kind = job.kind /\ job'.d = job.d /\ job'.snap = job.snap
          /\ job'.dirty = job.dirty
          /\ sched' = sched /\ agent' = agent
      BY <1>1, <2>1, EnterJob DEF Phases
    <2>4. /\ disk' \in Disks /\ disk'.lgConfig = disk.lgConfig /\ disk'.lgHash = disk.lgHash
          /\ disk'.marker = disk.marker
          /\ disk'.state = IF Late' THEN NewState(job.d) ELSE disk.state
      BY <1>1, <1>3, <1>7, <2>2, ApplyWritten DEF ApplyFiles
    <2>5. NewState(job.d) # None
      BY <1>2, <2>2, NewStateTyped
    <2>6. TypeOK'
      BY <1>2, <1>3, <2>1, <2>3, <2>4 DEF TypeOK
    <2>7. JobShape'
      BY <1>1, <2>2, <2>3 DEF JobShape, PhasesOf, Writes
    <2>8. RollbackFiles'
      BY <1>1, <1>7, <2>2, <2>3, <2>4, <2>5 DEF ApplyFiles, RollbackFiles, LastGoodValid
    <2>9. OtherFiles'
      BY <1>1, <1>7, <2>2, <2>3, <2>4, <2>5 DEF ApplyFiles, OtherFiles
    <2>10. Recoverable'
      BY <1>1, <1>7, <2>2, <2>3, <2>4 DEF ApplyFiles, Recoverable, Committed, Consistent, LastGoodValid
    <2>11. RecoverFiles' /\ PrepareFiles' /\ ApplyFiles'
      BY <2>3 DEF RecoverFiles, PrepareFiles, ApplyFiles
    <2>12. agent = "up"
      BY <1>1, <1>2, <2>2 DEF JobShape
    <2>13. ProcessOfJob' /\ UpConsistent'
      BY <2>2, <2>3, <2>12 DEF ProcessOfJob, Untouched, UpConsistent
    <2> QED BY <2>6, <2>7, <2>8, <2>9, <2>10, <2>11, <2>13 DEF Inv
  <1>8. CASE job.phase = "cleanup" /\ job.at \in 2 .. 4
    <2>1. PICK n \in 1 .. 6 : n = job.at + 1
      BY <1>8
    <2>2. /\ job' = [job EXCEPT !.at = n, !.dirty = TRUE]
          /\ sched' = sched /\ agent' = agent /\ tainted' = tainted
      BY <1>8, <2>1, ErrorCases
    <2>3. job \in Jobs
      BY <1>1 DEF TypeOK
    <2>4. job' \in Jobs
      BY <2>2, <2>3 DEF Jobs
    <2>5. /\ job'.at = n /\ job'.kind = job.kind /\ job'.phase = "cleanup" /\ job'.d = job.d
          /\ job'.snap = job.snap
      BY <1>8, <2>2, <2>3 DEF Jobs
    <2>6. /\ disk' \in Disks /\ disk'.marker = None /\ disk'.state = disk.state /\ (Late' <=> Late)
          /\ job.kind = "apply"
      BY <1>3, <1>8, CleanupWritten
    <2>7. TypeOK'
      BY <1>2, <1>3, <2>2, <2>4, <2>6 DEF TypeOK
    <2>8. JobShape'
      BY <1>1, <1>8, <2>1, <2>2, <2>5, <2>6 DEF JobShape, PhasesOf, Writes
    <2>9. OtherFiles' /\ Recoverable'
      BY <1>1, <1>8, <2>5, <2>6 DEF OtherFiles, Recoverable, Consistent
    <2>10. RecoverFiles' /\ PrepareFiles' /\ ApplyFiles' /\ RollbackFiles'
      BY <2>5 DEF RecoverFiles, PrepareFiles, ApplyFiles, RollbackFiles
    <2>11. ProcessOfJob' /\ UpConsistent'
      BY <1>1, <1>8, <2>2, <2>5, <2>6 DEF ProcessOfJob, Quiet, Untouched, UpConsistent, JobShape
    <2> QED BY <2>7, <2>8, <2>9, <2>10, <2>11 DEF Inv
  <1>9. CASE job.phase = "cleanup" /\ job.at \notin 2 .. 4
    <2>1. Return /\ tainted' = TRUE
      BY <1>9, ErrorCases DEF ReturnTainted
    <2>2. disk' \in Disks /\ disk'.marker = None /\ disk'.state = None
      BY <1>1, <1>9, CleanupWritten
    <2> QED BY <1>4, <2>1, <2>2 DEF Recoverable, Consistent
  <1>10. CASE job.phase \in {"recover", "finish", "rollback"}
    <2>1. Return /\ tainted' = TRUE
      BY <1>10, ErrorCases DEF ReturnTainted
    <2>2. CASE job.phase = "recover"
      <3>1. disk' \in Disks /\ disk'.state = disk.state /\ disk.state # None
        BY <1>1, <2>2, RecoverWritten DEF RecoverFiles
      <3>2. CASE job.at < 5
        BY <1>1, <1>4, <2>1, <2>2, <3>1, <3>2, RecoverWritten
           DEF RecoverFiles, Recoverable, Committed, LastGoodValid
      <3>3. CASE job.at = 5
        BY <1>1, <1>4, <2>1, <2>2, <3>1, <3>3, RecoverWritten DEF RecoverFiles, Recoverable, Consistent
      <3> QED BY <2>2, <3>2, <3>3, RecoverWritten
    <2>3. CASE job.phase = "finish"
      <3>1. Consistent' /\ disk' \in Disks /\ disk'.marker = None
        BY <1>1, <2>3, FinishWritten DEF OtherFiles, Consistent
      <3> QED BY <1>4, <2>1, <3>1 DEF Recoverable
    <2>4. CASE job.phase = "rollback"
      <3>1. disk' \in Disks /\ disk'.state # None
        BY <1>1, <2>4, RollbackWritten DEF RollbackFiles
      <3>2. CASE job.at < 6
        <4>1. Late' \/ disk'.state = disk'.marker
          BY <1>1, <1>3, <2>4, <3>2, RollbackWritten DEF RollbackFiles
        <4>2. LastGoodValid' /\ disk'.marker # None
          BY <1>1, <2>4, <3>2, RollbackWritten DEF RollbackFiles, LastGoodValid
        <4> QED BY <1>4, <2>1, <3>1, <4>1, <4>2 DEF Recoverable, Committed
      <3>3. CASE job.at = 6
        <4>1. Consistent' /\ disk'.marker = None
          BY <1>1, <2>4, <3>3, RollbackWritten DEF RollbackFiles, Consistent
        <4> QED BY <1>4, <2>1, <3>1, <4>1 DEF Recoverable
      <3> QED BY <2>4, <3>2, <3>3, RollbackWritten
    <2> QED BY <1>10, <2>2, <2>3, <2>4
  <1> QED BY <1>5, <1>6, <1>7, <1>8, <1>9, <1>10

LEMMA FaultTyped ==
  ASSUME TypeOK, Fault
  PROVE  faults' \in 0 .. MaxFaults
  BY RuntimeAssumption DEF TypeOK, Fault

LEMMA WriteFileInv ==
  ASSUME Inv, WriteFile
  PROVE  Inv'
  <1>1. /\ At # "proc" /\ UNCHANGED <<proc, sup, rec, build>>
        /\ job.phase \in {"recover", "finish", "prepare", "apply", "rollback", "cleanup"}
    BY DEF WriteFile
  <1>2. CASE disk' = Written(At) /\ Advance /\ amiss' = Noted(FALSE) /\ UNCHANGED faults
    BY <1>1, <1>2, WriteRecover, WriteFinish, WritePrepare, WriteApply, WriteRollback, WriteCleanup
  <1>3. CASE Fault /\ OnError /\ UNCHANGED <<disk, amiss>>
    <2>1. faults' \in 0 .. MaxFaults
      BY <1>3, FaultTyped DEF Inv
    <2>2. amiss' \subseteq Amiss /\ (Late' <=> Late) /\ (Revived => Revived')
      BY <1>3 DEF Inv, TypeOK, Late, Revived
    <2> QED BY <1>1, <1>3, <2>1, <2>2, ErrorInv DEF Inv, TypeOK
  <1>4. CASE Fault /\ OnError /\ disk' = Written(At) /\ amiss' = Noted(job.phase = "apply")
    <2>1. faults' \in 0 .. MaxFaults
      BY <1>4, FaultTyped DEF Inv
    <2> QED BY <1>1, <1>4, <2>1, LateErrorInv
  <1> QED BY <1>2, <1>3, <1>4 DEF WriteFile

-----------------------------------------------------------------------------
(* The process. *)

LEMMA StoppedTyped ==
  ASSUME TypeOK, Stopped \/ NotStopped \/ NotStarted
  PROVE  proc' \in Specs \cup {None} /\ sup' \in Supervision /\ rec' \in Supervision
  <1>1. sup' \in Supervision
    BY DEF Stopped, NotStopped, NotStarted, TypeOK, Supervision
  <1> QED BY <1>1 DEF Stopped, NotStopped, NotStarted, TypeOK

LEMMA ProcessTyped ==
  ASSUME TypeOK, NEW spec \in Specs, Stopped \/ LaunchFails(spec)
  PROVE  proc' \in Specs \cup {None} /\ sup' \in Supervision /\ rec' \in Supervision
  <1>1. CASE Launched(spec)
    BY <1>1 DEF Launched, TypeOK, Supervision
  <1>2. CASE Stopped \/ NotStopped \/ NotStarted
    BY <1>2, StoppedTyped
  <1> QED BY <1>1, <1>2 DEF LaunchFails

\* What is launched serves its state, and what is stopped serves none.
LEMMA ProcessServes ==
  ASSUME TypeOK, NEW t \in States
  PROVE  /\ Launched(SpecOf(t)) => proc' = SpecOf(t) /\ sup'.want = TRUE /\ sup'.spec = SpecOf(t)
         /\ Stopped => proc' = None /\ sup'.want = FALSE
         /\ NotStarted => proc' = None /\ sup'.want = FALSE
         /\ NotStopped => proc' = proc /\ sup'.want = FALSE
  BY DEF Launched, Stopped, NotStarted, NotStopped, TypeOK, Supervision

LEMMA ChangeProcessInv ==
  ASSUME Inv, ChangeProcess
  PROVE  Inv'
  <1>1. /\ TypeOK /\ JobShape /\ Recoverable
        /\ RecoverFiles /\ PrepareFiles /\ ApplyFiles /\ RollbackFiles /\ OtherFiles
        /\ ProcessOfJob /\ UpConsistent
    BY DEF Inv
  <1>2. /\ disk \in Disks /\ build \in Builds /\ job.at \in 1 .. 6 /\ job.at <= Writes(job.phase)
        /\ job.kind = "apply" /\ job.d \in Desired
        /\ job.snap \in States \cup {None} /\ UNCHANGED <<disk, build>>
    BY <1>1, JobTypes DEF ChangeProcess, JobShape, PhasesOf, TypeOK, Jobs
  <1>3. /\ job.phase = "apply" => job.at = 4 /\ Len(Order(job.phase)) = 6
        /\ job.phase = "rollback" => job.at = 5 /\ Len(Order(job.phase)) = 6
        /\ job.phase = "cleanup" => job.at = 1 /\ Len(Order(job.phase)) = 5
        /\ At = "proc" /\ job.phase \in {"apply", "rollback", "cleanup"}
    <2>1. At = "proc" /\ job.phase \in {"apply", "rollback", "cleanup"}
      BY DEF ChangeProcess
    <2>2. CASE job.phase = "apply"
      BY <1>2, <2>1, <2>2, ApplyOrder
    <2>3. CASE job.phase = "rollback"
      BY <1>2, <2>1, <2>3, RollbackOrder
    <2>4. CASE job.phase = "cleanup"
      BY <1>2, <2>1, <2>4, CleanupOrder DEF Writes
    <2> QED BY <2>1, <2>2, <2>3, <2>4
  <1>4. /\ job.phase = "apply" => Target = NewState(job.d) /\ Target \in States
        /\ job.phase = "rollback" => Target = job.snap /\ Target \in States
    BY <1>1, <1>2, NewStateTyped DEF Target, RollbackFiles
  <1> DEFINE stop == job.phase = "cleanup" \/ (job.phase = "apply" /\ job.d.cfg \in Empty)
             revives == job.phase = "rollback" /\ ~job.snap.running
  <1>5. ~stop => Target \in States /\ SpecOf(Target) \in Specs
    BY <1>3, <1>4, StateTyped
  <1>6. CASE /\ (IF stop THEN Stopped ELSE Launched(SpecOf(Target))) /\ Advance /\ UNCHANGED faults
             /\ amiss' = (amiss \ {"revived"}) \cup {r \in {"revived"} : revives}
    <2>0. amiss' \subseteq Amiss /\ (Late' <=> Late) /\ (revives => Revived')
      BY <1>1, <1>6 DEF TypeOK, Amiss, Late, Revived
    <2> HIDE DEF revives
    <2>1. /\ job' \in Jobs /\ job'.at = job.at + 1
          /\ job'.kind = job.kind /\ job'.phase = job.phase /\ job'.d = job.d
          /\ job'.snap = job.snap /\ job'.dirty = job.dirty
          /\ sched' = sched /\ agent' = agent /\ tainted' = tainted
      BY <1>1, <1>3, <1>6, NextWrite
    <2>2. proc' \in Specs \cup {None} /\ sup' \in Supervision /\ rec' \in Supervision
      <3>1. CASE stop
        BY <1>1, <1>6, <3>1, StoppedTyped
      <3>2. CASE ~stop
        BY <1>1, <1>5, <1>6, <3>2, ProcessTyped DEF LaunchFails
      <3> QED BY <3>1, <3>2
    <2>3. TypeOK'
      BY <1>1, <1>2, <1>6, <2>0, <2>1, <2>2 DEF TypeOK
    <2>4. JobShape'
      BY <1>1, <1>2, <1>3, <2>1 DEF JobShape, PhasesOf, Writes
    <2>5. NewState(job.d)' = NewState(job.d) /\ Consistent' = Consistent /\ Recoverable'
      BY <1>1, <1>2, <2>0, <2>1 DEF NewState, Consistent, Recoverable, Committed, LastGoodValid
    <2>6. ApplyFiles' /\ RollbackFiles'
      BY <1>1, <1>2, <1>3, <2>0, <2>1, <2>5 DEF ApplyFiles, RollbackFiles, LastGoodValid
    <2>7. RecoverFiles' /\ PrepareFiles' /\ OtherFiles'
      BY <1>1, <1>2, <1>3, <2>0, <2>1 DEF RecoverFiles, PrepareFiles, OtherFiles
    <2>8. agent = "up"
      BY <1>1, <1>2 DEF JobShape, TypeOK
    <2>9. /\ job.phase = "apply" => Serves(NewState(job.d))'
          /\ job.phase = "rollback" => Serves(job.snap)'
          /\ job.phase = "cleanup" => Quiet'
      <3>1. CASE stop
        <4>1. proc' = None /\ sup'.want = FALSE
          BY <1>1, <1>6, <3>1 DEF Stopped, TypeOK, Supervision
        <4> QED BY <3>1, <4>1 DEF Serves, Quiet
      <3>2. CASE ~stop
        <4>1. proc' = SpecOf(Target) /\ sup'.spec = SpecOf(Target)
          BY <1>6, <3>2 DEF Launched
        <4>2. job.phase = "apply" => NewState(job.d).running
          BY <3>2 DEF NewState
        <4>3. job.phase = "rollback" => job.snap.running \/ Revived'
          BY <2>0 DEF revives
        <4> QED BY <1>3, <1>4, <2>1, <2>5, <3>2, <4>1, <4>2, <4>3 DEF Serves
      <3> QED BY <3>1, <3>2
    <2>10. ProcessOfJob' /\ UpConsistent'
      BY <1>2, <1>3, <2>1, <2>8, <2>9 DEF ProcessOfJob, Untouched, UpConsistent
    <2> QED BY <2>3, <2>4, <2>5, <2>6, <2>7, <2>10 DEF Inv
  <1>7. CASE /\ Fault /\ (IF stop THEN NotStopped ELSE LaunchFails(SpecOf(Target))) /\ OnError
             /\ amiss' = amiss \cup {r \in {"revived"} : revives}
    <2>0. amiss' \subseteq Amiss /\ (Late' <=> Late) /\ (Revived => Revived')
      BY <1>1, <1>7 DEF TypeOK, Amiss, Late, Revived
    <2>1. proc' \in Specs \cup {None} /\ sup' \in Supervision /\ rec' \in Supervision
      <3>1. CASE stop
        BY <1>1, <1>7, <3>1, StoppedTyped
      <3>2. CASE ~stop
        BY <1>1, <1>5, <1>7, <3>2, ProcessTyped
      <3> QED BY <3>1, <3>2
    <2>2. faults' \in 0 .. MaxFaults
      BY <1>1, <1>7, FaultTyped
    <2> HIDE DEF stop, revives
    <2> QED BY <1>2, <1>3, <1>7, <2>0, <2>1, <2>2, ErrorInv
  <1> QED BY <1>6, <1>7 DEF ChangeProcess

-----------------------------------------------------------------------------
(* The other steps of a job. *)

\* A job returns without a change to the files.
LEMMA ReturnedAsIs ==
  ASSUME Inv, Return, UNCHANGED <<disk, build>>,
         proc' \in Specs \cup {None}, sup' \in Supervision, rec' \in Supervision,
         faults' \in 0 .. MaxFaults, tainted' \in BOOLEAN,
         amiss' \subseteq Amiss, (Late' <=> Late) \/ (~Late' /\ Consistent),
         ~tainted' => AsApplied' /\ (Consistent \/ Late)
  PROVE  Inv'
  <1>1. job' = Idle /\ agent' = "up" /\ sched' \in Queues
    BY ReturnJob DEF Inv
  <1>2. TypeOK'
    BY <1>1, IdleJob DEF TypeOK, Inv
  <1>3. Consistent' = Consistent /\ Recoverable'
    BY DEF Inv, Consistent, Committed, LastGoodValid, Recoverable
  <1>4. disk'.marker # None => disk'.state # None
    BY DEF Inv, OtherFiles
  <1> QED BY <1>1, <1>2, <1>3, <1>4, Returned

LEMMA BeginRecoveryInv ==
  ASSUME Inv, BeginRecovery
  PROVE  Inv'
  <1>1. /\ TypeOK /\ JobShape /\ Recoverable
        /\ RecoverFiles /\ PrepareFiles /\ ApplyFiles /\ RollbackFiles /\ OtherFiles
        /\ ProcessOfJob /\ UpConsistent
    BY DEF Inv
  <1>2. /\ job.phase = "begin" /\ job.kind \in {"apply", "boot"} /\ job.dirty = FALSE
        /\ UNCHANGED <<disk, proc, sup, rec, build, faults>>
        /\ amiss' \subseteq Amiss /\ (Late' <=> Late /\ ~Consistent) /\ (Revived' <=> Revived)
    <2>1. amiss' = (IF Consistent THEN amiss \ {"late"} ELSE amiss) /\ amiss \subseteq Amiss
      BY <1>1 DEF BeginRecovery, TypeOK
    <2>2. amiss' \subseteq Amiss /\ (Late' <=> Late /\ ~Consistent) /\ (Revived' <=> Revived)
      BY <2>1 DEF Late, Revived
    <2> QED BY <1>1, <2>2 DEF BeginRecovery, JobShape, PhasesOf, TypeOK, Jobs
  <1>3. CASE ReturnTainted
    BY <1>1, <1>2, <1>3, ReturnedAsIs DEF ReturnTainted, TypeOK
  <1>4. ASSUME NEW p \in {"recover", "finish", "check", "start"}, Enter(p), tainted' = tainted,
               p \in {"check", "start"} => p = AfterRecovery /\ disk.marker = None,
               p = "finish" => disk.marker # None /\ Committed /\ Consistent,
               p = "recover" => disk.marker # None /\ ~Committed /\ LastGoodValid
        PROVE  Inv'
    <2>1. /\ job' \in Jobs /\ job'.phase = p /\ job'.at = 1
          /\ job'.kind = job.kind /\ job'.d = job.d /\ job'.snap = job.snap
          /\ job'.dirty = job.dirty
          /\ sched' = sched /\ agent' = agent
      BY <1>1, <1>4, EnterJob DEF Phases
    <2>2. TypeOK'
      BY <1>1, <1>2, <1>4, <2>1 DEF TypeOK
    <2>3. JobShape'
      BY <1>1, <1>2, <1>4, <2>1 DEF JobShape, PhasesOf, Writes, AfterRecovery
    <2>4. Consistent' = Consistent /\ Committed' = Committed /\ Recoverable'
      BY <1>1, <1>2 DEF Consistent, Committed, LastGoodValid, Recoverable
    <2>5. RecoverFiles'
      BY <1>1, <1>2, <1>4, <2>1 DEF RecoverFiles, Committed, LastGoodValid, OtherFiles
    <2>6. OtherFiles'
      BY <1>1, <1>2, <1>4, <2>1, <2>4 DEF OtherFiles
    <2>7. PrepareFiles' /\ ApplyFiles' /\ RollbackFiles'
      BY <1>4, <2>1 DEF PrepareFiles, ApplyFiles, RollbackFiles
    <2>8. ProcessOfJob' /\ UpConsistent'
      BY <1>1, <1>2, <1>4, <2>1
         DEF ProcessOfJob, Quiet, Serves, AsApplied, Untouched, UpConsistent, JobShape
    <2> QED BY <2>2, <2>3, <2>4, <2>5, <2>6, <2>7, <2>8 DEF Inv
  <1>5. \/ disk.marker = None /\ Enter(AfterRecovery) /\ tainted' = tainted
        \/ disk.marker # None /\ Committed /\ Consistent /\ Enter("finish") /\ tainted' = tainted
        \/ disk.marker # None /\ ~Committed /\ LastGoodValid /\ Enter("recover") /\ tainted' = tainted
        \/ ReturnTainted
    BY DEF BeginRecovery
  <1>6. AfterRecovery \in {"check", "start"}
    BY DEF AfterRecovery
  <1> QED BY <1>3, <1>4, <1>5, <1>6

LEMMA CheckApplyInv ==
  ASSUME Inv, CheckApply
  PROVE  Inv'
  <1>1. /\ TypeOK /\ JobShape /\ Recoverable
        /\ RecoverFiles /\ PrepareFiles /\ ApplyFiles /\ RollbackFiles /\ OtherFiles
        /\ ProcessOfJob /\ UpConsistent
    BY DEF Inv
  <1>0. amiss' \subseteq Amiss /\ (Late' <=> Late) /\ (Revived' <=> Revived)
    BY <1>1, AmissKept DEF CheckApply
  <1>2. /\ job.phase = "check" /\ job.kind = "apply" /\ job.dirty = FALSE /\ job.d \in Desired
        /\ UNCHANGED <<disk, proc, sup, rec, build, tainted>>
    BY <1>1 DEF CheckApply, JobShape, PhasesOf, TypeOK, Jobs
  <1>3. disk.marker = None /\ (Late <=> ~Consistent)
    BY <1>1, <1>2 DEF OtherFiles, Recoverable
  <1>4. faults' \in 0 .. MaxFaults
    BY <1>1, FaultTyped DEF CheckApply, TypeOK
  <1>5. ~tainted => AsApplied /\ AsApplied'
    BY <1>0, <1>1, <1>2 DEF ProcessOfJob, Untouched, AsApplied, Quiet, Serves
  <1>6. CASE Return
    BY <1>0, <1>1, <1>2, <1>3, <1>4, <1>5, <1>6, ReturnedAsIs DEF TypeOK
  <1>7. ASSUME ~Refused(job.d), Consistent, UNCHANGED <<sched, agent>>,
               job' = [job EXCEPT !.phase = IF disk.state = None THEN "apply" ELSE "prepare",
                                  !.at = 1, !.snap = disk.state]
        PROVE  Inv'
    <2>1. disk.state \in States \cup {None}
      BY <1>1, JobTypes
    <2>2. PICK p \in Phases : p = IF disk.state = None THEN "apply" ELSE "prepare"
      BY DEF Phases
    <2>3. PICK n \in 1 .. 6 : n = 1
      OBVIOUS
    <2>4. /\ p = (IF disk.state = None THEN "apply" ELSE "prepare")
          /\ job' = [job EXCEPT !.phase = p, !.at = n, !.snap = disk.state]
      BY <1>7, <2>2, <2>3
    <2>5. job \in Jobs
      BY <1>1 DEF TypeOK
    <2>6. job' \in Jobs
      BY <2>4, <2>5, <2>1 DEF Jobs
    <2>7. /\ job'.phase = p /\ job'.at = 1 /\ job'.snap = disk.state
          /\ job'.kind = job.kind /\ job'.d = job.d /\ job'.dirty = job.dirty
      BY <2>4, <2>5, <2>3 DEF Jobs
    <2>8. TypeOK'
      BY <1>0, <1>1, <1>2, <1>4, <1>7, <2>6 DEF TypeOK
    <2>9. JobShape'
      BY <1>1, <1>2, <1>7, <2>4, <2>7 DEF JobShape, PhasesOf, Writes
    <2>10. Consistent' /\ Recoverable'
      BY <1>2, <1>3, <1>7 DEF Consistent, Recoverable
    <2>11. disk.state # None => disk.state.gen <= job.d.gen
      <3>1. job.d.gen \in Nat /\ (disk.state # None => disk.state.gen \in Nat)
        BY <1>1, <1>2, RuntimeAssumption, JobTypes, StateTyped
      <3> QED BY <1>7, <3>1 DEF Refused, Older
    <2>12. PrepareFiles' /\ ApplyFiles'
      BY <1>0, <1>2, <1>3, <1>7, <2>4, <2>7, <2>11 DEF PrepareFiles, ApplyFiles
    <2>13. RecoverFiles' /\ RollbackFiles' /\ OtherFiles'
      BY <1>1, <1>2, <1>3, <2>4, <2>7 DEF RecoverFiles, RollbackFiles, OtherFiles
    <2>14. ProcessOfJob' /\ UpConsistent'
      BY <1>1, <1>2, <1>5, <1>7, <2>4, <2>7 DEF ProcessOfJob, Untouched, UpConsistent, JobShape
    <2> QED BY <2>8, <2>9, <2>10, <2>12, <2>13, <2>14 DEF Inv
  <1> QED BY <1>6, <1>7 DEF CheckApply

LEMMA StartLocalInv ==
  ASSUME Inv, StartLocal
  PROVE  Inv'
  <1>1. /\ TypeOK /\ JobShape /\ Recoverable
        /\ RecoverFiles /\ PrepareFiles /\ ApplyFiles /\ RollbackFiles /\ OtherFiles
        /\ ProcessOfJob /\ UpConsistent
    BY DEF Inv
  <1>0. amiss' \subseteq Amiss /\ (Late' <=> Late) /\ (Revived' <=> Revived)
    BY <1>1, AmissKept DEF StartLocal
  <1>2. job.phase = "start" /\ job.kind = "boot" /\ UNCHANGED <<disk, build>>
    BY <1>1 DEF StartLocal, JobShape, PhasesOf, TypeOK, Jobs
  <1>3. Quiet /\ (Late <=> ~Consistent)
    BY <1>1, <1>2 DEF OtherFiles, Recoverable, ProcessOfJob
  <1>4. tainted \in BOOLEAN /\ disk.state \in States \cup {None}
    BY <1>1, JobTypes DEF TypeOK
  <1>5. CASE Return /\ UNCHANGED <<proc, sup, rec, tainted, faults>>
    <2>1. AsApplied'
      BY <1>2, <1>3, <1>5 DEF Quiet, AsApplied, Serves
    <2> QED BY <1>0, <1>1, <1>2, <1>3, <1>5, <2>1, ReturnedAsIs DEF TypeOK
  <1>6. CASE ReturnTainted /\ UNCHANGED <<proc, sup, rec, faults>>
    BY <1>0, <1>1, <1>2, <1>6, ReturnedAsIs DEF TypeOK, ReturnTainted
  <1>7. ASSUME disk.state # None, disk.state.running, Launched(SpecOf(disk.state)) \/ NotStarted, Return,
               tainted' \in BOOLEAN, faults' \in 0 .. MaxFaults
        PROVE  Inv'
    <2>1. disk.state \in States /\ SpecOf(disk.state) \in Specs
      BY <1>4, <1>7, StateTyped
    <2>2. proc' \in Specs \cup {None} /\ sup' \in Supervision /\ rec' \in Supervision
      BY <1>1, <1>7, <2>1, ProcessTyped DEF LaunchFails
    <2>3. AsApplied'
      BY <1>1, <1>2, <1>7, <2>1, ProcessServes DEF AsApplied, Serves
    <2> QED BY <1>0, <1>2, <1>3, <1>7, <2>2, <2>3, ReturnedAsIs
  <1>8. CASE /\ Fault /\ ReturnTainted
             /\ proc' = rec.spec
             /\ sup' = [want |-> FALSE, spec |-> rec.spec]
             /\ rec' \in {rec, sup'}
    <2>1. rec \in Supervision
      BY <1>1 DEF TypeOK
    <2>2. rec.spec \in Specs \cup {None}
      BY <2>1 DEF Supervision
    <2>3. sup' \in Supervision
      BY <1>8, <2>2 DEF Supervision
    <2>4. proc' \in Specs \cup {None} /\ sup' \in Supervision /\ rec' \in Supervision
      BY <1>8, <2>1, <2>2, <2>3
    <2>5. faults' \in 0 .. MaxFaults
      BY <1>1, <1>8, FaultTyped
    <2> QED BY <1>0, <1>2, <1>8, <2>4, <2>5, ReturnedAsIs DEF ReturnTainted
  <1>9. faults \in 0 .. MaxFaults /\ (Fault => faults' \in 0 .. MaxFaults)
    BY <1>1, FaultTyped DEF TypeOK
  <1> QED BY <1>4, <1>5, <1>6, <1>7, <1>8, <1>9 DEF StartLocal

\* RestartLastGood, both attempts.
LEMMA RestartFacts ==
  ASSUME Inv, job.kind = "restart"
  PROVE  /\ TypeOK /\ job.snap \in States /\ SpecOf(job.snap) \in Specs
         /\ disk.state = job.snap /\ Consistent /\ job.dirty = FALSE /\ job.snap.running
         /\ ~tainted => Serves(job.snap)
  <1>1. /\ TypeOK /\ job.snap \in States /\ disk.state = job.snap /\ Consistent
        /\ job.phase \in {"restart", "restore"} /\ job.dirty = FALSE /\ job.snap.running
    BY DEF Inv, JobShape, PhasesOf, TypeOK, Jobs, OtherFiles
  <1> QED BY <1>1, StateTyped DEF Inv, ProcessOfJob, Untouched, AsApplied

LEMMA RestartProcessInv ==
  ASSUME Inv, RestartProcess
  PROVE  Inv'
  <1>1. /\ TypeOK /\ JobShape /\ Recoverable
        /\ RecoverFiles /\ PrepareFiles /\ ApplyFiles /\ RollbackFiles /\ OtherFiles
        /\ ProcessOfJob /\ UpConsistent
    BY DEF Inv
  <1>0. amiss' \subseteq Amiss /\ (Late' <=> Late) /\ (Revived' <=> Revived)
    BY <1>1, AmissKept DEF RestartProcess
  <1>2. job.phase = "restart" /\ job.kind = "restart" /\ UNCHANGED <<disk, build, tainted>>
    BY <1>1 DEF RestartProcess, JobShape, PhasesOf, TypeOK, Jobs
  <1>3. /\ job.snap \in States /\ SpecOf(job.snap) \in Specs
        /\ disk.state = job.snap /\ Consistent /\ job.dirty = FALSE /\ job.snap.running
        /\ ~tainted => Serves(job.snap)
    BY <1>2, RestartFacts
  <1>4. proc' \in Specs \cup {None} /\ sup' \in Supervision /\ rec' \in Supervision
    BY <1>1, <1>3, ProcessTyped DEF RestartProcess, LaunchFails
  <1>5. CASE Launched(SpecOf(job.snap)) /\ Return /\ UNCHANGED faults
    <2>1. AsApplied'
      BY <1>1, <1>2, <1>3, <1>5, StateTyped, ProcessServes DEF AsApplied, Serves
    <2> QED BY <1>0, <1>1, <1>2, <1>3, <1>4, <1>5, <2>1, ReturnedAsIs DEF TypeOK
  <1>6. CASE Fault /\ LaunchFails(SpecOf(job.snap)) /\ Enter("restore")
    <2>1. /\ job' \in Jobs /\ job'.phase = "restore" /\ job'.at = 1
          /\ job'.kind = job.kind /\ job'.d = job.d /\ job'.snap = job.snap
          /\ job'.dirty = job.dirty
          /\ sched' = sched /\ agent' = agent
      BY <1>1, <1>6, EnterJob DEF Phases
    <2>2. faults' \in 0 .. MaxFaults
      BY <1>1, <1>6, FaultTyped
    <2>3. TypeOK'
      BY <1>0, <1>1, <1>2, <1>4, <2>1, <2>2 DEF TypeOK
    <2>4. JobShape'
      BY <1>1, <1>2, <1>3, <2>1 DEF JobShape, PhasesOf, Writes
    <2>5. Consistent' = Consistent /\ Recoverable'
      BY <1>0, <1>1, <1>2 DEF Consistent, Committed, LastGoodValid, Recoverable
    <2>6. RecoverFiles' /\ PrepareFiles' /\ ApplyFiles' /\ RollbackFiles' /\ OtherFiles'
      BY <1>1, <1>2, <1>3, <2>1, <2>5
         DEF RecoverFiles, PrepareFiles, ApplyFiles, RollbackFiles, OtherFiles
    <2>7. ~tainted => Serves(job.snap)'
      <3>1. CASE Launched(SpecOf(job.snap))
        BY <1>1, <1>3, <2>1, <3>1, ProcessServes DEF Serves
      <3>2. CASE NotStopped \/ NotStarted
        BY <1>1, <1>3, <2>1, <3>2, ProcessServes DEF Serves
      <3> QED BY <1>6, <3>1, <3>2 DEF LaunchFails
    <2>8. ProcessOfJob' /\ UpConsistent'
      BY <1>1, <1>2, <1>3, <2>1, <2>7, StateTyped DEF ProcessOfJob, AsApplied, Serves, UpConsistent, JobShape
    <2> QED BY <2>3, <2>4, <2>5, <2>6, <2>8 DEF Inv
  <1> QED BY <1>5, <1>6 DEF RestartProcess

LEMMA RestoreProcessInv ==
  ASSUME Inv, RestoreProcess
  PROVE  Inv'
  <1>1. /\ TypeOK /\ JobShape /\ Recoverable
        /\ RecoverFiles /\ PrepareFiles /\ ApplyFiles /\ RollbackFiles /\ OtherFiles
        /\ ProcessOfJob /\ UpConsistent
    BY DEF Inv
  <1>0. amiss' \subseteq Amiss /\ (Late' <=> Late) /\ (Revived' <=> Revived)
    BY <1>1, AmissKept DEF RestoreProcess
  <1>2. job.phase = "restore" /\ job.kind = "restart" /\ UNCHANGED <<disk, build>>
    BY <1>1 DEF RestoreProcess, JobShape, PhasesOf, TypeOK, Jobs
  <1>3. /\ job.snap \in States /\ SpecOf(job.snap) \in Specs
        /\ disk.state = job.snap /\ Consistent /\ tainted \in BOOLEAN /\ job.snap.running
        /\ ~tainted => Serves(job.snap)
    BY <1>1, <1>2, RestartFacts DEF TypeOK
  <1>4. faults' \in 0 .. MaxFaults
    BY <1>1, FaultTyped DEF RestoreProcess, TypeOK
  <1>5. proc' \in Specs \cup {None} /\ sup' \in Supervision /\ rec' \in Supervision
    <2>1. CASE UNCHANGED <<proc, sup, rec>>
      BY <1>1, <2>1 DEF TypeOK
    <2>2. CASE LaunchFails(SpecOf(job.snap))
      BY <1>1, <1>3, <2>2, ProcessTyped
    <2> QED BY <2>1, <2>2 DEF RestoreProcess, LaunchFails
  <1>6. CASE ReturnTainted
    BY <1>0, <1>2, <1>4, <1>5, <1>6, ReturnedAsIs DEF ReturnTainted
  <1>7. CASE Return /\ tainted' = tainted /\ UNCHANGED <<proc, sup, rec>>
    <2>1. ~tainted' => AsApplied'
      BY <1>0, <1>2, <1>3, <1>7, StateTyped DEF AsApplied, Serves
    <2> QED BY <1>0, <1>2, <1>3, <1>4, <1>5, <1>7, <2>1, ReturnedAsIs
  <1>8. CASE Return /\ tainted' = tainted /\ Launched(SpecOf(job.snap))
    <2>1. AsApplied'
      BY <1>1, <1>2, <1>3, <1>8, StateTyped, ProcessServes DEF AsApplied, Serves
    <2> QED BY <1>0, <1>2, <1>3, <1>4, <1>5, <1>8, <2>1, ReturnedAsIs
  <1> QED BY <1>6, <1>7, <1>8 DEF RestoreProcess

-----------------------------------------------------------------------------
(* Around the jobs. *)

LEMMA ScheduleInv ==
  ASSUME Inv, NEW d \in Desired, Schedule(d)
  PROVE  Inv'
  <1>1. sched' \in Queues
    BY DEF Schedule, Inv, TypeOK, Queues
  <1>2. TypeOK'
    BY <1>1 DEF Schedule, Inv, TypeOK
  <1>3. ProcessOfJob'
    BY AmissKept DEF Schedule, Inv, ProcessOfJob, Quiet, Serves, AsApplied, Untouched, NewState
  <1> QED BY <1>2, <1>3, JobKept DEF Schedule

LEMMA ProcessDiesInv ==
  ASSUME Inv, ProcessDies
  PROVE  Inv'
  <1>1. faults' \in 0 .. MaxFaults
    BY FaultTyped DEF ProcessDies, Inv
  <1>2. TypeOK'
    BY <1>1 DEF ProcessDies, Inv, TypeOK
  <1>3. ProcessOfJob'
    BY AmissKept DEF ProcessDies, Inv, ProcessOfJob, Quiet, Serves, AsApplied, Untouched, NewState
  <1> QED BY <1>2, <1>3, JobKept DEF ProcessDies

\* restartAfterUnexpectedExit: what is wanted serves the same state.
LEMMA WatchdogInv ==
  ASSUME Inv, Watchdog
  PROVE  Inv'
  <1>1. TypeOK'
    BY DEF Watchdog, Inv, TypeOK, Supervision
  <1>2. ProcessOfJob'
    BY AmissKept DEF Watchdog, Inv, ProcessOfJob, Quiet, Serves, AsApplied, Untouched, NewState
  <1> QED BY <1>1, <1>2, JobKept DEF Watchdog

\* A job begins.
LEMMA BeginJob ==
  ASSUME Inv, job = Idle, UNCHANGED <<disk, proc, sup, rec, sched, build, tainted, amiss, faults>>,
         NEW k \in {"apply", "boot", "restart"}, NEW d \in Desired \cup {None},
         NEW t \in States \cup {None}, NEW p \in Phases,
         p = IF k = "restart" THEN "restart" ELSE "begin",
         job' = [kind |-> k, phase |-> p, at |-> 1, d |-> d, snap |-> t, dirty |-> FALSE],
         k = "apply" => d # None /\ agent = "up" /\ agent' = "up",
         k = "boot" => agent = "down" /\ agent' = "boot",
         k = "restart" => t # None /\ t = disk.state /\ t.running /\ Consistent /\ agent = "up" /\ agent' = "up"
  PROVE  Inv'
  <1>1. /\ TypeOK /\ Recoverable /\ OtherFiles /\ ProcessOfJob
        /\ job.phase = "idle" /\ job.kind = "none"
    BY IdleJob DEF Inv
  <1>0. amiss' \subseteq Amiss /\ (Late' <=> Late) /\ (Revived' <=> Revived)
    BY <1>1, AmissKept
  <1>2. job' \in Jobs
    BY DEF Jobs
  <1>3. /\ job'.kind = k /\ job'.phase = p /\ job'.at = 1 /\ job'.d = d /\ job'.snap = t
        /\ job'.dirty = FALSE
    OBVIOUS
  <1>4. TypeOK'
    BY <1>0, <1>1, <1>2 DEF TypeOK
  <1>5. JobShape'
    BY <1>3 DEF JobShape, PhasesOf, Writes
  <1>6. Consistent' = Consistent /\ Recoverable'
    BY <1>0, <1>1 DEF Consistent, Committed, LastGoodValid, Recoverable
  <1>7. RecoverFiles' /\ PrepareFiles' /\ ApplyFiles' /\ RollbackFiles' /\ OtherFiles'
    BY <1>1, <1>3, <1>6 DEF RecoverFiles, PrepareFiles, ApplyFiles, RollbackFiles, OtherFiles
  <1>8. ProcessOfJob' /\ UpConsistent'
    BY <1>0, <1>1, <1>3 DEF ProcessOfJob, Quiet, Serves, AsApplied, Untouched, UpConsistent
  <1> QED BY <1>4, <1>5, <1>6, <1>7, <1>8 DEF Inv

LEMMA BeginApplyInv ==
  ASSUME Inv, BeginApply
  PROVE  Inv'
  <1>1. sched.current \in Desired \cup {None} /\ sched.current # None
    BY DEF BeginApply, Inv, TypeOK, Queues
  <1>2. job' = [kind |-> "apply", phase |-> "begin", at |-> 1, d |-> sched.current, snap |-> None,
                dirty |-> FALSE]
    BY DEF BeginApply, Idle
  <1>3. "begin" \in Phases
    BY DEF Phases
  <1> QED BY <1>1, <1>2, <1>3, BeginJob DEF BeginApply

LEMMA BootInv ==
  ASSUME Inv, Boot
  PROVE  Inv'
  <1>1. job = Idle
    BY DEF Boot, Inv, JobShape
  <1>2. job' = [kind |-> "boot", phase |-> "begin", at |-> 1, d |-> None, snap |-> None,
                dirty |-> FALSE]
    BY DEF Boot, Idle
  <1>3. "begin" \in Phases
    BY DEF Phases
  <1> QED BY <1>1, <1>2, <1>3, BeginJob DEF Boot

LEMMA BeginRestartInv ==
  ASSUME Inv, BeginRestart
  PROVE  Inv'
  <1>1. disk.state \in States \cup {None}
    BY DEF Inv, TypeOK, Disks
  <1>2. job' = [kind |-> "restart", phase |-> "restart", at |-> 1, d |-> None,
                snap |-> disk.state, dirty |-> FALSE]
    BY DEF BeginRestart, Idle
  <1>3. "restart" \in Phases
    BY DEF Phases
  <1> QED BY <1>1, <1>2, <1>3, BeginJob DEF BeginRestart

\* The Agent dies: the files stay as they are.
LEMMA CrashInv ==
  ASSUME Inv, Crash
  PROVE  Inv'
  <1>1. faults' \in 0 .. MaxFaults
    BY FaultTyped DEF Crash, Inv
  <1>0. amiss' \subseteq Amiss /\ (Late' <=> Late)
    BY DEF Crash, Inv, TypeOK, Late
  <1>2. NoSup \in Supervision /\ NoSup.want = FALSE /\ NoSched \in Queues
    BY DEF NoSup, Supervision, NoSched, Queues
  <1>3. TypeOK'
    BY <1>0, <1>1, <1>2, IdleJob DEF Crash, Inv, TypeOK
  <1>4. /\ job'.kind = "none" /\ job'.phase = "idle" /\ job'.at = 1
        /\ job'.d = None /\ job'.snap = None /\ job'.dirty = FALSE
    BY IdleJob DEF Crash
  <1>5. JobShape'
    BY <1>4 DEF JobShape, PhasesOf, Writes, Crash
  <1>6. Recoverable' /\ UpConsistent'
    BY <1>0 DEF Crash, Inv, Consistent, Committed, LastGoodValid, Recoverable, UpConsistent
  <1>7. RecoverFiles' /\ PrepareFiles' /\ ApplyFiles' /\ RollbackFiles' /\ OtherFiles'
    BY <1>4 DEF Crash, Inv, RecoverFiles, PrepareFiles, ApplyFiles, RollbackFiles, OtherFiles
  <1>8. ProcessOfJob'
    BY <1>2, <1>4 DEF Crash, ProcessOfJob, Quiet, Serves, AsApplied
  <1> QED BY <1>3, <1>5, <1>6, <1>7, <1>8 DEF Inv

-----------------------------------------------------------------------------
(* The theorems.                                                           *)

LEMMA InitInv == Init => Inv
  <1> SUFFICES ASSUME Init PROVE Inv
    OBVIOUS
  <1>1. /\ job.kind = "none" /\ job.phase = "idle" /\ job.at = 1
        /\ job.d = None /\ job.snap = None /\ job.dirty = FALSE /\ job = Idle
    BY IdleJob DEF Init
  <1>2. /\ NoSup \in Supervision /\ NoSup.want = FALSE /\ NoSched \in Queues
        /\ 1 \in Builds /\ MaxFaults \in 0 .. MaxFaults
    BY RuntimeAssumption DEF NoSup, Supervision, NoSched, Queues, Builds
  <1>3. disk \in Disks /\ disk.state = None /\ disk.marker = None
    BY DEF Init, Disks
  <1>4. TypeOK
    BY <1>2, <1>3, IdleJob DEF Init, TypeOK
  <1>5. JobShape
    BY <1>1 DEF Init, JobShape, PhasesOf, Writes
  <1>6. Recoverable /\ UpConsistent
    BY <1>3 DEF Recoverable, UpConsistent, Consistent
  <1>7. RecoverFiles /\ PrepareFiles /\ ApplyFiles /\ RollbackFiles /\ OtherFiles
    BY <1>1, <1>3 DEF RecoverFiles, PrepareFiles, ApplyFiles, RollbackFiles, OtherFiles
  <1>8. ProcessOfJob
    BY <1>1, <1>2, <1>3 DEF Init, ProcessOfJob, Quiet, AsApplied
  <1> QED BY <1>4, <1>5, <1>6, <1>7, <1>8 DEF Inv

LEMMA NextInv == Inv /\ [Next]_vars => Inv'
  <1> SUFFICES ASSUME Inv, [Next]_vars PROVE Inv'
    OBVIOUS
  <1>1. CASE JobStep
    BY <1>1, BeginRecoveryInv, WriteFileInv, ChangeProcessInv, CheckApplyInv, StartLocalInv,
       RestartProcessInv, RestoreProcessInv DEF JobStep
  <1>2. CASE BeginApply \/ Boot \/ BeginRestart \/ Crash \/ ProcessDies \/ Watchdog
    BY <1>2, BeginApplyInv, BootInv, BeginRestartInv, CrashInv, ProcessDiesInv, WatchdogInv
  <1>3. CASE \E d \in Desired : Schedule(d)
    BY <1>3, ScheduleInv
  <1>4. CASE UNCHANGED vars
    <2>1. TypeOK'
      BY <1>4 DEF vars, Inv, TypeOK
    <2>2. ProcessOfJob'
      BY <1>4, AmissKept DEF vars, Inv, ProcessOfJob, Quiet, Serves, AsApplied, Untouched, NewState
    <2> QED BY <1>4, <2>1, <2>2, JobKept DEF vars
  <1> QED BY <1>1, <1>2, <1>3, <1>4 DEF Next

\* The files a job has written so far, the marker and last-good fit together,
\* and the process serves the state the job has reached.
THEOREM RuntimeInvariance ==
  Spec => []Inv
  <1>1. Inv /\ [Next]_vars => Inv'
    BY NextInv
  <1> QED BY <1>1, InitInv, PTL DEF Spec

\* Wherever the Agent dies, RecoverLocal finds files of the committed state, or
\* a marker and a last-good that lead back to it, whether failed writes took
\* effect or not; what a marker stands for is in last-good even while a
\* state.json that was reported as not written is being taken back.
THEOREM CrashRecovers ==
  Spec => []CrashSafe
  <1>1. Inv => CrashSafe
    BY DEF Inv, CrashSafe, Recoverable, Late
  <1> QED BY <1>1, RuntimeInvariance, PTL

\* Between jobs the files belong together and the process was launched from
\* them and is wanted, unless ROLLBACK_FAILED was reported, a rollback started
\* Xray for a stopped state, or the undoing of a state.json was cut short.
THEOREM AppliedAsWhole ==
  Spec => []NothingHalfApplied
  <1>1. Inv => NothingHalfApplied
    <2> SUFFICES ASSUME Inv, agent = "up", job = Idle, ~tainted
                 PROVE  /\ Consistent \/ Late
                        /\ proc # None => /\ disk.state # None /\ proc = SpecOf(disk.state)
                                          /\ disk.state.running \/ Revived
      BY DEF NothingHalfApplied, Late, Revived
    <2>1. job.kind = "none" /\ job.phase = "idle"
      BY IdleJob
    <2>2. AsApplied /\ (Consistent \/ Late)
      BY <2>1 DEF Inv, ProcessOfJob, Untouched, UpConsistent
    <2> QED BY <2>2 DEF AsApplied, Quiet, Serves
  <1> QED BY <1>1, RuntimeInvariance, PTL

\* A rollback, a recovery or a late desired state never lowers the applied
\* generation; only a state.json that was reported as not written is taken
\* back, to the state before its switch.
THEOREM GenerationsAdvance ==
  Spec => AppliedNeverRegresses
  <1>1. Inv /\ [Next]_vars =>
          [disk.state # None =>
             IF "late" \in amiss
             THEN disk'.state \in {disk.state, job.snap}
             ELSE disk'.state # None /\ disk'.state.gen >= disk.state.gen]_vars
    <2> SUFFICES ASSUME Inv, Next, disk.state # None
                 PROVE  IF Late THEN disk'.state \in {disk.state, job.snap}
                        ELSE disk'.state # None /\ disk'.state.gen >= disk.state.gen
      BY DEF Late
    <2>1. disk.state \in States /\ disk.state.gen \in Nat /\ disk \in Disks
      BY StateTyped DEF Inv, TypeOK, Disks
    <2>2. CASE disk' = disk
      BY <2>1, <2>2
    <2>3. CASE disk' = Written(At) /\ WriteFile
      <3>1. /\ job.phase \in {"recover", "finish", "prepare", "apply", "rollback", "cleanup"}
            /\ disk'.state = IF At = "state" THEN Value("state") ELSE disk.state
        BY <2>1, <2>3, OneFile DEF WriteFile
      <3>2. CASE At # "state"
        BY <2>1, <3>1, <3>2
      <3>3. CASE At = "state"
        <4>1. job.phase \in {"recover", "apply", "rollback", "cleanup"}
          <5>1. job.at \in 1 .. 6 /\ job.at <= Writes(job.phase)
            BY JobTypes DEF Inv
          <5>2. job.phase = "finish" => At = "marker"
            BY <5>1, FinishOrder DEF Writes
          <5>3. job.phase = "prepare" => At \in {"lgConfig", "lgHash", "marker"}
            BY <5>1, PrepareOrder DEF Writes
          <5> QED BY <3>1, <3>3, <5>1, <5>2, <5>3
        <4>2. CASE job.phase = "recover"
          <5>1. disk'.state = disk.state
            BY <3>1, <3>3, <4>2 DEF Value, Target, Inv, RecoverFiles
          <5> QED BY <2>1, <5>1
        <4>3. CASE job.phase = "rollback"
          <5>1. disk'.state = job.snap /\ (~Late => disk.state = job.snap)
            BY <3>1, <3>3, <4>3 DEF Value, Target, Inv, RollbackFiles
          <5> QED BY <2>1, <5>1
        <4>4. CASE job.phase = "apply"
          <5>1. job.kind = "apply" /\ job.at \in 1 .. 6 /\ build \in Builds
            BY <4>4 DEF Inv, JobShape, PhasesOf, TypeOK, Jobs
          <5>2. job.d \in Desired
            BY <5>1, JobTypes DEF Inv
          <5>3. job.at = 5
            BY <3>3, <4>4, <5>1, ApplyOrder
          <5>4. disk.state.gen <= job.d.gen
            BY <2>1, <4>4, <5>3 DEF Inv, ApplyFiles
          <5>5. disk'.state = NewState(job.d)
            BY <3>1, <3>3, <4>4 DEF Value, Target
          <5>6. ~Late
            BY <4>4 DEF Inv, ApplyFiles
          <5> QED BY <2>1, <5>1, <5>2, <5>4, <5>5, <5>6, NewStateTyped
        <4>5. CASE job.phase = "cleanup"
          <5>1. disk'.state = job.snap /\ Late
            BY <3>1, <3>3, <4>5 DEF Value, Inv, OtherFiles
          <5> QED BY <5>1
        <4> QED BY <4>1, <4>2, <4>3, <4>4, <4>5
      <3> QED BY <3>2, <3>3
    <2>4. disk' = disk \/ (disk' = Written(At) /\ WriteFile)
      BY DEF Next, JobStep, Schedule, BeginApply, BeginRecovery, WriteFile, ChangeProcess, CheckApply,
         StartLocal, RestartProcess, RestoreProcess, Boot, BeginRestart, Crash, ProcessDies, Watchdog
    <2> QED BY <2>2, <2>3, <2>4
  <1> QED BY <1>1, RuntimeInvariance, PTL DEF Spec, AppliedNeverRegresses

==============================================================================
