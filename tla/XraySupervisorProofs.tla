------------------------ MODULE XraySupervisorProofs ------------------------
(***************************************************************************)
(* Theorems about XraySupervisor, for any number of launches, calls,       *)
(* failures, exits, crashes and restart attempts.                          *)
(*                                                                         *)
(* transitionMu is free between two parts of a watchdog's life, so what it *)
(* knew may be stale when it takes the mutex.  The epoch is what tells:    *)
(* OnePerEpoch says that a process and the goroutine that stands in for it *)
(* are alone in the current epoch, and WatchdogCurrent that whoever        *)
(* launches still belongs to it.  Processes are accounted for by the three *)
(* places a live one may be in: tracked, just launched (LaunchedIsNew), or *)
(* left over by an earlier Agent (BootClean).                              *)
(***************************************************************************)
EXTENDS XraySupervisor, TLAPS

\* The places of a process's goroutine, and those of the calling one.
WatcherPlaces == {"none", "wait", "closed", "loop", "delay", "ended", "start", "launch", "track"}
CallerPlaces == {"idle", "call"} \cup InTransition

\* The goroutine has a process that was tracked in some epoch, or stands in
\* for it as its watchdog.
Engaged(p) == pc[p] \in {"wait", "closed", "loop", "delay", "start", "launch", "track"}

\* Nobody shares transitionMu.
OneTransition ==
    /\ \A t, u \in Threads : pc[t] \in InTransition /\ pc[u] \in InTransition => t = u
    /\ pc[Caller] \in CallerPlaces
    /\ \A p \in Pids : pc[p] \in WatcherPlaces

\* A goroutine waits for the tracked process, and for no other.
WatchedIsTracked ==
    /\ \A p \in Pids : pc[p] \in {"wait", "closed"} <=> sup.current = p
    /\ \A p \in Pids : proc[p].st = "unused" => pc[p] = "none" /\ p \notin survivors

\* Between the check and the tracking nothing happens to epoch and current:
\* what MayTrack looks at again only the process itself can spoil.
LaunchGuarded ==
    \A t \in Threads : pc[t] \in {"launch", "track"} =>
        /\ sup.current = NoProc
        /\ hold.epoch = sup.epoch

LaunchedIsNew ==
    \A t \in Threads : pc[t] = "track" =>
        /\ hold.pid \in Pids
        /\ proc[hold.pid].st # "unused"
        /\ pc[hold.pid] = "none"

\* Every epoch has one process or one watchdog at a time.
OnePerEpoch ==
    /\ \A p \in Pids : born[p] <= sup.epoch
    /\ \A p, q \in Pids :
         Engaged(p) /\ Engaged(q) /\ born[p] = sup.epoch /\ born[q] = sup.epoch => p = q
    /\ pc[Caller] \in {"launch", "track"} => \A p \in Pids : born[p] # sup.epoch

\* A watchdog that holds transitionMu still belongs to the current epoch, and
\* Xray is wanted: a Stop has to wait for the mutex.
WatchdogCurrent ==
    \A p \in Pids : pc[p] \in {"start", "launch", "track"} => sup.want /\ sup.epoch = born[p]

\* Before Recover has run, an Agent knows of no process.
Pristine ==
    /\ sup.current = NoProc
    /\ \A p \in Pids : pc[p] = "none" /\ (Alive(p) => p \in survivors)

BootClean ==
    /\ ~up => pc[Caller] = "idle"
    /\ ~up \/ (pc[Caller] = "call" /\ op = "recover") => Pristine

Inv ==
    /\ TypeOK /\ OneTransition /\ WatchedIsTracked /\ LaunchGuarded /\ LaunchedIsNew
    /\ OnePerEpoch /\ WatchdogCurrent /\ BootClean /\ NoProcessForgotten

-----------------------------------------------------------------------------
(* Identifiers. *)

\* Goroutines are the caller's and those of the processes.
LEMMA Ids ==
    /\ Caller \in Threads /\ NoProc = Caller /\ Caller \notin Pids
    /\ \A t \in Threads : t = Caller \/ t \in Pids
    /\ \A p \in Pids : p \in Threads
    /\ \A p \in Pids : p # Caller
  BY SupervisorAssumption DEF Caller, NoProc, Threads, Pids

\* The components of TypeOK that are records.
SupTypes == [current: Threads, spec: Specs \cup {NoSpec}, want: BOOLEAN,
             status: Statuses, attempts: 0 .. MaxRestarts, epoch: Nat]
RecordTypes == [want: BOOLEAN, spec: Specs \cup {NoSpec}, pid: Threads]
ProcTypes == [Pids -> [st: {"unused", "alive", "dead"}, spec: Specs \cup {NoSpec}]]
LeftTypes == [calls: Nat, faults: Nat, deaths: Nat, crashes: Nat]

\* persistLocked keeps the types of what it writes and of the bounds.
LEMMA SaveTypes ==
  ASSUME TypeOK, sup' \in SupTypes, TrySave(sup')
  PROVE  record' \in RecordTypes /\ left' \in LeftTypes
  <1>1. left' \in LeftTypes
    BY DEF TypeOK, TrySave, Save, SaveFails, Fault, LeftTypes
  <1>2. record' \in RecordTypes
    BY DEF TypeOK, TrySave, Save, SaveFails, RecordOf, SupTypes, RecordTypes
  <1> QED BY <1>1, <1>2

\* So does the end of a transition.
LEMMA ReturnTypes ==
  ASSUME TypeOK, NEW t \in Threads, NEW ok \in BOOLEAN, Return(t, ok)
  PROVE  pc' \in [Threads -> Places] /\ outcome' \in {"ok", "error"}
  BY DEF TypeOK, Return, Places

-----------------------------------------------------------------------------
(* One lemma per action. *)

\* The files of another spec.
LEMMA InstallInv ==
  ASSUME Inv, NEW s \in Specs, Install(s)
  PROVE  Inv'
  <1>1. TypeOK'
    BY Ids, SupervisorAssumption
       DEF Inv, Install, TypeOK, Statuses, Places, InTransition
  <1>2. OneTransition'
    BY Ids
       DEF Inv, Install, OneTransition, InTransition, CallerPlaces,
           WatcherPlaces
  <1>3. WatchedIsTracked'
    BY Ids DEF Inv, Install, WatchedIsTracked
  <1>4. LaunchGuarded'
    BY Ids DEF Inv, Install, LaunchGuarded
  <1>5. LaunchedIsNew'
    BY Ids DEF Inv, Install, LaunchedIsNew
  <1>6. OnePerEpoch'
    BY Ids DEF Inv, Install, OnePerEpoch, Engaged
  <1>7. WatchdogCurrent'
    BY Ids DEF Inv, Install, WatchdogCurrent
  <1>8. BootClean'
    BY Ids DEF Inv, Install, BootClean, Pristine, Alive
  <1>9. NoProcessForgotten'
    BY <1>1, Ids DEF Inv, Install, NoProcessForgotten, Launching, Alive, TypeOK
  <1> QED BY <1>1, <1>2, <1>3, <1>4, <1>5, <1>6, <1>7, <1>8, <1>9 DEF Inv

\* A call comes.
LEMMA CallInv ==
  ASSUME Inv, NEW o \in {"start", "stop", "restart"}, Call(o)
  PROVE  Inv'
  <1>1. TypeOK'
    BY Ids, SupervisorAssumption
       DEF Inv, Call, TypeOK, Statuses, Places, InTransition
  <1>2. OneTransition'
    BY Ids
       DEF Inv, Call, OneTransition, InTransition, CallerPlaces, WatcherPlaces
  <1>3. WatchedIsTracked'
    BY Ids DEF Inv, Call, WatchedIsTracked
  <1>4. LaunchGuarded'
    BY Ids DEF Inv, Call, LaunchGuarded
  <1>5. LaunchedIsNew'
    BY Ids DEF Inv, Call, LaunchedIsNew
  <1>6. OnePerEpoch'
    BY Ids DEF Inv, Call, OnePerEpoch, Engaged
  <1>7. WatchdogCurrent'
    BY Ids DEF Inv, Call, WatchdogCurrent
  <1>8. BootClean'
    BY Ids DEF Inv, Call, BootClean, Pristine, Alive
  <1>9. NoProcessForgotten'
    BY <1>1, Ids DEF Inv, Call, NoProcessForgotten, Launching, Alive, TypeOK
  <1> QED BY <1>1, <1>2, <1>3, <1>4, <1>5, <1>6, <1>7, <1>8, <1>9 DEF Inv

\* Start.
LEMMA StartCallInv ==
  ASSUME Inv, StartCall
  PROVE  Inv'
  <1>1. TypeOK'
    BY Ids, SupervisorAssumption
       DEF Inv, StartCall, Goto, LockFree, TypeOK, Statuses, Places,
           InTransition
  <1>2. OneTransition'
    BY Ids
       DEF Inv, StartCall, Goto, LockFree, OneTransition, InTransition,
           CallerPlaces, WatcherPlaces
  <1>3. WatchedIsTracked'
    BY Ids DEF Inv, StartCall, Goto, LockFree, WatchedIsTracked
  <1>4. LaunchGuarded'
    BY Ids DEF Inv, StartCall, Goto, LockFree, LaunchGuarded
  <1>5. LaunchedIsNew'
    BY Ids DEF Inv, StartCall, Goto, LockFree, LaunchedIsNew
  <1>6. OnePerEpoch'
    BY Ids DEF Inv, StartCall, Goto, LockFree, OnePerEpoch, Engaged
  <1>7. WatchdogCurrent'
    BY Ids DEF Inv, StartCall, Goto, LockFree, WatchdogCurrent
  <1>8. BootClean'
    BY Ids DEF Inv, StartCall, Goto, LockFree, BootClean, Pristine, Alive
  <1>9. NoProcessForgotten'
    BY <1>1, Ids
       DEF Inv, StartCall, Goto, LockFree, NoProcessForgotten, Launching,
           Alive, TypeOK
  <1> QED BY <1>1, <1>2, <1>3, <1>4, <1>5, <1>6, <1>7, <1>8, <1>9 DEF Inv

\* startLocked: the process that is tracked is left alone, or an attempt begins.
LEMMA StartCheckInv ==
  ASSUME Inv, NEW t \in Threads, StartCheck(t)
  PROVE  Inv'
  <1> USE Ids
  <1>1. /\ pc[t] = "start"
        /\ UNCHANGED <<proc, born, arg, op, record, onDisk, up, survivors, left>>
    BY DEF StartCheck
  <1>2. sup \in SupTypes
    BY DEF Inv, TypeOK, SupTypes
  <1>3. CASE sup.current # NoProc \/ arg[t] # onDisk
    <2>1. /\ sup' \in SupTypes
          /\ sup'.current = sup.current /\ sup'.want = sup.want /\ sup'.epoch = sup.epoch
      <3>1. sup' = sup \/ sup' = [sup EXCEPT !.status = "ERROR"]
        BY <1>3 DEF StartCheck
      <3> QED BY <3>1, <1>2 DEF SupTypes, Statuses
    <2>2. UNCHANGED hold
      BY <1>3 DEF StartCheck
    <2>3. PICK ok \in BOOLEAN : Return(t, ok)
      BY <1>3 DEF StartCheck
    <2>4. PICK place \in {"idle", "ended", "loop"} :
            pc' = [pc EXCEPT ![t] = place] /\ (place = "idle" <=> t = Caller)
      BY <2>3 DEF Return
    <2>5. TypeOK'
      BY <1>1, <2>1, <2>2, <2>3, ReturnTypes DEF Inv, TypeOK, SupTypes
    <2>6. OneTransition'
      BY <1>1, <2>4 DEF Inv, TypeOK, OneTransition, InTransition, CallerPlaces, WatcherPlaces
    <2>7. WatchedIsTracked'
      BY <1>1, <2>1, <2>4 DEF Inv, TypeOK, WatchedIsTracked
    <2>8. LaunchGuarded' /\ LaunchedIsNew'
      BY <1>1, <2>1, <2>2, <2>4 DEF Inv, TypeOK, LaunchGuarded, LaunchedIsNew
    <2>9. OnePerEpoch'
      BY <1>1, <2>1, <2>4 DEF Inv, TypeOK, OnePerEpoch, Engaged
    <2>10. WatchdogCurrent' /\ BootClean'
      BY <1>1, <2>1, <2>4 DEF Inv, TypeOK, WatchdogCurrent, BootClean, Pristine, Alive
    <2>11. NoProcessForgotten'
      BY <1>1, <2>1, <2>2, <2>4, <2>5 DEF Inv, TypeOK, NoProcessForgotten, Launching, Alive
    <2> QED BY <2>5, <2>6, <2>7, <2>8, <2>9, <2>10, <2>11 DEF Inv
  <1>4. CASE sup.current = NoProc /\ arg[t] = onDisk
    <2>1. sup' = Enter(t) /\ hold' = [pid |-> NoProc, epoch |-> sup'.epoch] /\ Goto(t, "launch")
      BY <1>4 DEF StartCheck
    <2>2. /\ sup' \in SupTypes
          /\ sup'.current = NoProc /\ sup'.want = sup.want
          /\ IF t = Caller THEN sup'.epoch = sup.epoch + 1 ELSE sup'.epoch = sup.epoch
      <3>1. PICK e \in Nat, a \in 0 .. MaxRestarts :
              /\ sup' = [sup EXCEPT !.epoch = e, !.attempts = a]
              /\ IF t = Caller THEN e = sup.epoch + 1 ELSE e = sup.epoch
        <4>1. CASE t = Caller
          <5>1. sup' = [sup EXCEPT !.epoch = sup.epoch + 1, !.attempts = 0]
            BY <4>1, <2>1 DEF Enter
          <5>2. sup.epoch + 1 \in Nat /\ 0 \in 0 .. MaxRestarts
            BY <1>2, SupervisorAssumption DEF SupTypes
          <5> QED BY <4>1, <5>1, <5>2
        <4>2. CASE t # Caller
          <5>1. sup' = [sup EXCEPT !.epoch = sup.epoch, !.attempts = sup.attempts]
            BY <4>2, <2>1, <1>2 DEF Enter, SupTypes
          <5> QED BY <4>2, <5>1, <1>2 DEF SupTypes
        <4> QED BY <4>1, <4>2
      <3> QED BY <3>1, <1>2, <1>4 DEF SupTypes
    <2>3. hold' \in [pid: Threads, epoch: Nat] /\ hold'.epoch = sup'.epoch
      BY <2>1, <2>2 DEF SupTypes
    <2>4. pc' = [pc EXCEPT ![t] = "launch"] /\ outcome' = outcome
      BY <2>1 DEF Goto
    <2>5. TypeOK'
      BY <1>1, <2>2, <2>3, <2>4 DEF Inv, TypeOK, SupTypes, Places, InTransition
    <2>6. OneTransition'
      BY <1>1, <2>4 DEF Inv, TypeOK, OneTransition, InTransition, CallerPlaces, WatcherPlaces
    <2>7. WatchedIsTracked'
      BY <1>1, <1>4, <2>2, <2>4 DEF Inv, TypeOK, WatchedIsTracked
    <2>8. LaunchGuarded' /\ LaunchedIsNew'
      BY <1>1, <2>2, <2>3, <2>4 DEF Inv, TypeOK, LaunchGuarded, LaunchedIsNew, OneTransition, InTransition
    <2>9. OnePerEpoch'
      <3>1. CASE t = Caller
        BY <3>1, <1>1, <2>2, <2>4 DEF Inv, TypeOK, OnePerEpoch, Engaged
      <3>2. CASE t \in Pids
        BY <3>2, <1>1, <2>2, <2>4 DEF Inv, TypeOK, OnePerEpoch, Engaged
      <3> QED BY <3>1, <3>2
    <2>10. WatchdogCurrent'
      BY <1>1, <2>2, <2>4 DEF Inv, TypeOK, WatchdogCurrent, OneTransition, InTransition
    <2>11. BootClean'
      BY <1>1, <2>2, <2>4 DEF Inv, TypeOK, BootClean, Pristine, Alive
    <2>12. NoProcessForgotten'
      BY <1>1, <1>4, <2>2, <2>4, <2>5 DEF Inv, TypeOK, NoProcessForgotten, Launching, Alive,
                                         OneTransition, InTransition
    <2> QED BY <2>5, <2>6, <2>7, <2>8, <2>9, <2>10, <2>11, <2>12 DEF Inv
  <1> QED BY <1>3, <1>4

\* The launch fails.
LEMMA LaunchFailsInv ==
  ASSUME Inv, NEW t \in Threads, LaunchFails(t)
  PROVE  Inv'
  <1>1. TypeOK'
    BY Ids, SupervisorAssumption
       DEF Inv, LaunchFails, Fault, Return, TypeOK, Statuses, Places,
           InTransition
  <1>2. OneTransition'
    BY Ids
       DEF Inv, LaunchFails, Fault, Return, OneTransition, InTransition,
           CallerPlaces, WatcherPlaces
  <1>3. WatchedIsTracked'
    BY Ids DEF Inv, LaunchFails, Fault, Return, WatchedIsTracked
  <1>4. LaunchGuarded'
    BY Ids DEF Inv, LaunchFails, Fault, Return, LaunchGuarded
  <1>5. LaunchedIsNew'
    BY Ids DEF Inv, LaunchFails, Fault, Return, LaunchedIsNew
  <1>6. OnePerEpoch'
    BY Ids DEF Inv, LaunchFails, Fault, Return, OnePerEpoch, Engaged
  <1>7. WatchdogCurrent'
    BY Ids DEF Inv, LaunchFails, Fault, Return, WatchdogCurrent
  <1>8. BootClean'
    BY Ids DEF Inv, LaunchFails, Fault, Return, BootClean, Pristine, Alive
  <1>9. NoProcessForgotten'
    BY <1>1, Ids
       DEF Inv, LaunchFails, Fault, Return, NoProcessForgotten, Launching,
           Alive, TypeOK
  <1> QED BY <1>1, <1>2, <1>3, <1>4, <1>5, <1>6, <1>7, <1>8, <1>9 DEF Inv

\* A new process, not tracked yet.
LEMMA LaunchInv ==
  ASSUME Inv, NEW t \in Threads, Launch(t)
  PROVE  Inv'
  <1>1. TypeOK'
    BY Ids, SupervisorAssumption
       DEF Inv, Launch, Goto, TypeOK, Statuses, Places, InTransition
  <1>2. OneTransition'
    BY Ids
       DEF Inv, Launch, Goto, OneTransition, InTransition, CallerPlaces,
           WatcherPlaces
  <1>3. WatchedIsTracked'
    BY Ids DEF Inv, Launch, Goto, WatchedIsTracked
  <1>4. LaunchGuarded'
    BY Ids DEF Inv, Launch, Goto, LaunchGuarded
  <1>5. LaunchedIsNew'
    BY Ids
       DEF Inv, Launch, Goto, LaunchedIsNew, TypeOK, OneTransition,
           InTransition, CallerPlaces, WatcherPlaces, WatchedIsTracked
  <1>6. OnePerEpoch'
    BY Ids DEF Inv, Launch, Goto, OnePerEpoch, Engaged
  <1>7. WatchdogCurrent'
    BY Ids DEF Inv, Launch, Goto, WatchdogCurrent
  <1>8. BootClean'
    BY Ids DEF Inv, Launch, Goto, BootClean, Pristine, Alive
  <1>9. NoProcessForgotten'
    BY <1>1, Ids
       DEF Inv, Launch, Goto, NoProcessForgotten, Launching, Alive, TypeOK,
           OneTransition, InTransition, CallerPlaces, WatcherPlaces
  <1> QED BY <1>1, <1>2, <1>3, <1>4, <1>5, <1>6, <1>7, <1>8, <1>9 DEF Inv

\* The process is gone: kill what may be left.
LEMMA TrackRefusedInv ==
  ASSUME Inv, NEW t \in Threads, TrackRefused(t)
  PROVE  Inv'
  <1>1. TypeOK'
    <2>1. proc' \in ProcTypes
      <3>1. hold.pid \in Pids /\ proc' = [proc EXCEPT ![hold.pid].st = "dead"]
        BY DEF Inv, TrackRefused, LaunchedIsNew, Kill
      <3> QED BY <3>1 DEF Inv, TypeOK, ProcTypes
    <2>2. pc' \in [Threads -> Places] /\ outcome' \in {"ok", "error"}
      BY ReturnTypes DEF Inv, TrackRefused
    <2> QED BY <2>1, <2>2 DEF Inv, TypeOK, TrackRefused, ProcTypes
  <1>2. OneTransition'
    BY Ids
       DEF Inv, TrackRefused, Kill, Return, OneTransition, InTransition,
           CallerPlaces, WatcherPlaces
  <1>3. WatchedIsTracked'
    BY Ids DEF Inv, TrackRefused, Kill, Return, WatchedIsTracked
  <1>4. LaunchGuarded'
    BY Ids DEF Inv, TrackRefused, Kill, Return, LaunchGuarded
  <1>5. LaunchedIsNew'
    BY Ids DEF Inv, TrackRefused, Kill, Return, LaunchedIsNew
  <1>6. OnePerEpoch'
    BY Ids DEF Inv, TrackRefused, Kill, Return, OnePerEpoch, Engaged
  <1>7. WatchdogCurrent'
    BY Ids DEF Inv, TrackRefused, Kill, Return, WatchdogCurrent
  <1>8. BootClean'
    BY Ids DEF Inv, TrackRefused, Kill, Return, BootClean, Pristine, Alive
  <1>9. NoProcessForgotten'
    BY <1>1, Ids
       DEF Inv, TrackRefused, Kill, Return, NoProcessForgotten, Launching,
           Alive, TypeOK
  <1> QED BY <1>1, <1>2, <1>3, <1>4, <1>5, <1>6, <1>7, <1>8, <1>9 DEF Inv

\* The process could not be saved.
LEMMA TrackUnsavedInv ==
  ASSUME Inv, NEW t \in Threads, TrackUnsaved(t)
  PROVE  Inv'
  <1>1. TypeOK'
    <2>1. /\ arg[t] \in Specs \cup {NoSpec} /\ hold.pid \in Pids /\ sup \in SupTypes
          /\ sup' = [sup EXCEPT !.current = NoProc, !.spec = arg[t], !.want = FALSE, !.status = "ERROR"]
      BY DEF Inv, TypeOK, TrackUnsaved, Tracked, LaunchedIsNew, SupTypes
    <2>2. sup' \in SupTypes
      BY <2>1, Ids DEF SupTypes, Statuses
    <2>3. proc' \in ProcTypes
      BY <2>1 DEF Inv, TypeOK, TrackUnsaved, Kill, ProcTypes
    <2>4. record' \in RecordTypes /\ left' \in LeftTypes
      BY <2>2, SaveTypes DEF Inv, TrackUnsaved, TrySave
    <2>5. pc' \in [Threads -> Places] /\ outcome' \in {"ok", "error"}
      BY ReturnTypes DEF Inv, TrackUnsaved
    <2> QED BY <2>2, <2>3, <2>4, <2>5 DEF Inv, TypeOK, TrackUnsaved, SupTypes, ProcTypes, RecordTypes, LeftTypes
  <1>2. OneTransition'
    BY Ids
       DEF Inv, TrackUnsaved, MayTrack, SaveFails, Fault, Tracked, Kill,
           Return, OneTransition, InTransition, CallerPlaces, WatcherPlaces
  <1>3. WatchedIsTracked'
    BY Ids
       DEF Inv, TrackUnsaved, MayTrack, SaveFails, Fault, Tracked, Kill,
           Return, WatchedIsTracked
  <1>4. LaunchGuarded'
    BY Ids
       DEF Inv, TrackUnsaved, MayTrack, SaveFails, Fault, Tracked, Kill,
           Return, LaunchGuarded
  <1>5. LaunchedIsNew'
    BY Ids
       DEF Inv, TrackUnsaved, MayTrack, SaveFails, Fault, Tracked, Kill,
           Return, LaunchedIsNew
  <1>6. OnePerEpoch'
    BY Ids
       DEF Inv, TrackUnsaved, MayTrack, SaveFails, Fault, Tracked, Kill,
           Return, OnePerEpoch, Engaged
  <1>7. WatchdogCurrent'
    BY Ids
       DEF Inv, TrackUnsaved, MayTrack, SaveFails, Fault, Tracked, Kill,
           Return, WatchdogCurrent, TypeOK, OneTransition, InTransition,
           CallerPlaces, WatcherPlaces
  <1>8. BootClean'
    BY Ids
       DEF Inv, TrackUnsaved, MayTrack, SaveFails, Fault, Tracked, Kill,
           Return, BootClean, Pristine, Alive
  <1>9. NoProcessForgotten'
    BY <1>1, Ids
       DEF Inv, TrackUnsaved, MayTrack, SaveFails, Fault, Tracked, Kill,
           Return, NoProcessForgotten, Launching, Alive, TypeOK
  <1> QED BY <1>1, <1>2, <1>3, <1>4, <1>5, <1>6, <1>7, <1>8, <1>9 DEF Inv

\* The launched process takes the place of the watchdog, or the caller's epoch.
LEMMA TrackInv ==
  ASSUME Inv, NEW t \in Threads, Track(t)
  PROVE  Inv'
  <1>1. TypeOK'
    BY Ids, SupervisorAssumption
       DEF Inv, Track, MayTrack, Save, RecordOf, Tracked, TypeOK, Statuses,
           Places, InTransition
  <1>2. OneTransition'
    <2>1. hold.pid \in Pids /\ hold.pid # t
      BY DEF Inv, Track, LaunchedIsNew
    <2>2. \A u \in Threads : pc'[u] \in InTransition => pc[u] \in InTransition /\ u # t
      BY <2>1, Ids DEF Inv, TypeOK, Track, InTransition
    <2>3. \A u \in Threads : pc[u] \in InTransition => u = t
      BY DEF Inv, Track, OneTransition, InTransition
    <2>4. pc'[Caller] \in CallerPlaces /\ \A p \in Pids : pc'[p] \in WatcherPlaces
      BY <2>1, Ids DEF Inv, TypeOK, Track, OneTransition, CallerPlaces, WatcherPlaces
    <2> QED BY <2>2, <2>3, <2>4 DEF OneTransition
  <1>3. WatchedIsTracked'
    BY Ids
       DEF Inv, Track, MayTrack, Save, RecordOf, Tracked, WatchedIsTracked,
           TypeOK, OneTransition, InTransition, CallerPlaces, WatcherPlaces,
           LaunchedIsNew, LaunchGuarded
  <1>4. LaunchGuarded'
    BY Ids
       DEF Inv, Track, MayTrack, Save, RecordOf, Tracked, LaunchGuarded,
           TypeOK, OneTransition, InTransition, CallerPlaces, WatcherPlaces
  <1>5. LaunchedIsNew'
    BY Ids
       DEF Inv, Track, MayTrack, Save, RecordOf, Tracked, LaunchedIsNew,
           TypeOK, OneTransition, InTransition, CallerPlaces, WatcherPlaces
  <1>6. OnePerEpoch'
    BY Ids
       DEF Inv, Track, MayTrack, Save, RecordOf, Tracked, TypeOK,
           OneTransition, InTransition, CallerPlaces, WatcherPlaces,
           WatchedIsTracked, LaunchGuarded, LaunchedIsNew, OnePerEpoch,
           Engaged, WatchdogCurrent, BootClean, Pristine, Alive,
           NoProcessForgotten, Launching
  <1>7. WatchdogCurrent'
    BY Ids
       DEF Inv, Track, MayTrack, Save, RecordOf, Tracked, WatchdogCurrent,
           TypeOK
  <1>8. BootClean'
    BY Ids
       DEF Inv, Track, MayTrack, Save, RecordOf, Tracked, BootClean, Pristine,
           Alive, TypeOK
  <1>9. NoProcessForgotten'
    BY <1>1, Ids
       DEF Inv, Track, MayTrack, Save, RecordOf, Tracked, NoProcessForgotten,
           Launching, Alive, TypeOK
  <1> QED BY <1>1, <1>2, <1>3, <1>4, <1>5, <1>6, <1>7, <1>8, <1>9 DEF Inv

\* Stop and Restart: a new epoch, and nobody is in a transition.
LEMMA StopBeginInv ==
  ASSUME Inv, StopBegin
  PROVE  Inv'
  <1>1. TypeOK'
    <2>1. PICK e \in Nat, s \in Statuses : sup' = [sup EXCEPT !.epoch = e, !.want = FALSE, !.status = s]
      <3>1. sup' = [sup EXCEPT !.epoch = sup.epoch + 1, !.want = FALSE,
                        !.status = IF sup.current = NoProc THEN "STOPPED" ELSE sup.status]
        BY DEF StopBegin
      <3>2. sup.epoch + 1 \in Nat /\ (IF sup.current = NoProc THEN "STOPPED" ELSE sup.status) \in Statuses
        BY DEF Inv, TypeOK, Statuses
      <3> QED BY <3>1, <3>2
    <2>2. sup' \in SupTypes
      BY <2>1 DEF Inv, TypeOK, SupTypes
    <2>3. record' \in RecordTypes /\ left' \in LeftTypes
      <3>1. TrySave(sup')
        BY DEF StopBegin, TrySave
      <3> QED BY <3>1, <2>2, SaveTypes DEF Inv
    <2>4. hold' \in [pid: Threads, epoch: Nat]
      BY DEF Inv, TypeOK, StopBegin
    <2>5. pc' \in [Threads -> Places] /\ outcome' \in {"ok", "error"}
      BY Ids DEF Inv, TypeOK, StopBegin, Stopped, Return, Goto, Places, InTransition
    <2> QED BY <2>2, <2>3, <2>4, <2>5 DEF Inv, TypeOK, StopBegin, SupTypes, RecordTypes, LeftTypes
  <1>2. OneTransition'
    BY Ids
       DEF Inv, StopBegin, LockFree, SaveFails, Fault, Save, RecordOf, Return,
           Stopped, Goto, OneTransition, InTransition, CallerPlaces,
           WatcherPlaces, TypeOK
  <1>3. WatchedIsTracked'
    BY Ids
       DEF Inv, StopBegin, LockFree, SaveFails, Fault, Save, RecordOf, Return,
           Stopped, Goto, WatchedIsTracked, TypeOK
  <1>4. LaunchGuarded'
    BY Ids
       DEF Inv, StopBegin, LockFree, SaveFails, Fault, Save, RecordOf, Return,
           Stopped, Goto, LaunchGuarded, TypeOK, OneTransition, InTransition,
           CallerPlaces, WatcherPlaces
  <1>5. LaunchedIsNew'
    BY Ids
       DEF Inv, StopBegin, LockFree, SaveFails, Fault, Save, RecordOf, Return,
           Stopped, Goto, LaunchedIsNew, TypeOK, OneTransition, InTransition,
           CallerPlaces, WatcherPlaces
  <1>6. OnePerEpoch'
    BY Ids
       DEF Inv, StopBegin, LockFree, SaveFails, Fault, Save, RecordOf, Return,
           Stopped, Goto, OnePerEpoch, Engaged, TypeOK
  <1>7. WatchdogCurrent'
    BY Ids
       DEF Inv, StopBegin, LockFree, SaveFails, Fault, Save, RecordOf, Return,
           Stopped, Goto, WatchdogCurrent, TypeOK, OneTransition, InTransition,
           CallerPlaces, WatcherPlaces
  <1>8. BootClean'
    BY Ids
       DEF Inv, StopBegin, LockFree, SaveFails, Fault, Save, RecordOf, Return,
           Stopped, Goto, BootClean, Pristine, Alive
  <1>9. NoProcessForgotten'
    BY <1>1, Ids
       DEF Inv, StopBegin, LockFree, SaveFails, Fault, Save, RecordOf, Return,
           Stopped, Goto, NoProcessForgotten, Launching, Alive, TypeOK,
           OneTransition, InTransition, CallerPlaces, WatcherPlaces
  <1> QED BY <1>1, <1>2, <1>3, <1>4, <1>5, <1>6, <1>7, <1>8, <1>9 DEF Inv

\* stopLocked: the signal.
LEMMA StopSignalInv ==
  ASSUME Inv, StopSignal
  PROVE  Inv'
  <1>1. TypeOK'
    BY Ids, SupervisorAssumption
       DEF Inv, StopSignal, TrySave, Save, RecordOf, SaveFails, Fault, Return,
           Goto, TypeOK, Statuses, Places, InTransition
  <1>2. OneTransition'
    BY Ids
       DEF Inv, StopSignal, TrySave, Save, RecordOf, SaveFails, Fault, Return,
           Goto, OneTransition, InTransition, CallerPlaces, WatcherPlaces,
           TypeOK
  <1>3. WatchedIsTracked'
    BY Ids
       DEF Inv, StopSignal, TrySave, Save, RecordOf, SaveFails, Fault, Return,
           Goto, WatchedIsTracked, TypeOK
  <1>4. LaunchGuarded'
    BY Ids
       DEF Inv, StopSignal, TrySave, Save, RecordOf, SaveFails, Fault, Return,
           Goto, LaunchGuarded, TypeOK
  <1>5. LaunchedIsNew'
    BY Ids
       DEF Inv, StopSignal, TrySave, Save, RecordOf, SaveFails, Fault, Return,
           Goto, LaunchedIsNew, TypeOK
  <1>6. OnePerEpoch'
    BY Ids
       DEF Inv, StopSignal, TrySave, Save, RecordOf, SaveFails, Fault, Return,
           Goto, OnePerEpoch, Engaged, TypeOK
  <1>7. WatchdogCurrent'
    BY Ids
       DEF Inv, StopSignal, TrySave, Save, RecordOf, SaveFails, Fault, Return,
           Goto, WatchdogCurrent, TypeOK
  <1>8. BootClean'
    BY Ids
       DEF Inv, StopSignal, TrySave, Save, RecordOf, SaveFails, Fault, Return,
           Goto, BootClean, Pristine, Alive, TypeOK
  <1>9. NoProcessForgotten'
    BY <1>1, Ids
       DEF Inv, StopSignal, TrySave, Save, RecordOf, SaveFails, Fault, Return,
           Goto, NoProcessForgotten, Launching, Alive, TypeOK
  <1> QED BY <1>1, <1>2, <1>3, <1>4, <1>5, <1>6, <1>7, <1>8, <1>9 DEF Inv

\* stopLocked: the first wait.
LEMMA StopWaitInv ==
  ASSUME Inv, StopWait
  PROVE  Inv'
  <1>1. TypeOK'
    BY Ids, SupervisorAssumption
       DEF Inv, StopWait, Done, Stopped, Return, Goto, Kill, TypeOK, Statuses,
           Places, InTransition
  <1>2. OneTransition'
    BY Ids
       DEF Inv, StopWait, Done, Stopped, Return, Goto, Kill, OneTransition,
           InTransition, CallerPlaces, WatcherPlaces, TypeOK
  <1>3. WatchedIsTracked'
    BY Ids
       DEF Inv, StopWait, Done, Stopped, Return, Goto, Kill, WatchedIsTracked,
           TypeOK
  <1>4. LaunchGuarded'
    BY Ids
       DEF Inv, StopWait, Done, Stopped, Return, Goto, Kill, LaunchGuarded,
           TypeOK
  <1>5. LaunchedIsNew'
    BY Ids
       DEF Inv, StopWait, Done, Stopped, Return, Goto, Kill, LaunchedIsNew,
           TypeOK
  <1>6. OnePerEpoch'
    BY Ids
       DEF Inv, StopWait, Done, Stopped, Return, Goto, Kill, OnePerEpoch,
           Engaged, TypeOK
  <1>7. WatchdogCurrent'
    BY Ids
       DEF Inv, StopWait, Done, Stopped, Return, Goto, Kill, WatchdogCurrent,
           TypeOK
  <1>8. BootClean'
    BY Ids
       DEF Inv, StopWait, Done, Stopped, Return, Goto, Kill, BootClean,
           Pristine, Alive, TypeOK
  <1>9. NoProcessForgotten'
    BY <1>1, Ids
       DEF Inv, StopWait, Done, Stopped, Return, Goto, Kill,
           NoProcessForgotten, Launching, Alive, TypeOK
  <1> QED BY <1>1, <1>2, <1>3, <1>4, <1>5, <1>6, <1>7, <1>8, <1>9 DEF Inv

\* stopLocked: the second wait.
LEMMA StopKilledInv ==
  ASSUME Inv, StopKilled
  PROVE  Inv'
  <1>1. TypeOK'
    BY Ids, SupervisorAssumption
       DEF Inv, StopKilled, Done, Stopped, Return, Goto, TypeOK, Statuses,
           Places, InTransition
  <1>2. OneTransition'
    BY Ids
       DEF Inv, StopKilled, Done, Stopped, Return, Goto, OneTransition,
           InTransition, CallerPlaces, WatcherPlaces, TypeOK
  <1>3. WatchedIsTracked'
    BY Ids
       DEF Inv, StopKilled, Done, Stopped, Return, Goto, WatchedIsTracked,
           TypeOK
  <1>4. LaunchGuarded'
    BY Ids
       DEF Inv, StopKilled, Done, Stopped, Return, Goto, LaunchGuarded, TypeOK
  <1>5. LaunchedIsNew'
    BY Ids
       DEF Inv, StopKilled, Done, Stopped, Return, Goto, LaunchedIsNew, TypeOK
  <1>6. OnePerEpoch'
    BY Ids
       DEF Inv, StopKilled, Done, Stopped, Return, Goto, OnePerEpoch, Engaged,
           TypeOK
  <1>7. WatchdogCurrent'
    BY Ids
       DEF Inv, StopKilled, Done, Stopped, Return, Goto, WatchdogCurrent,
           TypeOK
  <1>8. BootClean'
    BY Ids
       DEF Inv, StopKilled, Done, Stopped, Return, Goto, BootClean, Pristine,
           Alive, TypeOK
  <1>9. NoProcessForgotten'
    BY <1>1, Ids
       DEF Inv, StopKilled, Done, Stopped, Return, Goto, NoProcessForgotten,
           Launching, Alive, TypeOK
  <1> QED BY <1>1, <1>2, <1>3, <1>4, <1>5, <1>6, <1>7, <1>8, <1>9 DEF Inv

\* watch: the exit is seen.
LEMMA WatchCloseInv ==
  ASSUME Inv, NEW p \in Pids, WatchClose(p)
  PROVE  Inv'
  <1>1. TypeOK'
    BY Ids, SupervisorAssumption
       DEF Inv, WatchClose, Goto, TypeOK, Statuses, Places, InTransition
  <1>2. OneTransition'
    BY Ids
       DEF Inv, WatchClose, Goto, OneTransition, InTransition, CallerPlaces,
           WatcherPlaces
  <1>3. WatchedIsTracked'
    BY Ids DEF Inv, WatchClose, Goto, WatchedIsTracked
  <1>4. LaunchGuarded'
    BY Ids DEF Inv, WatchClose, Goto, LaunchGuarded
  <1>5. LaunchedIsNew'
    BY Ids DEF Inv, WatchClose, Goto, LaunchedIsNew
  <1>6. OnePerEpoch'
    BY Ids DEF Inv, WatchClose, Goto, OnePerEpoch, Engaged
  <1>7. WatchdogCurrent'
    BY Ids DEF Inv, WatchClose, Goto, WatchdogCurrent
  <1>8. BootClean'
    BY Ids DEF Inv, WatchClose, Goto, BootClean, Pristine, Alive
  <1>9. NoProcessForgotten'
    BY <1>1, Ids
       DEF Inv, WatchClose, Goto, NoProcessForgotten, Launching, Alive, TypeOK
  <1> QED BY <1>1, <1>2, <1>3, <1>4, <1>5, <1>6, <1>7, <1>8, <1>9 DEF Inv

\* watch: the process is forgotten, and its goroutine may become the watchdog.
LEMMA WatchClearInv ==
  ASSUME Inv, NEW p \in Pids, WatchClear(p)
  PROVE  Inv'
  <1> USE Ids
  <1>1. sup.current = p /\ pc[p] = "closed" /\ sup \in SupTypes
    BY DEF Inv, WatchedIsTracked, WatchClear, TypeOK, SupTypes
  <1>2. /\ sup' \in SupTypes
        /\ sup'.current = NoProc /\ sup'.want = sup.want /\ sup'.epoch = sup.epoch
    <2>1. PICK s \in Statuses, a \in 0 .. MaxRestarts :
            sup' = [sup EXCEPT !.current = NoProc, !.status = s, !.attempts = a]
      <3>1. CASE ~(sup.want /\ sup.epoch = born[p])
        <4>1. sup' = [sup EXCEPT !.current = NoProc, !.status = "STOPPED", !.attempts = sup.attempts]
          BY <3>1, <1>1 DEF WatchClear, SupTypes
        <4> QED BY <4>1, <1>1 DEF SupTypes, Statuses
      <3>2. CASE sup.want /\ sup.epoch = born[p]
        <4>1. PICK stable \in BOOLEAN :
                sup' = [sup EXCEPT !.current = NoProc, !.status = "ERROR",
                                   !.attempts = IF stable THEN 0 ELSE sup.attempts]
          BY <3>2, <1>1 DEF WatchClear
        <4>2. (IF stable THEN 0 ELSE sup.attempts) \in 0 .. MaxRestarts
          BY <1>1, SupervisorAssumption DEF SupTypes
        <4>3. "ERROR" \in Statuses
          BY DEF Statuses
        <4> QED BY <4>1, <4>2, <4>3
      <3> QED BY <3>1, <3>2
    <2> QED BY <2>1, <1>1 DEF SupTypes
  <1>3. PICK place \in {"ended", "loop"} : pc' = [pc EXCEPT ![p] = place]
    BY <1>1 DEF WatchClear, Goto
  <1>4. UNCHANGED <<proc, born, arg, op, hold, outcome, onDisk, up, survivors>>
    BY DEF WatchClear, Goto
  <1>5. record' \in RecordTypes /\ left' \in LeftTypes
    <2>1. TrySave(sup')
      BY <1>1 DEF WatchClear
    <2> QED BY <2>1, <1>2, SaveTypes DEF Inv
  <1>6. TypeOK'
    BY <1>2, <1>3, <1>4, <1>5 DEF Inv, TypeOK, SupTypes, RecordTypes, LeftTypes, Places
  <1>7. OneTransition'
    BY <1>1, <1>3 DEF Inv, TypeOK, OneTransition, InTransition, CallerPlaces, WatcherPlaces
  <1>8. WatchedIsTracked'
    BY <1>1, <1>2, <1>3, <1>4 DEF Inv, TypeOK, WatchedIsTracked
  <1>9. LaunchGuarded' /\ LaunchedIsNew'
    BY <1>1, <1>2, <1>3, <1>4 DEF Inv, TypeOK, LaunchGuarded, LaunchedIsNew
  <1>10. OnePerEpoch'
    BY <1>1, <1>2, <1>3, <1>4 DEF Inv, TypeOK, OnePerEpoch, Engaged
  <1>11. WatchdogCurrent' /\ BootClean'
    BY <1>1, <1>2, <1>3, <1>4 DEF Inv, TypeOK, WatchdogCurrent, BootClean, Pristine
  <1>12. NoProcessForgotten'
    BY <1>1, <1>2, <1>3, <1>4, <1>6 DEF Inv, TypeOK, NoProcessForgotten, Launching, Alive
  <1> QED BY <1>6, <1>7, <1>8, <1>9, <1>10, <1>11, <1>12 DEF Inv

\* The head of the watchdog's loop.
LEMMA WatchdogLoopInv ==
  ASSUME Inv, NEW p \in Pids, WatchdogLoop(p)
  PROVE  Inv'
  <1> USE Ids
  <1>1. /\ pc[p] = "loop" /\ sup \in SupTypes
        /\ UNCHANGED <<proc, born, op, hold, outcome, onDisk, up, survivors>>
    BY DEF Inv, TypeOK, WatchdogLoop, Goto, SupTypes
  <1>2. PICK place \in {"ended", "delay"} : pc' = [pc EXCEPT ![p] = place]
    BY DEF WatchdogLoop, Goto
  <1>3. /\ sup' \in SupTypes
        /\ sup'.current = sup.current /\ sup'.want = sup.want /\ sup'.epoch = sup.epoch
    <2>1. CASE sup' = sup \/ sup' = [sup EXCEPT !.status = "ERROR"]
      BY <2>1, <1>1 DEF SupTypes, Statuses
    <2>2. CASE ~Exhausted /\ sup' = [sup EXCEPT !.attempts = sup.attempts + 1]
      BY <2>2, <1>1, SupervisorAssumption DEF SupTypes, Exhausted
    <2> QED BY <2>1, <2>2 DEF WatchdogLoop
  <1>4. record' \in RecordTypes /\ left' \in LeftTypes
    <2>1. TrySave(sup') \/ UNCHANGED <<record, left>>
      BY DEF WatchdogLoop
    <2> QED BY <2>1, <1>3, SaveTypes DEF Inv, TypeOK, RecordTypes, LeftTypes
  <1>5. arg' \in [Threads -> Specs \cup {NoSpec}]
    BY DEF Inv, TypeOK, WatchdogLoop
  <1>6. TypeOK'
    BY <1>1, <1>2, <1>3, <1>4, <1>5 DEF Inv, TypeOK, SupTypes, RecordTypes, LeftTypes, Places
  <1>7. OneTransition'
    BY <1>1, <1>2 DEF Inv, TypeOK, OneTransition, InTransition, CallerPlaces, WatcherPlaces
  <1>8. WatchedIsTracked'
    BY <1>1, <1>2, <1>3 DEF Inv, TypeOK, WatchedIsTracked
  <1>9. LaunchGuarded' /\ LaunchedIsNew'
    BY <1>1, <1>2, <1>3 DEF Inv, TypeOK, LaunchGuarded, LaunchedIsNew
  <1>10. OnePerEpoch'
    BY <1>1, <1>2, <1>3 DEF Inv, TypeOK, OnePerEpoch, Engaged
  <1>11. WatchdogCurrent' /\ BootClean'
    BY <1>1, <1>2, <1>3 DEF Inv, TypeOK, WatchdogCurrent, BootClean, Pristine
  <1>12. NoProcessForgotten'
    BY <1>1, <1>2, <1>3, <1>6 DEF Inv, TypeOK, NoProcessForgotten, Launching, Alive
  <1> QED BY <1>6, <1>7, <1>8, <1>9, <1>10, <1>11, <1>12 DEF Inv

\* The watchdog takes transitionMu.
LEMMA WatchdogWakeInv ==
  ASSUME Inv, NEW p \in Pids, WatchdogWake(p)
  PROVE  Inv'
  <1>1. TypeOK'
    BY Ids, SupervisorAssumption
       DEF Inv, WatchdogWake, LockFree, Goto, TypeOK, Statuses, Places,
           InTransition
  <1>2. OneTransition'
    BY Ids
       DEF Inv, WatchdogWake, LockFree, Goto, OneTransition, InTransition,
           CallerPlaces, WatcherPlaces
  <1>3. WatchedIsTracked'
    BY Ids DEF Inv, WatchdogWake, LockFree, Goto, WatchedIsTracked
  <1>4. LaunchGuarded'
    BY Ids DEF Inv, WatchdogWake, LockFree, Goto, LaunchGuarded
  <1>5. LaunchedIsNew'
    BY Ids DEF Inv, WatchdogWake, LockFree, Goto, LaunchedIsNew
  <1>6. OnePerEpoch'
    BY Ids DEF Inv, WatchdogWake, LockFree, Goto, OnePerEpoch, Engaged
  <1>7. WatchdogCurrent'
    BY Ids DEF Inv, WatchdogWake, LockFree, Goto, WatchdogCurrent
  <1>8. BootClean'
    BY Ids DEF Inv, WatchdogWake, LockFree, Goto, BootClean, Pristine, Alive
  <1>9. NoProcessForgotten'
    BY <1>1, Ids
       DEF Inv, WatchdogWake, LockFree, Goto, NoProcessForgotten, Launching,
           Alive, TypeOK
  <1> QED BY <1>1, <1>2, <1>3, <1>4, <1>5, <1>6, <1>7, <1>8, <1>9 DEF Inv

\* Recover: an adopted process, or a start.
LEMMA RecoverInv ==
  ASSUME Inv, Recover
  PROVE  Inv'
  <1> USE Ids
  <1>1. /\ Pristine /\ pc[Caller] = "call" /\ op = "recover" /\ up /\ sup \in SupTypes
        /\ UNCHANGED <<proc, op, hold, record, onDisk, up, survivors>>
    BY DEF Inv, Recover, BootClean, TypeOK, SupTypes
  <1>2. CASE /\ record.want /\ record.pid # NoProc /\ Alive(record.pid)
             /\ sup' = [sup EXCEPT !.epoch = sup.epoch + 1, !.current = record.pid,
                                   !.spec = record.spec, !.want = TRUE, !.status = "RUNNING"]
             /\ born' = [born EXCEPT ![record.pid] = sup'.epoch]
             /\ pc' = [pc EXCEPT ![Caller] = "idle", ![record.pid] = "wait"]
             /\ outcome' = "ok"
             /\ UNCHANGED <<arg, left>>
    <2>1. record.pid \in Pids /\ record.spec \in Specs \cup {NoSpec}
      BY <1>2 DEF Inv, TypeOK
    <2>2. /\ sup' \in SupTypes
          /\ sup'.current = record.pid /\ sup'.want /\ sup'.epoch = sup.epoch + 1
      <3>1. PICK e \in Nat : e = sup.epoch + 1
        BY <1>1 DEF SupTypes
      <3>2. "RUNNING" \in Statuses
        BY DEF Statuses
      <3> QED BY <3>1, <3>2, <1>1, <1>2, <2>1 DEF SupTypes
    <2>3. TypeOK'
      BY <1>1, <1>2, <2>1, <2>2 DEF Inv, TypeOK, SupTypes, Places
    <2>4. OneTransition'
      BY <1>1, <1>2, <2>1 DEF Inv, TypeOK, Pristine, OneTransition, InTransition, CallerPlaces, WatcherPlaces
    <2>5. WatchedIsTracked'
      BY <1>1, <1>2, <2>1, <2>2 DEF Inv, TypeOK, Pristine, WatchedIsTracked, Alive
    <2>6. LaunchGuarded' /\ LaunchedIsNew' /\ WatchdogCurrent'
      BY <1>1, <1>2, <2>1 DEF Inv, TypeOK, Pristine, LaunchGuarded, LaunchedIsNew, WatchdogCurrent
    <2>7. OnePerEpoch'
      BY <1>1, <1>2, <2>1, <2>2 DEF Inv, TypeOK, Pristine, OnePerEpoch, Engaged
    <2>8. BootClean'
      BY <1>1, <1>2, <2>1 DEF Inv, TypeOK, BootClean
    <2>9. NoProcessForgotten'
      BY <1>1, <1>2, <2>1, <2>3 DEF Inv, TypeOK, Pristine, NoProcessForgotten, Alive
    <2> QED BY <2>3, <2>4, <2>5, <2>6, <2>7, <2>8, <2>9 DEF Inv
  <1>3. CASE /\ UNCHANGED <<sup, born>>
             /\ Return(Caller, TRUE) \/ Return(Caller, FALSE) \/ Goto(Caller, "start")
    <2>1. PICK place \in {"idle", "start"} : pc' = [pc EXCEPT ![Caller] = place]
      BY <1>3 DEF Return, Goto
    <2>2. /\ arg' \in [Threads -> Specs \cup {NoSpec}] /\ left' \in LeftTypes
          /\ outcome' \in {"ok", "error"}
      BY <1>3 DEF Inv, TypeOK, Recover, Return, Goto, Fault, LeftTypes
    <2>3. TypeOK'
      BY <1>1, <1>3, <2>1, <2>2 DEF Inv, TypeOK, LeftTypes, Places, InTransition
    <2>4. OneTransition'
      BY <1>1, <2>1 DEF Inv, TypeOK, Pristine, OneTransition, InTransition, CallerPlaces, WatcherPlaces
    <2>5. WatchedIsTracked'
      BY <1>1, <1>3, <2>1 DEF Inv, TypeOK, WatchedIsTracked
    <2>6. LaunchGuarded' /\ LaunchedIsNew' /\ WatchdogCurrent'
      BY <1>1, <1>3, <2>1 DEF Inv, TypeOK, Pristine, LaunchGuarded, LaunchedIsNew, WatchdogCurrent
    <2>7. OnePerEpoch'
      BY <1>1, <1>3, <2>1 DEF Inv, TypeOK, OnePerEpoch, Engaged
    <2>8. BootClean'
      BY <1>1, <2>1 DEF Inv, TypeOK, BootClean
    <2>9. NoProcessForgotten'
      BY <1>1, <1>3, <2>1, <2>3 DEF Inv, TypeOK, Pristine, NoProcessForgotten, Alive
    <2> QED BY <2>3, <2>4, <2>5, <2>6, <2>7, <2>8, <2>9 DEF Inv
  <1>4. \/ /\ UNCHANGED <<sup, born>>
           /\ Return(Caller, TRUE) \/ Return(Caller, FALSE) \/ Goto(Caller, "start")
        \/ /\ record.want /\ record.pid # NoProc /\ Alive(record.pid)
           /\ sup' = [sup EXCEPT !.epoch = sup.epoch + 1, !.current = record.pid,
                                 !.spec = record.spec, !.want = TRUE, !.status = "RUNNING"]
           /\ born' = [born EXCEPT ![record.pid] = sup'.epoch]
           /\ pc' = [pc EXCEPT ![Caller] = "idle", ![record.pid] = "wait"]
           /\ outcome' = "ok"
           /\ UNCHANGED <<arg, left>>
    BY Zenon DEF Recover
  <1> QED BY <1>2, <1>3, <1>4

\* A process exits.
LEMMA DieInv ==
  ASSUME Inv, NEW p \in Pids, Die(p)
  PROVE  Inv'
  <1>1. TypeOK'
    <2>1. proc' \in ProcTypes
      BY DEF Inv, TypeOK, Die, Kill, ProcTypes
    <2>2. left' \in LeftTypes
      BY DEF Inv, TypeOK, Die, LeftTypes
    <2> QED BY <2>1, <2>2 DEF Inv, TypeOK, Die, ProcTypes, LeftTypes
  <1>2. OneTransition'
    BY Ids
       DEF Inv, Die, Kill, OneTransition, InTransition, CallerPlaces,
           WatcherPlaces
  <1>3. WatchedIsTracked'
    BY Ids DEF Inv, Die, Kill, WatchedIsTracked
  <1>4. LaunchGuarded'
    BY Ids DEF Inv, Die, Kill, LaunchGuarded
  <1>5. LaunchedIsNew'
    BY Ids DEF Inv, Die, Kill, LaunchedIsNew
  <1>6. OnePerEpoch'
    BY Ids DEF Inv, Die, Kill, OnePerEpoch, Engaged
  <1>7. WatchdogCurrent'
    BY Ids DEF Inv, Die, Kill, WatchdogCurrent
  <1>8. BootClean'
    BY Ids DEF Inv, Die, Kill, BootClean, Pristine, Alive
  <1>9. NoProcessForgotten'
    BY <1>1, Ids
       DEF Inv, Die, Kill, NoProcessForgotten, Launching, Alive, TypeOK
  <1> QED BY <1>1, <1>2, <1>3, <1>4, <1>5, <1>6, <1>7, <1>8, <1>9 DEF Inv

\* The Agent dies.
LEMMA CrashInv ==
  ASSUME Inv, Crash
  PROVE  Inv'
  <1>1. TypeOK'
    <2>1. proc' \in ProcTypes
      BY DEF Inv, TypeOK, Crash, Alive, ProcTypes
    <2>2. left' \in LeftTypes
      BY DEF Inv, TypeOK, Crash, LeftTypes
    <2>3. sup' \in SupTypes
      BY SupervisorAssumption, Ids DEF Crash, Fresh, SupTypes, Statuses
    <2>4. pc' \in [Threads -> Places] /\ survivors' \subseteq Pids /\ hold' \in [pid: Threads, epoch: Nat]
      BY Ids DEF Inv, TypeOK, Crash, Places
    <2> QED BY <2>1, <2>2, <2>3, <2>4 DEF Inv, TypeOK, Crash, ProcTypes, SupTypes, LeftTypes
  <1>2. OneTransition'
    BY Ids
       DEF Inv, Crash, Fresh, OneTransition, InTransition, CallerPlaces,
           WatcherPlaces
  <1>3. WatchedIsTracked'
    BY Ids
       DEF Inv, Crash, Fresh, TypeOK, OneTransition, InTransition,
           CallerPlaces, WatcherPlaces, WatchedIsTracked, LaunchGuarded,
           LaunchedIsNew, OnePerEpoch, Engaged, WatchdogCurrent, BootClean,
           Pristine, Alive, NoProcessForgotten, Launching
  <1>4. LaunchGuarded'
    BY Ids DEF Inv, Crash, Fresh, LaunchGuarded
  <1>5. LaunchedIsNew'
    BY Ids DEF Inv, Crash, Fresh, LaunchedIsNew
  <1>6. OnePerEpoch'
    BY Ids DEF Inv, Crash, Fresh, OnePerEpoch, Engaged
  <1>7. WatchdogCurrent'
    BY Ids DEF Inv, Crash, Fresh, WatchdogCurrent
  <1>8. BootClean'
    BY Ids DEF Inv, Crash, Fresh, BootClean, Pristine, Alive, TypeOK
  <1>9. NoProcessForgotten'
    BY <1>1, Ids
       DEF Inv, Crash, Fresh, NoProcessForgotten, Launching, Alive, TypeOK
  <1> QED BY <1>1, <1>2, <1>3, <1>4, <1>5, <1>6, <1>7, <1>8, <1>9 DEF Inv

\* The Agent starts.
LEMMA BootInv ==
  ASSUME Inv, Boot
  PROVE  Inv'
  <1>1. TypeOK'
    BY Ids, SupervisorAssumption
       DEF Inv, Boot, TypeOK, Statuses, Places, InTransition
  <1>2. OneTransition'
    BY Ids
       DEF Inv, Boot, OneTransition, InTransition, CallerPlaces, WatcherPlaces
  <1>3. WatchedIsTracked'
    BY Ids DEF Inv, Boot, WatchedIsTracked
  <1>4. LaunchGuarded'
    BY Ids DEF Inv, Boot, LaunchGuarded
  <1>5. LaunchedIsNew'
    BY Ids DEF Inv, Boot, LaunchedIsNew
  <1>6. OnePerEpoch'
    BY Ids DEF Inv, Boot, OnePerEpoch, Engaged
  <1>7. WatchdogCurrent'
    BY Ids DEF Inv, Boot, WatchdogCurrent
  <1>8. BootClean'
    BY Ids DEF Inv, Boot, BootClean, Pristine, Alive
  <1>9. NoProcessForgotten'
    BY <1>1, Ids
       DEF Inv, Boot, TypeOK, OneTransition, InTransition, CallerPlaces,
           WatcherPlaces, WatchedIsTracked, LaunchGuarded, LaunchedIsNew,
           OnePerEpoch, Engaged, WatchdogCurrent, BootClean, Pristine, Alive,
           NoProcessForgotten, Launching
  <1> QED BY <1>1, <1>2, <1>3, <1>4, <1>5, <1>6, <1>7, <1>8, <1>9 DEF Inv

-----------------------------------------------------------------------------
(* The theorems. *)

LEMMA InitInv == Init => Inv
  <1> SUFFICES ASSUME Init PROVE Inv
    OBVIOUS
  <1> USE Ids
  <1>1. TypeOK
    BY SupervisorAssumption DEF Init, TypeOK, Fresh, NoRecord, Statuses, Places
  <1>2. sup.current = NoProc /\ sup.epoch = 0 /\ pc[Caller] = "idle" /\ up
    BY DEF Init, Fresh
  <1>3. \A p \in Pids : pc[p] = "none" /\ born[p] = 0 /\ proc[p].st = "unused" /\ p \notin survivors
    BY DEF Init
  <1>4. OneTransition /\ WatchedIsTracked
    BY <1>2, <1>3 DEF OneTransition, WatchedIsTracked, InTransition, CallerPlaces, WatcherPlaces
  <1>5. LaunchGuarded /\ LaunchedIsNew /\ WatchdogCurrent /\ BootClean
    BY <1>2, <1>3 DEF LaunchGuarded, LaunchedIsNew, WatchdogCurrent, BootClean
  <1>6. OnePerEpoch
    BY <1>2, <1>3 DEF OnePerEpoch, Engaged
  <1>7. NoProcessForgotten
    BY <1>1, <1>3 DEF NoProcessForgotten, Alive
  <1> QED BY <1>1, <1>4, <1>5, <1>6, <1>7 DEF Inv

LEMMA NextInv == Inv /\ [Next]_vars => Inv'
  <1> SUFFICES ASSUME Inv, [Next]_vars PROVE Inv'
    OBVIOUS
  <1>1. CASE \E s \in Specs : Install(s)
    BY <1>1, InstallInv
  <1>2. CASE \E o \in {"start", "stop", "restart"} : Call(o)
    BY <1>2, CallInv
  <1>3. CASE CallerStep
    BY <1>3, StartCallInv, StopBeginInv, StopSignalInv, StopWaitInv, StopKilledInv, RecoverInv
       DEF CallerStep
  <1>4. CASE \E t \in Threads : Transition(t)
    BY <1>4, StartCheckInv, LaunchFailsInv, LaunchInv, TrackRefusedInv, TrackUnsavedInv, TrackInv
       DEF Transition
  <1>5. CASE \E p \in Pids : Watcher(p) \/ Die(p)
    BY <1>5, WatchCloseInv, WatchClearInv, WatchdogLoopInv, WatchdogWakeInv, DieInv DEF Watcher
  <1>6. CASE Crash \/ Boot
    BY <1>6, CrashInv, BootInv
  <1>7. CASE UNCHANGED vars
    BY <1>7 DEF vars, Inv, TypeOK, OneTransition, WatchedIsTracked, LaunchGuarded, LaunchedIsNew,
                OnePerEpoch, Engaged, WatchdogCurrent, BootClean, Pristine, NoProcessForgotten,
                Launching, Alive
  <1> QED BY <1>1, <1>2, <1>3, <1>4, <1>5, <1>6, <1>7 DEF Next

\* The inductive invariant: one transition at a time, a tracked process has
\* its goroutine, a launch is not overtaken, an epoch has one process or one
\* watchdog, and a starting Agent knows of no process.
THEOREM SupervisorInvariance == Spec => []Inv
  <1> QED BY InitInv, NextInv, PTL DEF Spec

\* xray_supervisor.go never loses a live process of its own: whatever write,
\* launch or inspection fails and whenever the process exits.
THEOREM ProcessKnown == Spec => []NoProcessForgotten
  <1>1. Inv => NoProcessForgotten
    BY DEF Inv
  <1> QED BY <1>1, SupervisorInvariance, PTL

\* The tracked process has its goroutine, and of the goroutines that wait to
\* restart Xray at most one belongs to the current epoch.
THEOREM WatchdogUnique == Spec => []OneWatchdog
  <1>1. Inv => OneWatchdog
    BY Ids DEF Inv, TypeOK, OneWatchdog, WatchedIsTracked, OnePerEpoch, Engaged
  <1> QED BY <1>1, SupervisorInvariance, PTL

\* restartAfterUnexpectedExit launches only in its own epoch, while Xray is wanted.
THEOREM StopWins == Spec => WatchdogObeysStop
  <1>1. Inv => \A t \in Pids : pc[t] = "launch" => sup.want /\ sup.epoch = born[t]
    BY DEF Inv, WatchdogCurrent
  <1>2. Inv => [\A t \in Pids : pc[t] = "launch" /\ pc'[t] = "track"
                   => sup.want /\ sup.epoch = born[t]]_vars
    BY <1>1
  <1> QED BY <1>2, SupervisorInvariance, PTL DEF WatchdogObeysStop

=============================================================================
