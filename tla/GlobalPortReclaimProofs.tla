----------------------- MODULE GlobalPortReclaimProofs -----------------------
(***************************************************************************)
(* Theorems about GlobalPortReclaim, for any number of panel processes,    *)
(* hosts, networks, crashes and expiries, and for both kinds of probe      *)
(* service (LedgerBlocksProbe).                                            *)
(*                                                                         *)
(* A scan outlives its lease, and its verdict may come from a tenancy that *)
(* has ended.  What protects the row is its version: startProbeRun takes a *)
(* version nobody else has (OwnVersion), and as long as the row still has  *)
(* it, what the run has heard is what `quiet` holds (AnswersCurrent).      *)
(***************************************************************************)
EXTENDS GlobalPortReclaim, TLAPS

Places == {"idle", "leased", "candidate", "checked", "cohort", "probing", "finalizing", "done"}
Runs == {"none", "RUNNING", "SUCCESS", "FAILED"}
Outcomes == {"FREE", "OCCUPIED", "OFFLINE", "UNSUPPORTED", "ERROR", "EXPIRED"}
Results == UNION {[D -> Outcomes] : D \in SUBSET (Hosts \X Networks)}
Scans == [pc: Places, hosts: SUBSET Hosts, version: 0 .. MaxVersion, live: BOOLEAN,
          run: Runs, results: Results, verdict: Verdicts]

Rows == [status: {"HELD", "FREE"} \cup Reclaimable, version: 0 .. MaxVersion, due: BOOLEAN]
Leases == [owner: Scanners \cup {None}, live: BOOLEAN, cooled: BOOLEAN]

\* TypeOK, with all the fields of a scan.
Typed ==
    /\ row \in Rows
    /\ hosts \in [Hosts -> {"unknown", "managed", "removed"}]
    /\ drift \in BOOLEAN /\ heard \in BOOLEAN /\ churn \in 0 .. MaxChurn
    /\ lease \in Leases
    /\ quiet \subseteq Hosts \X Networks
    /\ scan \in [Scanners -> Scans]

\* The scan has a run.
Running(s) == scan[s].pc \in {"probing", "finalizing"}

\* A run has a version of the row of its own, and never one from the future.
OwnVersion ==
    /\ \A s \in Scanners : scan[s].version <= row.version
    /\ \A s, t \in Scanners :
          Running(s) /\ Running(t) /\ scan[s].version = scan[t].version => s = t

\* While the row has the version of a run, the answers of the run are about
\* the current tenancy, and so is the verdict that rests on them.
AnswersCurrent ==
    \A s \in Scanners : Running(s) /\ scan[s].version = row.version =>
        /\ \A x \in DOMAIN scan[s].results : scan[s].results[x] = "FREE" => x \in quiet
        /\ scan[s].pc = "finalizing" /\ scan[s].verdict = "FREE" =>
              scan[s].hosts # {} /\ Probes(s) \subseteq quiet

Inv == Typed /\ OwnVersion /\ AnswersCurrent

-----------------------------------------------------------------------------
(* Results. *)

LEMMA NoResults == <<>> \in Results /\ DOMAIN <<>> = {}
  <1>1. <<>> \in [{} -> Outcomes]
    OBVIOUS
  <1> QED BY <1>1 DEF Results

LEMMA ResultsDomain ==
  ASSUME NEW r \in Results
  PROVE  DOMAIN r \subseteq Hosts \X Networks
  BY DEF Results

LEMMA OneMoreResult ==
  ASSUME NEW r \in Results, NEW x \in Hosts \X Networks, NEW o \in Outcomes
  PROVE  [y \in DOMAIN r \cup {x} |-> IF y = x THEN o ELSE r[y]] \in Results
  <1>1. PICK D \in SUBSET (Hosts \X Networks) : r \in [D -> Outcomes]
    BY DEF Results
  <1>2. [y \in DOMAIN r \cup {x} |-> IF y = x THEN o ELSE r[y]] \in [D \cup {x} -> Outcomes]
    BY <1>1
  <1>3. D \cup {x} \in SUBSET (Hosts \X Networks)
    OBVIOUS
  <1> QED BY <1>2, <1>3 DEF Results

LEMMA TypedOK == Typed => TypeOK
  BY ResultsDomain DEF Typed, TypeOK, Rows, Leases, Scans, Runs

\* A version below the bound has a successor.
LEMMA NextVersion ==
  ASSUME row \in Rows, row.version < MaxVersion
  PROVE  row.version + 1 \in 0 .. MaxVersion
  BY ReclaimAssumption DEF Rows

\* The churn that is left.
LEMMA ChurnLeft ==
  ASSUME Typed, churn > 0, churn' = churn - 1
  PROVE  churn' \in 0 .. MaxChurn
  BY ReclaimAssumption DEF Typed

\* A scan is replaced by another.
LEMMA ScanReplaced ==
  ASSUME Typed, NEW s \in Scanners, NEW r \in Scans, scan' = [scan EXCEPT ![s] = r]
  PROVE  /\ scan' \in [Scanners -> Scans]
         /\ scan'[s] = r
         /\ \A t \in Scanners : t # s => scan'[t] = scan[t]
  BY DEF Typed

-----------------------------------------------------------------------------
(* Steps that start, answer and judge no probe. *)

\* Runs end or stay as they are, and the row's version only moves on.
Aside ==
    /\ row.version <= row'.version
    /\ row'.version = row.version => quiet' = quiet
    /\ \A t \in Scanners :
          /\ scan'[t].version = scan[t].version
          /\ Running(t)' => /\ scan'[t].pc = scan[t].pc
                            /\ scan'[t].hosts = scan[t].hosts
                            /\ scan'[t].results = scan[t].results
                            /\ scan'[t].verdict = scan[t].verdict

LEMMA AsideInv ==
  ASSUME Inv, Typed', Aside
  PROVE  Inv'
  <1>1. \A t \in Scanners : scan[t].version \in Nat /\ scan'[t].version \in Nat
    BY ReclaimAssumption DEF Inv, Typed, Scans
  <1>2. row.version \in Nat /\ row'.version \in Nat
    BY ReclaimAssumption DEF Inv, Typed, Rows
  <1>3. OwnVersion'
    BY <1>1, <1>2 DEF Inv, Aside, OwnVersion, Running
  <1>4. AnswersCurrent'
    <2> SUFFICES ASSUME NEW s \in Scanners, Running(s)', scan'[s].version = row'.version
                 PROVE  /\ \A x \in DOMAIN scan'[s].results : scan'[s].results[x] = "FREE" => x \in quiet'
                        /\ scan'[s].pc = "finalizing" /\ scan'[s].verdict = "FREE" =>
                              scan'[s].hosts # {} /\ Probes(s)' \subseteq quiet'
      BY DEF AnswersCurrent
    <2>1. Running(s) /\ scan[s].version = row.version /\ quiet' = quiet
      BY <1>1, <1>2 DEF Inv, Aside, OwnVersion, Running
    <2>2. Probes(s)' = Probes(s)
      BY DEF Aside, Probes
    <2> QED BY <2>1, <2>2 DEF Inv, Aside, AnswersCurrent
  <1> QED BY <1>3, <1>4 DEF Inv

-----------------------------------------------------------------------------
(* One lemma per action. *)

\* A scan begins.
LEMMA AcquireLeaseInv ==
  ASSUME Inv, NEW s \in Scanners, AcquireLease(s)
  PROVE  Inv'
  <1>1. scan' \in [Scanners -> Scans]
    BY DEF Inv, Typed, Scans, Places, AcquireLease
  <1>2. row' \in Rows
    BY DEF Inv, Typed, AcquireLease
  <1>3. Typed'
    BY <1>1, <1>2, ReclaimAssumption DEF Inv, Typed, Leases, AcquireLease
  <1>4. Aside
    BY DEF Inv, Typed, Aside, Running, Rows, Scans, AcquireLease
  <1> QED BY <1>3, <1>4, AsideInv

\* A candidate, or none.
LEMMA SelectCandidateInv ==
  ASSUME Inv, NEW s \in Scanners, SelectCandidate(s)
  PROVE  Inv'
  <1>1. scan' \in [Scanners -> Scans]
    BY DEF Inv, Typed, Scans, Places, SelectCandidate
  <1>2. row' \in Rows
    BY DEF Inv, Typed, SelectCandidate
  <1>3. Typed'
    BY <1>1, <1>2 DEF Inv, Typed, SelectCandidate
  <1>4. Aside
    BY DEF Inv, Typed, Aside, Running, Rows, Scans, SelectCandidate
  <1> QED BY <1>3, <1>4, AsideInv

\* Listener drift puts the port off.
LEMMA CheckDriftInv ==
  ASSUME Inv, NEW s \in Scanners, CheckDrift(s)
  PROVE  Inv'
  <1>1. PICK place \in {"checked", "done"} : scan' = [scan EXCEPT ![s].pc = place]
    BY DEF CheckDrift
  <1>2. scan' \in [Scanners -> Scans]
    BY <1>1 DEF Inv, Typed, Scans, Places
  <1>3. row' \in Rows /\ row.version <= row'.version
    <2>1. row \in Rows
      BY DEF Inv, Typed
    <2>2. \/ row' = row
          \/ \E v \in 0 .. MaxVersion : /\ v = row.version + 1
                                       /\ row' = [row EXCEPT !.version = v, !.due = FALSE]
      BY <2>1, NextVersion DEF CheckDrift
    <2>3. CASE row' = row
      BY <2>1, <2>3 DEF Rows
    <2>4. ASSUME NEW v \in 0 .. MaxVersion, v = row.version + 1,
                 row' = [row EXCEPT !.version = v, !.due = FALSE]
          PROVE  row' \in Rows /\ row.version <= row'.version
      <3>1. row' \in Rows /\ row'.version = v
        BY <2>1, <2>4 DEF Rows
      <3> QED BY <2>1, <2>4, <3>1 DEF Rows
    <2> QED BY <2>2, <2>3, <2>4
  <1>4. Typed'
    BY <1>2, <1>3 DEF Inv, Typed, CheckDrift
  <1>5. Aside
    BY <1>1, <1>3 DEF Inv, Typed, Scans, Aside, Running, CheckDrift
  <1> QED BY <1>4, <1>5, AsideInv

\* The hosts of the run.
LEMMA ReadCohortInv ==
  ASSUME Inv, NEW s \in Scanners, ReadCohort(s)
  PROVE  Inv'
  <1>1. PICK H \in SUBSET Hosts : scan' = [scan EXCEPT ![s].pc = "cohort", ![s].hosts = H]
    BY DEF ReadCohort, Managed
  <1> DEFINE r == [scan[s] EXCEPT !.pc = "cohort", !.hosts = H]
  <1>2. r \in Scans /\ r.pc = "cohort" /\ r.version = scan[s].version
    BY DEF Inv, Typed, Scans, Places
  <1>3. scan' = [scan EXCEPT ![s] = r]
    BY <1>1 DEF Inv, Typed
  <1> HIDE DEF r
  <1>4. /\ scan' \in [Scanners -> Scans] /\ scan'[s] = r
        /\ \A t \in Scanners : t # s => scan'[t] = scan[t]
    BY <1>2, <1>3, ScanReplaced DEF Inv
  <1>5. Typed'
    BY <1>4 DEF Inv, Typed, ReadCohort
  <1>6. Aside
    BY <1>2, <1>4 DEF Inv, Typed, Rows, Aside, Running, ReadCohort
  <1> QED BY <1>5, <1>6, AsideInv

\* A run begins, with a version nobody has had.
LEMMA StartProbeRunInv ==
  ASSUME Inv, NEW s \in Scanners, StartProbeRun(s)
  PROVE  Inv'
  <1>1. CASE row.status \notin Reclaimable
    <2>1. scan' = [scan EXCEPT ![s].pc = "done"] /\ UNCHANGED <<row, quiet>>
      BY <1>1 DEF StartProbeRun
    <2>2. Typed'
      BY <2>1 DEF Inv, Typed, Scans, Places, StartProbeRun
    <2>3. Aside
      BY <2>1 DEF Inv, Typed, Rows, Scans, Aside, Running
    <2> QED BY <2>2, <2>3, AsideInv
  <1>2. CASE row.status \in Reclaimable
    <2>1. PICK v \in 0 .. MaxVersion : /\ v = row.version + 1
                                       /\ row' = [row EXCEPT !.version = v]
                                       /\ scan' = [scan EXCEPT ![s].pc = "probing", ![s].version = v,
                                            ![s].live = TRUE, ![s].run = "RUNNING", ![s].results = <<>>]
      BY <1>2, NextVersion DEF Inv, Typed, StartProbeRun
    <2> DEFINE r == [scan[s] EXCEPT !.pc = "probing", !.version = v, !.live = TRUE,
                                    !.run = "RUNNING", !.results = <<>>]
    <2>2. r \in Scans /\ r.pc = "probing" /\ r.version = v /\ r.results = <<>>
      BY NoResults DEF Inv, Typed, Scans, Places, Runs
    <2>3. scan' = [scan EXCEPT ![s] = r]
      BY <2>1 DEF Inv, Typed
    <2> HIDE DEF r
    <2>4. /\ scan' \in [Scanners -> Scans] /\ scan'[s] = r
          /\ \A t \in Scanners : t # s => scan'[t] = scan[t]
      BY <2>2, <2>3, ScanReplaced DEF Inv
    <2>5. row' \in Rows /\ row'.version = v
      BY <2>1 DEF Inv, Typed, Rows
    <2>6. Typed'
      BY <1>2, <2>4, <2>5 DEF Inv, Typed, StartProbeRun
    <2>7. /\ scan'[s].pc = "probing" /\ scan'[s].version = v /\ scan'[s].results = <<>>
          /\ \A t \in Scanners : t # s => scan'[t] = scan[t]
      BY <2>2, <2>4
    <2>8. \A t \in Scanners : scan[t].version \in Nat /\ scan[t].version < v
      BY <2>1 DEF Inv, Typed, Rows, Scans, OwnVersion
    <2>9. OwnVersion'
      BY <2>5, <2>7, <2>8 DEF Inv, OwnVersion, Running
    <2>10. AnswersCurrent'
      BY <2>5, <2>7, <2>8, NoResults DEF AnswersCurrent, Running
    <2> QED BY <2>6, <2>9, <2>10 DEF Inv
  <1> QED BY <1>1, <1>2

\* An answer: a FREE one in the version of the row is in quiet, too.
LEMMA ProbeInv ==
  ASSUME Inv, NEW s \in Scanners, NEW x \in Hosts \X Networks, NEW a \in Answers, Probe(s, x, a)
  PROVE  Inv'
  <1> DEFINE r == [y \in DOMAIN scan[s].results \cup {x} |->
                     IF y = x THEN Outcome(a) ELSE scan[s].results[y]]
  <1>1. scan' = [scan EXCEPT ![s].results = r]
    BY DEF Probe
  <1>2. Outcome(a) \in Outcomes /\ (Outcome(a) = "FREE" => a = "FREE")
    BY ReclaimAssumption DEF Outcome, Outcomes
  <1>3. r \in Results
    BY <1>2, OneMoreResult DEF Inv, Typed, Scans
  <1>4. \A y \in DOMAIN r : r[y] = "FREE" =>
              \/ y = x /\ a = "FREE"
              \/ y \in DOMAIN scan[s].results /\ scan[s].results[y] = "FREE"
    <2> SUFFICES ASSUME NEW y \in DOMAIN r, r[y] = "FREE"
                 PROVE  \/ y = x /\ a = "FREE"
                        \/ y \in DOMAIN scan[s].results /\ scan[s].results[y] = "FREE"
      OBVIOUS
    <2>1. y \in DOMAIN scan[s].results \cup {x}
      OBVIOUS
    <2>2. r[y] = IF y = x THEN Outcome(a) ELSE scan[s].results[y]
      BY <2>1
    <2> HIDE DEF r
    <2> QED BY <1>2, <2>1, <2>2
  <1> HIDE DEF r
  <1>5. scan' \in [Scanners -> Scans]
    BY <1>1, <1>3 DEF Inv, Typed, Scans
  <1>6. Typed'
    BY <1>5 DEF Inv, Typed, Probe
  <1>7. /\ scan'[s] = [scan[s] EXCEPT !.results = r]
        /\ \A t \in Scanners : t # s => scan'[t] = scan[t]
    BY <1>1 DEF Inv, Typed
  <1>8. /\ scan'[s].pc = scan[s].pc /\ scan'[s].version = scan[s].version
        /\ scan[s].pc = "probing" /\ scan'[s].results = r
    BY <1>7 DEF Inv, Typed, Scans, Probe
  <1>9. OwnVersion'
    BY <1>7, <1>8 DEF Inv, OwnVersion, Running, Probe
  <1>10. AnswersCurrent'
    <2> SUFFICES ASSUME NEW t \in Scanners, Running(t)', scan'[t].version = row'.version
                 PROVE  /\ \A y \in DOMAIN scan'[t].results : scan'[t].results[y] = "FREE" => y \in quiet'
                        /\ scan'[t].pc = "finalizing" /\ scan'[t].verdict = "FREE" =>
                              scan'[t].hosts # {} /\ Probes(t)' \subseteq quiet'
      BY DEF AnswersCurrent
    <2>1. quiet \subseteq quiet' /\ row' = row
      BY DEF Probe
    <2>2. CASE t # s
      BY <2>1, <2>2, <1>7 DEF Inv, AnswersCurrent, Running, Probes
    <2>3. CASE t = s
      <3>1. a = "FREE" => x \in quiet'
        BY <2>1, <2>3, <1>8 DEF Probe
      <3>2. \A y \in DOMAIN scan[s].results : scan[s].results[y] = "FREE" => y \in quiet
        BY <2>1, <2>3, <1>8 DEF Inv, AnswersCurrent, Running
      <3> QED BY <3>1, <3>2, <2>1, <2>3, <1>4, <1>8
    <2> QED BY <2>2, <2>3
  <1> QED BY <1>6, <1>9, <1>10 DEF Inv

\* What finalizeProbeRun has seen when it says FREE.
LEMMA FreeJudged ==
  ASSUME Inv, NEW s \in Scanners, scan[s].pc = "probing", Judge(s) = "FREE"
  PROVE  /\ ~drift /\ Managed = scan[s].hosts
         /\ scan[s].hosts # {} /\ Probes(s) \subseteq quiet
  <1> DEFINE outcomes == {scan[s].results[x] : x \in DOMAIN scan[s].results}
  <1>1. ValidSnapshot(s) /\ outcomes = {"FREE"}
    <2>1. Judge(s) = IF ~ValidSnapshot(s) THEN "STALE"
                     ELSE CASE outcomes = {"FREE"} -> "FREE"
                            [] "OCCUPIED" \in outcomes -> "OCCUPIED"
                            [] OTHER -> "KEEP"
      BY DEF Judge
    <2> HIDE DEF outcomes
    <2> QED BY <2>1
  <1>2. /\ ~drift /\ Managed = scan[s].hosts
        /\ row.version = scan[s].version /\ DOMAIN scan[s].results = Probes(s)
    BY <1>1 DEF ValidSnapshot
  <1>3. \A x \in Probes(s) : scan[s].results[x] = "FREE"
    BY <1>1, <1>2
  <1>4. Probes(s) \subseteq quiet
    BY <1>2, <1>3 DEF Inv, AnswersCurrent, Running
  <1>5. Probes(s) # {}
    BY <1>1, <1>2
  <1> QED BY <1>2, <1>4, <1>5 DEF Probes

\* The verdict: a FREE one rests on an answer from every host and network.
LEMMA FinalizeReadInv ==
  ASSUME Inv, NEW s \in Scanners, FinalizeRead(s)
  PROVE  Inv'
  <1>1. Judge(s) \in Verdicts
    BY DEF Judge, Verdicts
  <1>2. PICK v \in Verdicts : /\ v = Judge(s)
                              /\ scan' = [scan EXCEPT ![s].pc = "finalizing", ![s].verdict = v]
    BY <1>1 DEF FinalizeRead
  <1> DEFINE r == [scan[s] EXCEPT !.pc = "finalizing", !.verdict = v]
  <1>3. /\ r \in Scans /\ r.pc = "finalizing" /\ r.verdict = v
        /\ r.version = scan[s].version /\ r.results = scan[s].results /\ r.hosts = scan[s].hosts
    BY DEF Inv, Typed, Scans, Places
  <1>4. scan' = [scan EXCEPT ![s] = r]
    BY <1>2 DEF Inv, Typed
  <1> HIDE DEF r
  <1>5. /\ scan' \in [Scanners -> Scans] /\ scan'[s] = r
        /\ \A t \in Scanners : t # s => scan'[t] = scan[t]
    BY <1>3, <1>4, ScanReplaced DEF Inv
  <1>6. Typed'
    BY <1>5 DEF Inv, Typed, FinalizeRead
  <1>7. /\ scan[s].pc = "probing" /\ scan'[s].pc = "finalizing" /\ scan'[s].verdict = v
        /\ scan'[s].version = scan[s].version /\ scan'[s].results = scan[s].results
        /\ scan'[s].hosts = scan[s].hosts
        /\ \A t \in Scanners : t # s => scan'[t] = scan[t]
    BY <1>5, <1>3 DEF FinalizeRead
  <1>8. UNCHANGED <<row, quiet>>
    BY DEF FinalizeRead
  <1>9. OwnVersion'
    BY <1>7, <1>8 DEF Inv, OwnVersion, Running
  <1>10. AnswersCurrent'
    <2>1. UNCHANGED <<row, quiet>>
      BY <1>8
    <2>2. v = "FREE" => scan[s].hosts # {} /\ Probes(s) \subseteq quiet
      BY <1>2, <1>7, FreeJudged
    <2>3. \A t \in Scanners : Probes(t)' = Probes(t)
      BY <1>7 DEF Probes
    <2> QED BY <1>7, <2>1, <2>2, <2>3 DEF Inv, AnswersCurrent, Running
  <1> QED BY <1>6, <1>9, <1>10 DEF Inv

\* The verdict is written, or refused by the WHERE clause.
LEMMA FinalizeWriteInv ==
  ASSUME Inv, NEW s \in Scanners, FinalizeWrite(s)
  PROVE  Inv'
  <1>1. PICK r \in {"SUCCESS", "FAILED"} : scan' = [scan EXCEPT ![s].pc = "done", ![s].run = r]
    BY DEF FinalizeWrite
  <1> DEFINE q == [scan[s] EXCEPT !.pc = "done", !.run = r]
  <1>2. q \in Scans /\ q.pc = "done" /\ q.version = scan[s].version
    BY DEF Inv, Typed, Scans, Places, Runs
  <1>3. scan' = [scan EXCEPT ![s] = q]
    BY <1>1 DEF Inv, Typed
  <1> HIDE DEF q
  <1>4. /\ scan' \in [Scanners -> Scans] /\ scan'[s] = q
        /\ \A t \in Scanners : t # s => scan'[t] = scan[t]
    BY <1>2, <1>3, ScanReplaced DEF Inv
  <1>5. row' \in Rows /\ row.version <= row'.version
    <2>1. row \in Rows
      BY DEF Inv, Typed
    <2>2. PICK d \in BOOLEAN : row' = row \/
            (row.version < MaxVersion /\ row' = [status |-> NextStatus(scan[s].verdict),
                                                 version |-> row.version + 1, due |-> d])
      BY DEF FinalizeWrite
    <2>3. NextStatus(scan[s].verdict) \in {"HELD", "FREE"} \cup Reclaimable
      BY <2>1 DEF NextStatus, Rows, Reclaimable
    <2> QED BY <2>1, <2>2, <2>3, NextVersion DEF Rows
  <1>6. Typed'
    BY <1>4, <1>5 DEF Inv, Typed, FinalizeWrite
  <1>7. Aside
    BY <1>4, <1>5, <1>2 DEF Inv, Typed, Rows, Aside, Running, FinalizeWrite
  <1> QED BY <1>6, <1>7, AsideInv

\* The finally block.
LEMMA ReleaseLeaseInv ==
  ASSUME Inv, NEW s \in Scanners, ReleaseLease(s)
  PROVE  Inv'
  <1>1. scan' \in [Scanners -> Scans]
    BY DEF Inv, Typed, Scans, Places, ReleaseLease
  <1>2. row' \in Rows
    BY DEF Inv, Typed, ReleaseLease
  <1>3. Typed'
    BY <1>1, <1>2, ReclaimAssumption DEF Inv, Typed, Leases, ReleaseLease
  <1>4. Aside
    BY DEF Inv, Typed, Aside, Running, Rows, Scans, ReleaseLease
  <1> QED BY <1>3, <1>4, AsideInv

\* A database error.
LEMMA FailInv ==
  ASSUME Inv, NEW s \in Scanners, Fail(s)
  PROVE  Inv'
  <1>1. PICK r \in Runs : scan' = [scan EXCEPT ![s].pc = "done", ![s].run = r]
    BY DEF Inv, Typed, Scans, Runs, Fail
  <1> DEFINE q == [scan[s] EXCEPT !.pc = "done", !.run = r]
  <1>2. q \in Scans /\ q.pc = "done" /\ q.version = scan[s].version
    BY DEF Inv, Typed, Scans, Places
  <1>3. scan' = [scan EXCEPT ![s] = q]
    BY <1>1 DEF Inv, Typed
  <1> HIDE DEF q
  <1>4. /\ scan' \in [Scanners -> Scans] /\ scan'[s] = q
        /\ \A t \in Scanners : t # s => scan'[t] = scan[t]
    BY <1>2, <1>3, ScanReplaced DEF Inv
  <1>5. churn' \in 0 .. MaxChurn
    BY ChurnLeft DEF Inv, Fail
  <1>6. Typed'
    BY <1>4, <1>5 DEF Inv, Typed, Fail
  <1>7. Aside
    BY <1>4, <1>2 DEF Inv, Typed, Rows, Aside, Running, Fail
  <1> QED BY <1>6, <1>7, AsideInv

\* The panel process dies.
LEMMA CrashInv ==
  ASSUME Inv, NEW s \in Scanners, Crash(s)
  PROVE  Inv'
  <1>1. scan' \in [Scanners -> Scans]
    BY DEF Inv, Typed, Scans, Places, Crash
  <1>2. row' \in Rows
    BY DEF Inv, Typed, Crash
  <1>3. churn' \in 0 .. MaxChurn
    BY ChurnLeft DEF Inv, Crash
  <1>4. Typed'
    BY <1>1, <1>2, <1>3 DEF Inv, Typed, Crash
  <1>5. Aside
    BY DEF Inv, Typed, Aside, Running, Rows, Scans, Crash
  <1> QED BY <1>4, <1>5, AsideInv

\* The run expires.
LEMMA RunExpiresInv ==
  ASSUME Inv, NEW s \in Scanners, RunExpires(s)
  PROVE  Inv'
  <1>1. scan' \in [Scanners -> Scans]
    BY DEF Inv, Typed, Scans, RunExpires
  <1>2. row' \in Rows
    BY DEF Inv, Typed, RunExpires
  <1>3. churn' \in 0 .. MaxChurn
    BY ChurnLeft DEF Inv, RunExpires
  <1>4. Typed'
    BY <1>1, <1>2, <1>3 DEF Inv, Typed, RunExpires
  <1>5. Aside
    BY DEF Inv, Typed, Aside, Running, Rows, Scans, RunExpires
  <1> QED BY <1>4, <1>5, AsideInv

\* The lease expires.
LEMMA LeaseExpiresInv ==
  ASSUME Inv, LeaseExpires
  PROVE  Inv'
  <1>1. lease' \in Leases
    BY DEF Inv, Typed, Leases, LeaseExpires
  <1>2. churn' \in 0 .. MaxChurn
    BY ChurnLeft DEF Inv, LeaseExpires
  <1>3. Typed'
    BY <1>1, <1>2 DEF Inv, Typed, LeaseExpires
  <1>4. Aside
    BY DEF Inv, Typed, Rows, Aside, Running, LeaseExpires
  <1> QED BY <1>3, <1>4, AsideInv

\* Twelve hours pass.
LEMMA IntervalPassesInv ==
  ASSUME Inv, IntervalPasses
  PROVE  Inv'
  <1>1. lease' \in Leases
    BY DEF Inv, Typed, Leases, IntervalPasses
  <1>2. scan' \in [Scanners -> Scans]
    BY DEF Inv, Typed, Scans, IntervalPasses
  <1>3. churn' \in 0 .. MaxChurn
    <2>1. CASE \E s \in Scanners : scan[s].pc # "idle"
      <3>1. churn > 0 /\ churn' = churn - 1
        BY <2>1 DEF IntervalPasses
      <3> QED BY <3>1, ChurnLeft DEF Inv
    <2>2. CASE ~\E s \in Scanners : scan[s].pc # "idle"
      BY <2>2 DEF Inv, Typed, IntervalPasses
    <2> QED BY <2>1, <2>2
  <1>4. Typed'
    BY <1>1, <1>2, <1>3 DEF Inv, Typed, IntervalPasses
  <1>5. Aside
    BY DEF Inv, Typed, Rows, Scans, Aside, Running, IntervalPasses
  <1> QED BY <1>4, <1>5, AsideInv

\* scanNotBefore passes.
LEMMA DelayPassesInv ==
  ASSUME Inv, DelayPasses
  PROVE  Inv'
  <1>1. scan' \in [Scanners -> Scans]
    BY DEF Inv, Typed, Scans, Places, DelayPasses
  <1>2. row' \in Rows
    BY DEF Inv, Typed, Rows, DelayPasses
  <1>3. Typed'
    BY <1>1, <1>2 DEF Inv, Typed, DelayPasses
  <1>4. Aside
    BY DEF Inv, Typed, Aside, Running, Rows, Scans, DelayPasses
  <1> QED BY <1>3, <1>4, AsideInv

\* The port is given up: a new tenancy.
LEMMA GiveUpInv ==
  ASSUME Inv, GiveUp
  PROVE  Inv'
  <1>1. scan' \in [Scanners -> Scans]
    BY DEF Inv, Typed, Scans, Places, GiveUp
  <1>2. row' \in Rows
    BY ReclaimAssumption DEF Inv, Typed, Rows, Reclaimable, GiveUp
  <1>3. Typed'
    BY <1>1, <1>2 DEF Inv, Typed, GiveUp
  <1>4. Aside
    BY DEF Inv, Typed, Aside, Running, Rows, Scans, GiveUp
  <1> QED BY <1>3, <1>4, AsideInv

\* The port is reserved.
LEMMA ClaimInv ==
  ASSUME Inv, Claim
  PROVE  Inv'
  <1>1. row' \in Rows /\ row.version < row'.version
    <2>1. row \in Rows
      BY DEF Inv, Typed
    <2>2. PICK v \in 0 .. MaxVersion : /\ v = row.version + 1
                                       /\ row' = [row EXCEPT !.status = "HELD", !.version = v]
      BY <2>1, NextVersion DEF Claim
    <2>3. row' \in Rows /\ row'.version = v
      BY <2>1, <2>2 DEF Rows
    <2> QED BY <2>1, <2>2, <2>3 DEF Rows
  <1>2. churn' \in 0 .. MaxChurn
    BY ChurnLeft DEF Inv, Claim
  <1>3. Typed'
    BY <1>1, <1>2 DEF Inv, Typed, Claim
  <1>4. Aside
    BY <1>1 DEF Inv, Typed, Rows, Aside, Running, Claim
  <1> QED BY <1>3, <1>4, AsideInv

\* A host comes or goes.
LEMMA HostChangeInv ==
  ASSUME Inv, NEW h \in Hosts, HostChange(h)
  PROVE  Inv'
  <1>1. scan' \in [Scanners -> Scans]
    BY DEF Inv, Typed, Scans, Places, HostChange
  <1>2. row' \in Rows
    BY DEF Inv, Typed, HostChange
  <1>3. churn' \in 0 .. MaxChurn
    BY ChurnLeft DEF Inv, HostChange
  <1>4. Typed'
    BY <1>1, <1>2, <1>3 DEF Inv, Typed, HostChange
  <1>5. Aside
    BY DEF Inv, Typed, Aside, Running, Rows, Scans, HostChange
  <1> QED BY <1>4, <1>5, AsideInv

\* A listener row comes or goes.
LEMMA DriftChangeInv ==
  ASSUME Inv, DriftChange
  PROVE  Inv'
  <1>1. scan' \in [Scanners -> Scans]
    BY DEF Inv, Typed, Scans, Places, DriftChange
  <1>2. row' \in Rows
    BY DEF Inv, Typed, DriftChange
  <1>3. churn' \in 0 .. MaxChurn
    BY ChurnLeft DEF Inv, DriftChange
  <1>4. Typed'
    BY <1>1, <1>2, <1>3 DEF Inv, Typed, DriftChange
  <1>5. Aside
    BY DEF Inv, Typed, Aside, Running, Rows, Scans, DriftChange
  <1> QED BY <1>4, <1>5, AsideInv

-----------------------------------------------------------------------------
(* The theorems. *)

LEMMA InitInv == Init => Inv
  <1> SUFFICES ASSUME Init PROVE Inv
    OBVIOUS
  <1>1. NoScan \in Scans
    BY NoResults, ReclaimAssumption DEF NoScan, Scans, Places, Runs, Verdicts
  <1>2. scan \in [Scanners -> Scans]
    BY <1>1 DEF Init
  <1>3. row \in Rows /\ lease \in Leases
    BY ReclaimAssumption DEF Init, Rows, Leases
  <1>4. churn \in 0 .. MaxChurn
    BY ReclaimAssumption DEF Init
  <1>5. Typed
    BY <1>2, <1>3, <1>4 DEF Init, Typed
  <1>6. \A s \in Scanners : scan[s].version = 0 /\ ~Running(s)
    BY DEF Init, NoScan, Running
  <1> QED BY <1>5, <1>6 DEF Inv, OwnVersion, AnswersCurrent, Init

LEMMA NextInv == Inv /\ [Next]_vars => Inv'
  <1> SUFFICES ASSUME Inv, [Next]_vars PROVE Inv'
    OBVIOUS
  <1>1. ASSUME NEW s \in Scanners, ScanStep(s) PROVE Inv'
    BY <1>1, AcquireLeaseInv, SelectCandidateInv, CheckDriftInv, ReadCohortInv, StartProbeRunInv,
       ProbeInv, FinalizeReadInv, FinalizeWriteInv, ReleaseLeaseInv DEF ScanStep
  <1>2. ASSUME NEW s \in Scanners, Fail(s) \/ Crash(s) \/ RunExpires(s) PROVE Inv'
    BY <1>2, FailInv, CrashInv, RunExpiresInv
  <1>3. CASE LeaseExpires \/ IntervalPasses \/ DelayPasses \/ GiveUp \/ Claim \/ DriftChange
    BY <1>3, LeaseExpiresInv, IntervalPassesInv, DelayPassesInv, GiveUpInv, ClaimInv, DriftChangeInv
  <1>4. CASE \E h \in Hosts : HostChange(h)
    BY <1>4, HostChangeInv
  <1>5. CASE UNCHANGED vars
    <2>1. Typed'
      BY <1>5 DEF vars, Inv, Typed
    <2>2. Aside
      BY <1>5 DEF vars, Inv, Typed, Rows, Aside, Running
    <2> QED BY <2>1, <2>2, AsideInv
  <1> QED BY <1>1, <1>2, <1>3, <1>4, <1>5 DEF Next

\* Runs have versions of their own, and answers that match the row's version
\* are of the current tenancy.
THEOREM ReclaimInvariance == Spec => []Inv
  <1> QED BY InitInv, NextInv, PTL DEF Spec

\* At most one scan holds a verdict that the UPDATE of finalizeProbeRun would
\* still apply, however many stalled scans there are.
THEOREM VerdictsExclude == Spec => []OneApplicableVerdict
  <1>1. Inv => OneApplicableVerdict
    BY TypedOK DEF Inv, OneApplicableVerdict, Applicable, StillMine, OwnVersion, Running
  <1> QED BY <1>1, ReclaimInvariance, PTL

\* finalizeProbeRun says FREE only if there are managed hosts and each has
\* said so on every network to the run the row belongs to.
THEOREM FreeIsJustified == Spec => FreeVerdictJustified
  <1>1. Inv /\ [Next]_vars =>
          [\A s \in Scanners :
             (scan[s].pc = "probing" /\ scan'[s].pc = "finalizing" /\ scan'[s].verdict = "FREE")
                => /\ Managed # {}
                   /\ Managed \X Networks \subseteq quiet
                   /\ ~drift]_vars
    <2> SUFFICES ASSUME Inv, Next, NEW s \in Scanners, scan[s].pc = "probing",
                        scan'[s].pc = "finalizing", scan'[s].verdict = "FREE"
                 PROVE  Managed # {} /\ Managed \X Networks \subseteq quiet /\ ~drift
      OBVIOUS
    <2>1. FinalizeRead(s)
      <3>1. ASSUME NEW t \in Scanners, ScanStep(t) PROVE FinalizeRead(s)
        <4>1. scan \in [Scanners -> Scans]
          BY DEF Inv, Typed
        <4>2. CASE AcquireLease(t) \/ SelectCandidate(t) \/ CheckDrift(t) \/ ReleaseLease(t)
          <5>1. PICK place \in Places \ {"finalizing"} : scan' = [scan EXCEPT ![t].pc = place]
            BY <4>2 DEF AcquireLease, SelectCandidate, CheckDrift, ReleaseLease, Places
          <5> QED BY <4>1, <5>1 DEF Scans
        <4>3. CASE ReadCohort(t)
          BY <4>1, <4>3 DEF Scans, ReadCohort
        <4>4. CASE StartProbeRun(t)
          BY <4>1, <4>4 DEF Scans, StartProbeRun
        <4>5. ASSUME NEW x \in Hosts \X Networks, NEW a \in Answers, Probe(t, x, a) PROVE FALSE
          <5>1. \E q : scan' = [scan EXCEPT ![t].results = q]
            BY <4>5 DEF Probe
          <5> QED BY <4>1, <5>1 DEF Scans
        <4>6. CASE FinalizeRead(t)
          BY <4>1, <4>6 DEF FinalizeRead
        <4>7. CASE FinalizeWrite(t)
          <5>1. \E q : scan' = [scan EXCEPT ![t].pc = "done", ![t].run = q]
            BY <4>7 DEF FinalizeWrite
          <5> QED BY <4>1, <5>1 DEF Scans
        <4> QED BY <3>1, <4>2, <4>3, <4>4, <4>5, <4>6, <4>7 DEF ScanStep
      <3>2. ASSUME NEW t \in Scanners, Fail(t) \/ Crash(t) \/ RunExpires(t) PROVE FALSE
        BY <3>2 DEF Inv, Typed, Scans, Fail, Crash, RunExpires
      <3>3. CASE IntervalPasses
        BY <3>3 DEF Inv, Typed, Scans, IntervalPasses
      <3>4. CASE UNCHANGED scan
        BY <3>4
      <3>5. \/ \E t \in Scanners : ScanStep(t) \/ Fail(t) \/ Crash(t) \/ RunExpires(t)
            \/ IntervalPasses \/ UNCHANGED scan
        BY DEF Next, LeaseExpires, DelayPasses, GiveUp, Claim, HostChange, DriftChange
      <3> QED BY <3>1, <3>2, <3>3, <3>4, <3>5
    <2>2. Judge(s) = "FREE"
      BY <2>1 DEF Inv, Typed, Scans, FinalizeRead
    <2> QED BY <2>2, FreeJudged DEF Probes
  <1> QED BY <1>1, ReclaimInvariance, PTL DEF Spec, FreeVerdictJustified

\* The row becomes FREE only by a verdict about the current tenancy.
THEOREM FreedIsCurrent == Spec => FreedOnCurrentAnswers
  <1>1. Inv /\ [Next]_vars =>
          [(row.status # "FREE" /\ row'.status = "FREE")
             => \E s \in Scanners : /\ scan[s].pc = "finalizing"
                                    /\ scan[s].hosts # {}
                                    /\ Probes(s) \subseteq quiet]_vars
    <2> SUFFICES ASSUME Inv, Next, row.status # "FREE", row'.status = "FREE"
                 PROVE  \E s \in Scanners : /\ scan[s].pc = "finalizing"
                                            /\ scan[s].hosts # {}
                                            /\ Probes(s) \subseteq quiet
      OBVIOUS
    <2>1. PICK s \in Scanners : FinalizeWrite(s)
      <3>1. ASSUME NEW t \in Scanners, ScanStep(t) PROVE FinalizeWrite(t)
        BY <3>1 DEF Inv, Typed, Rows, ScanStep, AcquireLease, SelectCandidate, CheckDrift, ReadCohort,
           StartProbeRun, Probe, FinalizeRead, ReleaseLease
      <3>2. ASSUME NEW t \in Scanners, Fail(t) \/ Crash(t) \/ RunExpires(t) PROVE FALSE
        BY <3>2 DEF Fail, Crash, RunExpires
      <3>3. CASE LeaseExpires \/ IntervalPasses \/ DelayPasses \/ GiveUp \/ Claim \/ DriftChange
        BY <3>3 DEF Inv, Typed, Rows, LeaseExpires, IntervalPasses, DelayPasses, GiveUp, Claim, DriftChange
      <3>4. CASE \E h \in Hosts : HostChange(h)
        BY <3>4 DEF HostChange
      <3> QED BY <3>1, <3>2, <3>3, <3>4 DEF Next
    <2>2. scan[s].pc = "finalizing" /\ scan[s].verdict = "FREE" /\ scan[s].version = row.version
      BY <2>1 DEF FinalizeWrite, StillMine, NextStatus
    <2> QED BY <2>2 DEF Inv, AnswersCurrent, Running
  <1> QED BY <1>1, ReclaimInvariance, PTL DEF Spec, FreedOnCurrentAnswers

==============================================================================
