-------------------------- MODULE GlobalPortReclaim --------------------------
(***************************************************************************)
(* The reclaim scan of one given-up port (server/globalPortReclaimService  *)
(* .ts): under a database lease, probe the port on every managed host and  *)
(* make its ledger row FREE when all of them answer that it is free.       *)
(*                                                                         *)
(* Several panel processes may run a scan; each may crash or stall between *)
(* any two of its statements, while the ledger, the host list and the      *)
(* listener tables change.  The status HELD stands for RESERVED, ACTIVE    *)
(* and RELEASING, of which module GlobalPortLedger has the detail; by its  *)
(* invariant ReferencesCovered only such a row has references.             *)
(***************************************************************************)
EXTENDS Naturals, FiniteSets

CONSTANTS
    Hosts,              \* every host id that is ever managed
    Networks,           \* the networks a host is probed on
    Scanners,           \* panel processes
    Answers,            \* what a probe of a host may come back with
    LedgerBlocksProbe,  \* createXrayPortProbeOperation consults the ledger,
                        \* as in the code; FALSE: any probe service
    MaxVersion,         \* bound on the version of the row
    MaxChurn,           \* bound on crashes, expiries and outside changes
    None

ASSUME ReclaimAssumption ==
    /\ LedgerBlocksProbe \in BOOLEAN
    /\ Answers \subseteq {"FREE", "OCCUPIED", "OFFLINE", "UNSUPPORTED", "ERROR", "EXPIRED"}
    /\ MaxVersion \in Nat \ {0, 1} /\ MaxChurn \in Nat
    /\ None \notin Scanners

VARIABLES
    row,       \* the ledger row: status, version, due (scanNotBefore passed)
    hosts,     \* hosts[h]: "unknown", "managed" or "removed" (ids are not reused)
    drift,     \* an inbound or a rule names the port without a reference
    lease,     \* owner, live (leaseUntil ahead), cooled (lastStartedAt 12h ago)
    scan,      \* scan[s]: the scan process s is in
    quiet,     \* history: probes (host, network) that came back FREE in the run
               \* the version of the row belongs to
    heard,     \* history: a host has answered OCCUPIED since the port was given up
    churn      \* crashes, expiries and outside changes left

vars == <<row, hosts, drift, lease, scan, quiet, heard, churn>>

Reclaimable == {"PENDING_SCAN", "EXTERNAL_OCCUPIED"}
Verdicts == {"FREE", "OCCUPIED", "KEEP", "STALE"}

Managed == {h \in Hosts : hosts[h] = "managed"}

\* live: neither the run nor its results have expired.
NoScan == [pc |-> "idle", hosts |-> {}, version |-> 0, live |-> FALSE,
           run |-> "none", results |-> <<>>, verdict |-> "STALE"]

Init ==
    /\ row = [status |-> "HELD", version |-> 2, due |-> FALSE]
    /\ hosts \in [Hosts -> {"unknown", "managed"}]
    /\ drift = FALSE
    /\ lease = [owner |-> None, live |-> FALSE, cooled |-> TRUE]
    /\ scan = [s \in Scanners |-> NoScan]
    /\ quiet = {}
    /\ heard = FALSE
    /\ churn = MaxChurn

-----------------------------------------------------------------------------
(* runGlobalPortReclaimScan.                                               *)

\* Mutant: only a lease that was given back is taken.
AcquireLeaseOnlyReleased(s) ==
    /\ scan[s].pc = "idle"
    /\ lease.owner = None
    /\ lease.cooled
    /\ lease' = [owner |-> s, live |-> TRUE, cooled |-> FALSE]
    /\ scan' = [scan EXCEPT ![s].pc = "leased"]
    /\ UNCHANGED <<row, hosts, drift, quiet, heard, churn>>

\* acquireLease: nobody holds it and the last scan started 12 hours ago.
AcquireLease(s) ==
    /\ scan[s].pc = "idle"
    /\ ~lease.live
    /\ lease.cooled
    /\ lease' = [owner |-> s, live |-> TRUE, cooled |-> FALSE]
    /\ scan' = [scan EXCEPT ![s].pc = "leased"]
    /\ UNCHANGED <<row, hosts, drift, quiet, heard, churn>>

\* eligibleAllocations: a row that may be scanned, or nothing to do.
SelectCandidate(s) ==
    /\ scan[s].pc = "leased"
    /\ scan' = [scan EXCEPT ![s].pc = IF row.status \in Reclaimable /\ row.due
                                      THEN "candidate" ELSE "done"]
    /\ UNCHANGED <<row, hosts, drift, lease, quiet, heard, churn>>

\* hasListenerDrift and markDriftDeferred.
CheckDrift(s) ==
    /\ scan[s].pc = "candidate"
    /\ scan' = [scan EXCEPT ![s].pc = IF drift THEN "done" ELSE "checked"]
    /\ IF drift /\ row.status \in Reclaimable
       THEN /\ row.version < MaxVersion
            /\ row' = [row EXCEPT !.version = @ + 1, !.due = FALSE]
       ELSE UNCHANGED row
    /\ UNCHANGED <<hosts, drift, lease, quiet, heard, churn>>

\* managedHosts: the cohort of the run, read before the run exists.
ReadCohort(s) ==
    /\ scan[s].pc = "checked"
    /\ scan' = [scan EXCEPT ![s].pc = "cohort", ![s].hosts = Managed]
    /\ UNCHANGED <<row, hosts, drift, lease, quiet, heard, churn>>

\* startProbeRun: the run gets a version of the row of its own.
StartProbeRun(s) ==
    /\ scan[s].pc = "cohort"
    /\ IF row.status \in Reclaimable
       THEN /\ row.version < MaxVersion
            /\ row' = [row EXCEPT !.version = @ + 1]
            /\ scan' = [scan EXCEPT ![s].pc = "probing", ![s].version = row.version + 1,
                                    ![s].live = TRUE, ![s].run = "RUNNING",
                                    ![s].results = <<>>]
            /\ quiet' = {}
       ELSE /\ scan' = [scan EXCEPT ![s].pc = "done"]
            /\ UNCHANGED <<row, quiet>>
    /\ UNCHANGED <<hosts, drift, lease, heard, churn>>

Probes(s) == scan[s].hosts \X Networks

\* createXrayPortProbeOperation, as probeOne calls it.  A host that is
\* offline, incapable or overloaded is refused first; then a port whose
\* ledger row is not FREE counts as used, and no host is asked.
Outcome(a) ==
    IF LedgerBlocksProbe /\ row.status # "FREE" /\ a \in {"FREE", "OCCUPIED", "EXPIRED"}
    THEN "OCCUPIED"
    ELSE a

\* probeHostsBounded: the probes come back in any order.
Probe(s, x, a) ==
    /\ scan[s].pc = "probing"
    /\ x \in Probes(s) \ DOMAIN scan[s].results
    /\ scan' = [scan EXCEPT ![s].results = [y \in DOMAIN @ \cup {x} |->
                                IF y = x THEN Outcome(a) ELSE @[y]]]
    /\ quiet' = IF a = "FREE" /\ row.version = scan[s].version
                THEN quiet \cup {x} ELSE quiet
    /\ heard' = (heard \/ a = "OCCUPIED")
    /\ UNCHANGED <<row, hosts, drift, lease, churn>>

\* Mutant: the cohort of the run is not compared with the current hosts.
ValidSnapshotAnyCohort(s) ==
    /\ scan[s].run = "RUNNING"
    /\ row.version = scan[s].version
    /\ row.status \in Reclaimable
    /\ ~drift
    /\ DOMAIN scan[s].results = Probes(s)
    /\ scan[s].live
    /\ lease.owner = s /\ lease.live

\* finalizeProbeRun up to its UPDATE: everything is read again.
ValidSnapshot(s) ==
    /\ scan[s].run = "RUNNING"
    /\ row.version = scan[s].version
    /\ row.status \in Reclaimable
    /\ ~drift
    /\ Managed = scan[s].hosts
    /\ DOMAIN scan[s].results = Probes(s)
    /\ scan[s].live
    /\ lease.owner = s /\ lease.live

Judge(s) ==
    LET outcomes == {scan[s].results[x] : x \in DOMAIN scan[s].results} IN
    IF ~ValidSnapshot(s) THEN "STALE"
    ELSE CASE outcomes = {"FREE"} -> "FREE"
           [] "OCCUPIED" \in outcomes -> "OCCUPIED"
           [] OTHER -> "KEEP"

FinalizeRead(s) ==
    /\ scan[s].pc = "probing"
    /\ DOMAIN scan[s].results = Probes(s)
    /\ scan' = [scan EXCEPT ![s].pc = "finalizing", ![s].verdict = Judge(s)]
    /\ UNCHANGED <<row, hosts, drift, lease, quiet, heard, churn>>

\* Mutant: the WHERE clause names the status only.
StillReclaimable(s) == scan[s].pc = "finalizing" /\ row.status \in Reclaimable

\* The WHERE clause of the UPDATE.
StillMine(s) == row.version = scan[s].version /\ row.status \in Reclaimable

NextStatus(verdict) ==
    CASE verdict = "FREE" -> "FREE"
      [] verdict = "OCCUPIED" -> "EXTERNAL_OCCUPIED"
      [] OTHER -> row.status

\* Mutant: a verdict is applied to whatever tenancy the row is in by now.
FinalizeWriteAnyVersion(s) ==
    LET v == scan[s].verdict IN
    /\ scan[s].pc = "finalizing"
    /\ row.version < MaxVersion
    /\ row' = IF v # "STALE" /\ row.status \in Reclaimable
              THEN [status |-> NextStatus(v), version |-> row.version + 1, due |-> v = "FREE"]
              ELSE row
    /\ scan' = [scan EXCEPT ![s].pc = "done", ![s].run = "SUCCESS"]
    /\ UNCHANGED <<hosts, drift, lease, quiet, heard, churn>>

FinalizeWrite(s) ==
    LET v == scan[s].verdict
        applied == v # "STALE" /\ StillMine(s)
    IN
    /\ scan[s].pc = "finalizing"
    /\ IF applied
       THEN /\ row.version < MaxVersion
            /\ row' = [status |-> NextStatus(v), version |-> row.version + 1, due |-> v = "FREE"]
       ELSE UNCHANGED row
    /\ scan' = [scan EXCEPT ![s].pc = "done",
                            ![s].run = IF applied /\ v \in {"FREE", "OCCUPIED"}
                                       THEN "SUCCESS" ELSE "FAILED"]
    /\ UNCHANGED <<hosts, drift, lease, quiet, heard, churn>>

\* releaseLease in the finally block: only a lease that is still one's own.
ReleaseLease(s) ==
    /\ scan[s].pc = "done"
    /\ scan' = [scan EXCEPT ![s].pc = "idle"]
    /\ lease' = IF lease.owner = s THEN [lease EXCEPT !.owner = None, !.live = FALSE] ELSE lease
    /\ UNCHANGED <<row, hosts, drift, quiet, heard, churn>>

-----------------------------------------------------------------------------
(* What goes on around the scan.                                           *)

\* A database error.  failRun closes the run, but the promise of the final
\* transaction is returned, not awaited: its rejection leaves the run RUNNING.
Fail(s) ==
    /\ churn > 0 /\ churn' = churn - 1
    /\ scan[s].pc \in {"probing", "finalizing"}
    /\ scan' = [scan EXCEPT ![s].pc = "done",
                            ![s].run = IF scan[s].pc = "probing" THEN "FAILED" ELSE @]
    /\ UNCHANGED <<row, hosts, drift, lease, quiet, heard>>

\* The panel process dies: the lease and the run stay as they are.
Crash(s) ==
    /\ churn > 0 /\ churn' = churn - 1
    /\ scan[s].pc # "idle"
    /\ scan' = [scan EXCEPT ![s].pc = "idle"]
    /\ UNCHANGED <<row, hosts, drift, lease, quiet, heard>>

LeaseExpires ==
    /\ churn > 0 /\ churn' = churn - 1
    /\ lease.live
    /\ lease' = [lease EXCEPT !.live = FALSE]
    /\ UNCHANGED <<row, hosts, drift, scan, quiet, heard>>

RunExpires(s) ==
    /\ churn > 0 /\ churn' = churn - 1
    /\ scan[s].live
    /\ scan' = [scan EXCEPT ![s].live = FALSE]
    /\ UNCHANGED <<row, hosts, drift, lease, quiet, heard>>

\* Twelve hours after the last start every lease and every run has expired.
IntervalPasses ==
    /\ ~lease.cooled
    /\ \A s \in Scanners : scan[s].pc # "idle" => churn > 0
    /\ lease' = [lease EXCEPT !.live = FALSE, !.cooled = TRUE]
    /\ scan' = [s \in Scanners |-> [scan[s] EXCEPT !.live = FALSE]]
    /\ churn' = IF \E s \in Scanners : scan[s].pc # "idle" THEN churn - 1 ELSE churn
    /\ UNCHANGED <<row, hosts, drift, quiet, heard>>

\* The clock passes scanNotBefore.
DelayPasses ==
    /\ row.status \in Reclaimable
    /\ ~row.due
    /\ row' = [row EXCEPT !.due = TRUE]
    /\ UNCHANGED <<hosts, drift, lease, scan, quiet, heard, churn>>

\* The owner gives the port up: confirmGlobalPortReferenceReleased.
GiveUp ==
    /\ row.status = "HELD"
    /\ row.version < MaxVersion
    /\ row' = [status |-> "PENDING_SCAN", version |-> row.version + 1, due |-> FALSE]
    /\ quiet' = {}
    /\ heard' = FALSE
    /\ UNCHANGED <<hosts, drift, lease, scan, churn>>

\* Somebody reserves the freed port: reserveGlobalPortAllocation.
Claim ==
    /\ churn > 0 /\ churn' = churn - 1
    /\ row.status = "FREE"
    /\ row.version < MaxVersion
    /\ row' = [row EXCEPT !.status = "HELD", !.version = @ + 1]
    /\ UNCHANGED <<hosts, drift, lease, scan, quiet, heard>>

\* A host is enrolled or deleted.
HostChange(h) ==
    /\ churn > 0 /\ churn' = churn - 1
    /\ \/ hosts[h] = "unknown" /\ hosts' = [hosts EXCEPT ![h] = "managed"]
       \/ hosts[h] = "managed" /\ hosts' = [hosts EXCEPT ![h] = "removed"]
    /\ UNCHANGED <<row, drift, lease, scan, quiet, heard>>

\* A listener row appears for the port, or is removed.
DriftChange ==
    /\ churn > 0 /\ churn' = churn - 1
    /\ drift' = ~drift
    /\ UNCHANGED <<row, hosts, lease, scan, quiet, heard>>

ScanStep(s) ==
    \/ AcquireLease(s)
    \/ SelectCandidate(s)
    \/ CheckDrift(s)
    \/ ReadCohort(s)
    \/ StartProbeRun(s)
    \/ \E x \in Hosts \X Networks, a \in Answers : Probe(s, x, a)
    \/ FinalizeRead(s)
    \/ FinalizeWrite(s)
    \/ ReleaseLease(s)

Next ==
    \/ \E s \in Scanners : ScanStep(s) \/ Fail(s) \/ Crash(s) \/ RunExpires(s)
    \/ LeaseExpires
    \/ IntervalPasses
    \/ DelayPasses
    \/ GiveUp
    \/ Claim
    \/ \E h \in Hosts : HostChange(h)
    \/ DriftChange

\* The scheduler keeps starting scans, a running scan goes on and time passes.
Fairness ==
    /\ \A s \in Scanners : WF_vars(ScanStep(s))
    /\ WF_vars(IntervalPasses)
    /\ WF_vars(DelayPasses)

Spec == Init /\ [][Next]_vars /\ Fairness

-----------------------------------------------------------------------------
(* Properties.                                                             *)

TypeOK ==
    /\ row \in [status: {"HELD", "FREE"} \cup Reclaimable, version: 0 .. MaxVersion, due: BOOLEAN]
    /\ hosts \in [Hosts -> {"unknown", "managed", "removed"}]
    /\ drift \in BOOLEAN /\ heard \in BOOLEAN /\ churn \in 0 .. MaxChurn
    /\ lease \in [owner: Scanners \cup {None}, live: BOOLEAN, cooled: BOOLEAN]
    /\ quiet \subseteq Hosts \X Networks
    /\ \A s \in Scanners :
          /\ scan[s].hosts \subseteq Hosts
          /\ DOMAIN scan[s].results \subseteq Hosts \X Networks
          /\ scan[s].verdict \in Verdicts
          /\ scan[s].run \in {"none", "RUNNING", "SUCCESS", "FAILED"}

\* When finalizeProbeRun decides that the port is free, there are managed
\* hosts, and every one of them has said so on every network to the run the
\* row belongs to: a host enrolled during the run, another scan that took over
\* or a listener row that turned up defer the verdict.
FreeVerdictJustified ==
    [][\A s \in Scanners :
          (scan[s].pc = "probing" /\ scan'[s].pc = "finalizing" /\ scan'[s].verdict = "FREE")
             => /\ Managed # {}
                /\ Managed \X Networks \subseteq quiet
                /\ ~drift]_vars

\* When the row does become FREE, that verdict is about the current tenancy:
\* a port that was claimed and given up again while a scan stalled is never
\* freed on the answers from before.
FreedOnCurrentAnswers ==
    [][(row.status # "FREE" /\ row'.status = "FREE")
          => \E s \in Scanners : /\ scan[s].pc = "finalizing"
                                 /\ scan[s].hosts # {}
                                 /\ Probes(s) \subseteq quiet]_vars

\* Two scans never hold applicable verdicts about the port at the same time,
\* although a stalled scan outlives its lease and another one takes over (and
\* the state keeps its types).
Applicable(s) == scan[s].pc = "finalizing" /\ scan[s].verdict # "STALE" /\ StillMine(s)

OneApplicableVerdict ==
    /\ TypeOK
    /\ \A s, t \in Scanners : Applicable(s) /\ Applicable(t) => s = t

\* A given-up port does not stay PENDING_SCAN for ever while its hosts answer:
\* crashed scans, lost leases and failed runs are taken over (unless listener
\* drift or an empty host list holds it back, or the version bound is hit).
PendingPortJudged ==
    row.status = "PENDING_SCAN" ~>
        (row.status # "PENDING_SCAN" \/ drift \/ Managed = {} \/ row.version = MaxVersion)

\* docs/xray/DATA_MODEL.md: a scan turns a port EXTERNAL_OCCUPIED when it
\* finds it occupied, that is, when some host has answered so.
OccupiedMeansListening == row.status = "EXTERNAL_OCCUPIED" => heard
=============================================================================
