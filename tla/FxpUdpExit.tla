----------------------------- MODULE FxpUdpExit -----------------------------
(***************************************************************************)
(* The exit of an FXP tunnel that carries UDP directly                     *)
(* (forwardx-fxp/udp_direct.go, udp_fragment.go, udp_queue_budget.go,      *)
(* udp_tuning.go, udp_session_lifecycle.go).                               *)
(*                                                                         *)
(* One reader takes packets from the tunnel's socket, finds or creates the *)
(* session, puts fragments together and queues the datagram; a worker per  *)
(* session writes the queue to the target; a sweeper closes sessions that  *)
(* are idle or in the way.  Queues and half-assembled datagrams of all     *)
(* sessions are charged to byte budgets, one per rule and one for the      *)
(* process.  What runs under one mutex is one step.  The network loses,    *)
(* repeats and reorders packets.  A byte here is one full fragment.        *)
(***************************************************************************)
EXTENDS Naturals, Sequences, FiniteSets, SequencesExt

CONSTANTS
    Keys,          \* session keys: peer address, rule and session id
    Rules, RuleOf, \* the rule of every key
    Datagrams,     \* what the entry has sent: [key, seq, n], in n fragments
    MaxSessions,   \* bound on session objects
    MaxReads,      \* bound on packets read
    MaxTicks,      \* bound on timeouts of sessions
    MaxFailures,   \* bound on failing reads and writes of targets
    HardSessions, SoftSessions,  \* fxpUDPMaxSessions, fxpUDPSoftSessions
    QueueSize, QueueBytes,       \* capacity of a queue
    MaxPending,    \* fxpUDPMaxPendingFragmentSets
    ReplayBits,    \* fxpUDPReplayBits
    RuleLimit, ProcessLimit,     \* the budgets
    None

ASSUME ExitAssumption ==
    /\ RuleOf \in [Keys -> Rules]
    /\ Datagrams \subseteq [key: Keys, seq: Nat \ {0}, n: Nat \ {0}]
    /\ \A n \in {MaxSessions, MaxReads, MaxTicks, MaxFailures, HardSessions, SoftSessions,
                 QueueSize, QueueBytes, MaxPending, ReplayBits, RuleLimit, ProcessLimit} : n \in Nat \ {0}
    /\ None \notin 1 .. MaxSessions

Objs == 1 .. MaxSessions
\* sealFXPUDPDatagramsWithCodec: a datagram that fits goes unfragmented.
Packets == UNION {IF d.n = 1 THEN {[key |-> d.key, seq |-> d.seq, frag |-> 0, frags |-> 0]}
                  ELSE {[key |-> d.key, seq |-> d.seq, frag |-> i, frags |-> d.n] : i \in 0 .. d.n - 1}
                  : d \in Datagrams}
Seqs == {d.seq : d \in Datagrams}

VARIABLES
    table,   \* sessions: the session object of every key
    ses,     \* the session objects
    budget,  \* bytes charged: [rule, process]
    reader,  \* the reading goroutine
    doomed,  \* sessions that the sweeper or the shutdown is about to close
    left     \* what is left of the bounds

vars == <<table, ses, budget, reader, doomed, left>>

\* age: 1 after fxpUDPReclaimAfter without activity, 2 after the idle timeout, 3
\* after the stalled timeout.  st: how far close() is.  ready: the token in
\* the channel of that name.  lease: the packet the worker holds, in bytes.
Unused == [key |-> None, st |-> "unused", age |-> 0, inFlight |-> 0, queue |-> <<>>,
           ready |-> FALSE, pending |-> <<>>, highest |-> 0, seen |-> {},
           worker |-> "none", lease |-> 0, handed |-> [q \in Seqs |-> 0]]
Listening == [pc |-> "read", pkt |-> None, obj |-> 0, counted |-> FALSE, len |-> 0]

Init ==
    /\ table = [k \in Keys |-> None]
    /\ ses = [o \in Objs |-> Unused]
    /\ budget = [rule |-> [r \in Rules |-> 0], process |-> 0]
    /\ reader = Listening
    /\ doomed = {}
    /\ left = [reads |-> MaxReads, ticks |-> MaxTicks, failures |-> MaxFailures]

-----------------------------------------------------------------------------
(* fxpUDPQueueRuleBudget: both limits are kept under one lock.             *)

Fits(b, r, n) == b.rule[r] + n <= RuleLimit /\ b.process + n <= ProcessLimit
Reserve(b, r, n) == [rule |-> [b.rule EXCEPT ![r] = @ + n], process |-> b.process + n]
Release(b, r, n) ==
    LET m == IF n > b.rule[r] THEN b.rule[r] ELSE n
    IN [rule |-> [b.rule EXCEPT ![r] = @ - m], process |-> b.process - m]

\* The sum of f[1] .. f[n]; the length fields of what is queued or half-assembled.
SumTo(f, n) ==
    LET sum[i \in Nat] == IF i = 0 THEN 0 ELSE sum[i - 1] + f[i]
    IN sum[n]
Bytes(q) == SumTo([i \in 1 .. Len(q) |-> q[i].len], Len(q))

-----------------------------------------------------------------------------
(* The reader.                                                             *)

Listed == {o \in Objs : \E k \in Keys : table[k] = o}

\* A packet of a session in the table: the session is marked as in flight
\* under the lock of the table.
ReadKnown(p) ==
    /\ reader.pc = "read" /\ left.reads > 0
    /\ table[p.key] # None
    /\ LET o == table[p.key]
       IN /\ ses' = [ses EXCEPT ![o].inFlight = @ + 1]
          /\ reader' = [Listening EXCEPT !.pc = "check", !.pkt = p, !.obj = o, !.counted = TRUE]
    /\ left' = [left EXCEPT !.reads = @ - 1]
    /\ UNCHANGED <<table, budget, doomed>>

\* The first packet of a session: it is created and its worker started,
\* unless there are too many (the sweeper is woken and the packet dropped).
ReadNew(p) ==
    /\ reader.pc = "read" /\ left.reads > 0
    /\ table[p.key] = None
    /\ Cardinality(Listed) < HardSessions
    /\ \E o \in Objs :
         /\ ses[o].st = "unused"
         /\ \A q \in Objs : ses[q].st = "unused" => o <= q
         /\ table' = [table EXCEPT ![p.key] = o]
         /\ ses' = [ses EXCEPT ![o].key = p.key, ![o].st = "open", ![o].worker = "idle"]
         /\ reader' = [Listening EXCEPT !.pc = "accept", !.pkt = p, !.obj = o]
    /\ left' = [left EXCEPT !.reads = @ - 1]
    /\ UNCHANGED <<budget, doomed>>

\* The reader is done with a packet.
Finish(s) == [s EXCEPT !.inFlight = IF reader.counted THEN @ - 1 ELSE @]

\* The packet has been authenticated; is its session still in the table?
Check ==
    /\ reader.pc = "check"
    /\ LET o == reader.obj
       IN IF table[reader.pkt.key] = o
          THEN /\ ses' = [ses EXCEPT ![o].age = 0]
               /\ reader' = [reader EXCEPT !.pc = "accept"]
          ELSE /\ ses' = [ses EXCEPT ![o] = Finish(@)]
               /\ reader' = Listening
    /\ UNCHANGED <<table, budget, doomed, left>>

\* Mutant: the window keeps the highest sequence's bit only.
SeenForgetful(s, q) == IF q > s.highest THEN {0} ELSE s.seen \cup {s.highest - q}

\* udpReplayWindow: the sequences seen, as distances from the highest.
Fresh(s, q) ==
    \/ q > s.highest
    \/ s.highest - q < ReplayBits /\ s.highest - q \notin s.seen
Seen(s, q) ==
    IF q > s.highest
    THEN {0} \cup {d \in {e + (q - s.highest) : e \in s.seen} : d < ReplayBits}
    ELSE s.seen \cup {s.highest - q}
Noted(s, q) == [s EXCEPT !.seen = Seen(s, q),
                         !.highest = IF q > @ THEN q ELSE @]

\* The datagram with sequence q and len bytes goes on to the queue, once.
Pass(o, s, q, len) ==
    IF Fresh(s, q)
    THEN /\ ses' = [ses EXCEPT ![o] = [Noted(s, q) EXCEPT !.handed[q] = @ + 1]]
         /\ reader' = [reader EXCEPT !.pc = "forward", !.len = len]
    ELSE /\ ses' = [ses EXCEPT ![o] = Finish(s)]
         /\ reader' = Listening

Drop(o, s) ==
    /\ ses' = [ses EXCEPT ![o] = Finish(s)]
    /\ reader' = Listening

\* accept: the reassembler is closed.
AcceptClosed ==
    /\ reader.pc = "accept"
    /\ ses[reader.obj].st \in {"swept", "closed"}
    /\ Drop(reader.obj, ses[reader.obj])
    /\ UNCHANGED <<table, budget, doomed, left>>

\* accept: a datagram in one packet.
AcceptWhole ==
    /\ reader.pc = "accept" /\ reader.pkt.frags = 0
    /\ ses[reader.obj].st \notin {"swept", "closed"}
    /\ Pass(reader.obj, ses[reader.obj], reader.pkt.seq, 1)
    /\ UNCHANGED <<table, budget, doomed, left>>

\* Mutant: the last fragment's bytes are not released with the others.
ReleasedWithoutLast(a) == a.len - 1

\* What removeAssemblyLocked releases of a completed assembly.
Released(a) == a.len

\* accept: a fragment, when the oldest gone assemblies have expired.  These go
\* first; then, if this is a new datagram and there are too many, the oldest;
\* a fragment that its budget cannot take costs the whole datagram.
Assemble(gone) ==
    LET o == reader.obj
        p == reader.pkt
        s == ses[o]
        r == RuleOf[s.key]
        live == SubSeq(s.pending, gone + 1, Len(s.pending))
        new == \A i \in DOMAIN live : live[i].seq # p.seq
        evict == new /\ Len(live) >= MaxPending
        kept == IF evict THEN Tail(live) ELSE live
        at == IF new THEN Len(kept) + 1 ELSE CHOOSE i \in DOMAIN kept : kept[i].seq = p.seq
        a == IF new THEN [seq |-> p.seq, frags |-> p.frags, got |-> {}, len |-> 0] ELSE kept[at]
        others == IF new THEN kept ELSE RemoveAt(kept, at)
        b1 == Release(budget, r, Bytes(SubSeq(s.pending, 1, gone))
                                   + IF evict THEN Head(live).len ELSE 0)
        b2 == Reserve(b1, r, 1)
        a2 == [a EXCEPT !.got = @ \cup {p.frag}, !.len = @ + 1]
    IN \/ /\ a.frags # p.frags
          /\ budget' = Release(b1, r, a.len)
          /\ Drop(o, [s EXCEPT !.pending = others])
       \/ /\ a.frags = p.frags /\ p.frag \in a.got
          /\ budget' = b1
          /\ Drop(o, [s EXCEPT !.pending = kept])
       \/ /\ a.frags = p.frags /\ p.frag \notin a.got /\ ~Fits(b1, r, 1)
          /\ budget' = Release(b1, r, a.len)
          /\ Drop(o, [s EXCEPT !.pending = others])
       \/ /\ a.frags = p.frags /\ p.frag \notin a.got /\ Fits(b1, r, 1)
          /\ IF Cardinality(a2.got) < a.frags
             THEN /\ budget' = b2
                  /\ Drop(o, [s EXCEPT !.pending = IF new THEN Append(kept, a2)
                                                   ELSE ReplaceAt(kept, at, a2)])
             ELSE /\ budget' = Release(b2, r, Released(a2))
                  /\ Pass(o, [s EXCEPT !.pending = others], p.seq, a2.len)

AcceptFragment ==
    /\ reader.pc = "accept" /\ reader.pkt.frags > 0
    /\ ses[reader.obj].st \notin {"swept", "closed"}
    /\ \E gone \in 0 .. Len(ses[reader.obj].pending) : Assemble(gone)
    /\ UNCHANGED <<table, doomed, left>>

\* forwardToTarget, up to the look at done.
Forward ==
    /\ reader.pc = "forward"
    /\ LET o == reader.obj
       IN IF ses[o].st = "open"
          THEN /\ ses' = [ses EXCEPT ![o].age = 0]
               /\ reader' = [reader EXCEPT !.pc = "enqueue"]
          ELSE Drop(o, [ses[o] EXCEPT !.age = 0])
    /\ UNCHANGED <<table, budget, doomed, left>>

\* Mutant: a closed queue still takes packets.
QueueClosedNever(s) == FALSE

QueueClosed(s) == s.st \notin {"open", "done"}

\* enqueue: the oldest packets make room for the new one, if the budget can
\* swap them for it.
Enqueue ==
    /\ reader.pc = "enqueue"
    /\ LET o == reader.obj
           s == ses[o]
           r == RuleOf[s.key]
           len == reader.len
           Room(d) == /\ Len(s.queue) - d < QueueSize
                      /\ Bytes(SubSeq(s.queue, d + 1, Len(s.queue))) + len <= QueueBytes
       IN \/ /\ QueueClosed(s) \/ len > QueueBytes
             /\ Drop(o, s) /\ UNCHANGED budget
          \/ /\ ~QueueClosed(s) /\ len <= QueueBytes
             /\ \E drop \in 0 .. Len(s.queue) :
                  LET b1 == Release(budget, r, Bytes(SubSeq(s.queue, 1, drop)))
                  IN /\ Room(drop) /\ \A e \in 0 .. Len(s.queue) : Room(e) => drop <= e
                     /\ IF Fits(b1, r, len)
                        THEN /\ budget' = Reserve(b1, r, len)
                             /\ Drop(o, [s EXCEPT !.queue = Append(SubSeq(s.queue, drop + 1, Len(s.queue)),
                                                                   [len |-> len]),
                                                  !.ready = TRUE])
                        ELSE Drop(o, s) /\ UNCHANGED budget
    /\ UNCHANGED <<table, doomed, left>>

\* The socket is closed: the reader closes every session in the table and stops.
Shutdown ==
    /\ reader.pc = "read"
    /\ reader' = [Listening EXCEPT !.pc = "stopped"]
    /\ doomed' = doomed \cup Listed
    /\ UNCHANGED <<table, ses, budget, left>>

-----------------------------------------------------------------------------
(* The worker of a session: writeTargetLoop and nextTracked.               *)

\* The token is taken before the queue's lock.
TakeToken(o) ==
    /\ ses[o].worker = "idle" /\ ses[o].st = "open" /\ ses[o].ready
    /\ ses' = [ses EXCEPT ![o].ready = FALSE, ![o].worker = "token"]
    /\ UNCHANGED <<table, budget, reader, doomed, left>>

\* Mutant: the token is not put back for the packets that remain.
TakePacketOnly(o) ==
    /\ ses[o].worker = "token"
    /\ LET s == ses[o]
       IN ses' = [ses EXCEPT ![o] =
            IF s.queue = <<>> THEN [s EXCEPT !.worker = "idle"]
            ELSE [s EXCEPT !.queue = Tail(@), !.worker = "write", !.lease = Head(s.queue).len,
                           !.inFlight = @ + 1]]
    /\ UNCHANGED <<table, budget, reader, doomed, left>>

\* The oldest packet leaves the queue; its bytes stay charged until done().
TakePacket(o) ==
    /\ ses[o].worker = "token"
    /\ LET s == ses[o]
       IN ses' = [ses EXCEPT ![o] =
            IF s.queue = <<>> THEN [s EXCEPT !.worker = "idle"]
            ELSE [s EXCEPT !.queue = Tail(@), !.worker = "write", !.lease = Head(s.queue).len,
                           !.inFlight = @ + 1, !.ready = @ \/ Len(s.queue) > 1]]
    /\ UNCHANGED <<table, budget, reader, doomed, left>>

\* packet.done()
Leased(s) == [s EXCEPT !.worker = "idle", !.lease = 0, !.inFlight = @ - 1]

\* The packet is dropped because it waited too long and others wait behind it.
DropStale(o) ==
    /\ ses[o].worker = "write" /\ ses[o].queue # <<>>
    /\ ses' = [ses EXCEPT ![o] = Leased(@)]
    /\ budget' = Release(budget, RuleOf[ses[o].key], ses[o].lease)
    /\ UNCHANGED <<table, reader, doomed, left>>

Write(o) ==
    /\ ses[o].worker = "write"
    /\ ses' = [ses EXCEPT ![o] = [Leased(@) EXCEPT !.age = 0]]
    /\ budget' = Release(budget, RuleOf[ses[o].key], ses[o].lease)
    /\ UNCHANGED <<table, reader, doomed, left>>

\* close() begins with closing done; later calls wait for the first (closeOnce).
Closing(s) == [s EXCEPT !.st = IF @ = "open" THEN "done" ELSE @]

\* The write fails: the worker closes the session and lets go of the packet then.
WriteFails(o) ==
    /\ ses[o].worker = "write" /\ left.failures > 0
    /\ left' = [left EXCEPT !.failures = @ - 1]
    /\ ses' = [ses EXCEPT ![o] = [Closing(@) EXCEPT !.worker = "closing"]]
    /\ UNCHANGED <<table, budget, reader, doomed>>

WriteFailed(o) ==
    /\ ses[o].worker = "closing" /\ ses[o].st = "closed"
    /\ ses' = [ses EXCEPT ![o] = Leased(@)]
    /\ budget' = Release(budget, RuleOf[ses[o].key], ses[o].lease)
    /\ UNCHANGED <<table, reader, doomed, left>>

WorkerEnds(o) ==
    /\ ses[o].worker = "idle" /\ ses[o].st # "open"
    /\ ses' = [ses EXCEPT ![o].worker = "ended"]
    /\ UNCHANGED <<table, budget, reader, doomed, left>>

\* readTargetLoop: reading from the target fails.
ReadTargetFails(o) ==
    /\ ses[o].st = "open" /\ left.failures > 0
    /\ left' = [left EXCEPT !.failures = @ - 1]
    /\ ses' = [ses EXCEPT ![o] = Closing(@)]
    /\ UNCHANGED <<table, budget, reader, doomed>>

-----------------------------------------------------------------------------
(* close(): done, the queue, the reassembler, the table.                   *)

CloseQueue(o) ==
    /\ ses[o].st = "done"
    /\ ses' = [ses EXCEPT ![o].st = "drained", ![o].queue = <<>>, ![o].ready = FALSE]
    /\ budget' = Release(budget, RuleOf[ses[o].key], Bytes(ses[o].queue))
    /\ UNCHANGED <<table, reader, doomed, left>>

CloseFragments(o) ==
    /\ ses[o].st = "drained"
    /\ ses' = [ses EXCEPT ![o].st = "swept", ![o].pending = <<>>]
    /\ budget' = Release(budget, RuleOf[ses[o].key], Bytes(ses[o].pending))
    /\ UNCHANGED <<table, reader, doomed, left>>

\* What is left of a closed session; its replay window is garbage.
Closed(s) == [Unused EXCEPT !.key = s.key, !.st = "closed", !.inFlight = s.inFlight,
                            !.worker = s.worker, !.lease = s.lease]

\* Mutant: whatever has the key leaves the table.
RemoveByKey(o) ==
    /\ ses[o].st = "swept"
    /\ ses' = [ses EXCEPT ![o] = Closed(@)]
    /\ table' = [table EXCEPT ![ses[o].key] = None]
    /\ UNCHANGED <<budget, reader, doomed, left>>

\* removeSession: only the session itself leaves the table.
RemoveSession(o) ==
    /\ ses[o].st = "swept"
    /\ ses' = [ses EXCEPT ![o] = Closed(@)]
    /\ table' = [table EXCEPT ![ses[o].key] = IF @ = o THEN None ELSE @]
    /\ UNCHANGED <<budget, reader, doomed, left>>

-----------------------------------------------------------------------------
(* The sweeper.                                                            *)

\* A session has had no activity for one of the three times.
Tick(o) ==
    /\ o \in Listed /\ left.ticks > 0
    /\ left' = [left EXCEPT !.ticks = @ - 1]
    /\ \E a \in ses[o].age + 1 .. 3 : ses' = [ses EXCEPT ![o].age = a]
    /\ UNCHANGED <<table, budget, reader, doomed>>

\* udpDirectExitSessionSnapshot: queued, half-assembled and in flight.
Pending(s) == Len(s.queue) + Len(s.pending) + s.inFlight

\* fxpUDPSessionExpiredAt
Expired(s) == s.age = 3 \/ (Pending(s) = 0 /\ s.age = 2)

\* planFXPUDPPressureReclamation: quiet sessions without work, the longest
\* quiet first, until the table is below the soft limit.
Reclaimed(stay) ==
    {V \in SUBSET {o \in stay : ses[o].age >= 1 /\ Pending(ses[o]) = 0} :
        LET quiet == {o \in stay : ses[o].age >= 1 /\ Pending(ses[o]) = 0}
            surplus == IF Cardinality(stay) < SoftSessions THEN 0
                       ELSE Cardinality(stay) - SoftSessions + 1
        IN /\ Cardinality(V) = IF surplus < Cardinality(quiet) THEN surplus ELSE Cardinality(quiet)
           /\ \A v \in V, q \in quiet \ V : ses[v].age >= ses[q].age}

\* One sweep, under the lock of the table: the fragments of every session may
\* expire; expired and reclaimed sessions leave the table and are closed later.
Sweep ==
    /\ LET expired == {o \in Listed : Expired(ses[o])}
       IN \E V \in Reclaimed(Listed \ expired) :
            /\ expired \cup V # {}
            /\ doomed' = doomed \cup expired \cup V
            /\ table' = [k \in Keys |-> IF table[k] \in expired \cup V THEN None ELSE table[k]]
    /\ UNCHANGED <<ses, budget, reader, left>>

\* expire, for the oldest half-assembled datagram of a session.
ExpireFragments(o) ==
    /\ o \in Listed /\ ses[o].pending # <<>>
    /\ ses[o].st \in {"open", "done", "drained"}
    /\ ses' = [ses EXCEPT ![o].pending = Tail(@)]
    /\ budget' = Release(budget, RuleOf[ses[o].key], Head(ses[o].pending).len)
    /\ UNCHANGED <<table, reader, doomed, left>>

\* The sweeper, or the reader at the end, calls close().
CloseDoomed(o) ==
    /\ o \in doomed
    /\ doomed' = doomed \ {o}
    /\ ses' = [ses EXCEPT ![o] = Closing(@)]
    /\ UNCHANGED <<table, budget, reader, left>>

-----------------------------------------------------------------------------

ReaderStep == Check \/ AcceptClosed \/ AcceptWhole \/ AcceptFragment \/ Forward \/ Enqueue

Worker(o) ==
    \/ TakeToken(o) \/ TakePacket(o) \/ DropStale(o) \/ Write(o) \/ WriteFails(o)
    \/ WriteFailed(o) \/ WorkerEnds(o)

Close(o) == CloseQueue(o) \/ CloseFragments(o) \/ RemoveSession(o) \/ CloseDoomed(o)

Next ==
    \/ \E p \in Packets : ReadKnown(p) \/ ReadNew(p)
    \/ ReaderStep
    \/ Shutdown
    \/ Sweep
    \/ \E o \in Objs : Worker(o) \/ Close(o) \/ ReadTargetFails(o) \/ Tick(o) \/ ExpireFragments(o)

Spec == Init /\ [][Next]_vars

-----------------------------------------------------------------------------
(* Properties.                                                             *)

\* Types; counters never go below zero, queues and tables stay within bounds.
TypeOK ==
    /\ \A k \in Keys : table[k] \in {None} \/ table[k] \in Objs
    /\ Cardinality(Listed) <= HardSessions
    /\ \A o \in Objs :
         /\ ses[o].st \in {"unused", "open", "done", "drained", "swept", "closed"}
         /\ ses[o].inFlight \in 0 .. 2
         /\ Len(ses[o].queue) <= QueueSize /\ Bytes(ses[o].queue) <= QueueBytes
         /\ Len(ses[o].pending) <= MaxPending
         /\ ses[o].seen \subseteq 0 .. ReplayBits - 1
    /\ budget.rule \in [Rules -> 0 .. RuleLimit] /\ budget.process \in 0 .. ProcessLimit
    /\ doomed \subseteq Objs /\ left \in [reads: Nat, ticks: Nat, failures: Nat]

\* The bytes a session holds: half-assembled, queued, and in its worker's hands;
\* and which of them are charged to a rule.
Held(s) == Bytes(s.pending) + Bytes(s.queue) + s.lease
Share(s, r) == IF s.st # "unused" /\ RuleOf[s.key] = r THEN Held(s) ELSE 0

\* The budgets are exact: what is charged to a rule is what its sessions hold,
\* and the process's charge is what all sessions hold.  One byte released twice
\* would let the queues outgrow the limit; one never released shuts the rule
\* for good.  (And types, queues and limits are kept.)
BudgetExact ==
    /\ TypeOK
    /\ \A r \in Rules : budget.rule[r] = SumTo([o \in Objs |-> Share(ses[o], r)], MaxSessions)
    /\ budget.process = SumTo([o \in Objs |-> Held(ses[o])], MaxSessions)

\* A session hands no datagram to its queue twice, however packets are
\* repeated, reordered and evicted half-way.
HandedOnce == \A o \in Objs, q \in Seqs : ses[o].handed[q] <= 1

\* A session that works is one the sweeper can see, or one it is about to
\* close: a worker whose session is lost from the table would never end.
OpenIsListed ==
    \A o \in Objs : ses[o].st = "open" => table[ses[o].key] = o \/ o \in doomed

\* No wake-up is lost: while packets are queued the token is in the channel, or
\* the worker is busy and will look again.
WorkerAwake ==
    \A o \in Objs : ses[o].st = "open" /\ ses[o].queue # <<>> =>
        ses[o].ready \/ ses[o].worker \in {"token", "write", "closing"}

\* Whatever the reader was doing meanwhile, a session keeps nothing behind
\* what close() has closed, and nothing at all once its worker has ended.
NothingBehindClose ==
    \A o \in Objs :
        /\ ses[o].st \in {"drained", "swept", "closed"} => ses[o].queue = <<>>
        /\ ses[o].st \in {"swept", "closed"} => ses[o].pending = <<>>
        /\ ses[o].worker = "ended" => ses[o].lease = 0
=============================================================================
