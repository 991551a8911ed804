-------------------------- MODULE FxpUdpExitProofs --------------------------
(***************************************************************************)
(* Theorems about FxpUdpExit, for any keys, datagrams, capacities and      *)
(* limits, and any number of packets, timeouts and failures.               *)
(*                                                                         *)
(* A session record is touched by the reader, its worker, the sweeper and  *)
(* whoever calls close(), so the invariant is mostly a property of one     *)
(* record: Sound(s).  Windowed is what makes the replay window safe: what  *)
(* was handed on is in the window or has fallen out at its old end, where  *)
(* nothing is accepted any more.  Awake holds of every place of the worker *)
(* but the one where it has the token in its hands.  InFlightExact relates *)
(* the record to the reader: a session's count is the reader's packet and  *)
(* the worker's, which keeps the count above zero when either lets go.     *)
(* OpenIsListed needs that a session keeps its key (NotYet) and that       *)
(* nobody creates a second session while the first is in the table.        *)
(*                                                                         *)
(* The budgets come second, on top of Inv.  Charges says that a rule's     *)
(* charge is the sum of what its sessions hold, so every release is of     *)
(* bytes that are charged; a step is then one session's change and the     *)
(* same change of the charge (Booked).  The sums are recursive functions   *)
(* of the index; what is needed of them is proved by induction, as a set   *)
(* of numbers that has no least number outside it (NatSet).                *)
(***************************************************************************)
EXTENDS FxpUdpExit, Integers, SequenceTheorems, FiniteSetTheorems, WellFoundedInduction, TLAPS

Assemblies == [seq: Nat, frags: Nat, got: SUBSET Nat, len: Nat]
Stages == {"unused", "open", "done", "drained", "swept", "closed"}
WorkerPlaces == {"none", "idle", "token", "write", "closing", "ended"}
Ages == 0 .. 3
Lens == [len: Nat]
Sessions == [key: Keys \cup {None}, st: Stages, age: Ages, inFlight: Nat, queue: Seq(Lens),
             ready: BOOLEAN, pending: Seq(Assemblies), highest: Nat, seen: SUBSET Nat,
             worker: WorkerPlaces, lease: Nat, handed: [Seqs -> Nat]]
Handling == {"check", "accept", "forward", "enqueue"}
ReaderPlaces == Handling \cup {"read", "stopped"}
Readers == [pc: ReaderPlaces, pkt: Packets \cup {None}, obj: Nat, counted: BOOLEAN, len: Nat]

\* What the table, the sessions and the reader are.
Typed ==
    /\ table \in [Keys -> Objs \cup {None}]
    /\ ses \in [Objs -> Sessions]
    /\ reader \in Readers
    /\ reader.pc \in Handling => reader.obj \in Objs /\ reader.pkt \in Packets
    /\ reader.counted => reader.pc \in Handling

\* What has been handed on is within the replay window, or behind it.
Windowed(s) ==
    \A q \in Seqs :
        /\ s.handed[q] <= 1
        /\ s.handed[q] > 0 =>
              q <= s.highest /\ (s.highest - q < ReplayBits => s.highest - q \in s.seen)

\* The token is in the channel, or in the worker's hands, while packets wait.
Awake(s) == s.st = "open" /\ s.queue # <<>> /\ s.worker # "token" => s.ready

\* close() leaves nothing behind it.
Behind(s) ==
    /\ s.st \in {"drained", "swept", "closed"} => s.queue = <<>>
    /\ s.st \in {"swept", "closed"} => s.pending = <<>>

\* A packet is leased while its worker writes it, and no longer.
Leasing(s) == s.worker \notin {"write", "closing"} => s.lease = 0

\* A session has a key and a worker from its creation on.
NotYet(s) ==
    /\ s.st = "unused" => s.queue = <<>> /\ s.worker = "none"
    /\ s.st # "unused" => s.key \in Keys

\* r holds what s holds.
Alike(s, r) ==
    /\ r.key = s.key /\ (r.st = "unused" <=> s.st = "unused")
    /\ r.queue = s.queue /\ r.pending = s.pending /\ r.lease = s.lease /\ r.seen = s.seen

Sound(s) == Windowed(s) /\ Awake(s) /\ Behind(s) /\ Leasing(s) /\ NotYet(s)

\* inFlight counts the reader's packet and the worker's.
ByWorker(s) == IF s.worker \in {"write", "closing"} THEN 1 ELSE 0
ByReader(o) == IF reader.counted /\ reader.obj = o THEN 1 ELSE 0
InFlightExact == \A o \in Objs : ses[o].inFlight = ByWorker(ses[o]) + ByReader(o)

Inv ==
    /\ Typed
    /\ \A o \in Objs : Sound(ses[o])
    /\ InFlightExact
    /\ OpenIsListed

-----------------------------------------------------------------------------
(* Constants. *)

LEMMA Bounds ==
  /\ MaxSessions \in Nat /\ MaxPending \in Nat \ {0} /\ ReplayBits \in Nat \ {0}
  /\ None \notin Objs /\ Objs \subseteq Nat
  BY ExitAssumption DEF Objs

LEMMA PacketTyped ==
  ASSUME NEW p \in Packets
  PROVE  /\ p.key \in Keys /\ p.seq \in Seqs /\ p.seq \in Nat
         /\ p.frag \in Nat /\ p.frags \in Nat
  <1>1. PICK d \in Datagrams :
           \/ d.n = 1 /\ p = [key |-> d.key, seq |-> d.seq, frag |-> 0, frags |-> 0]
           \/ \E i \in 0 .. d.n - 1 : p = [key |-> d.key, seq |-> d.seq, frag |-> i, frags |-> d.n]
    BY DEF Packets
  <1>2. d.key \in Keys /\ d.seq \in Nat /\ d.n \in Nat /\ d.seq \in Seqs
    BY ExitAssumption DEF Seqs
  <1>3. CASE p = [key |-> d.key, seq |-> d.seq, frag |-> 0, frags |-> 0]
    BY <1>2, <1>3
  <1>4. ASSUME NEW i \in 0 .. d.n - 1, p = [key |-> d.key, seq |-> d.seq, frag |-> i, frags |-> d.n]
        PROVE  p.key \in Keys /\ p.seq \in Seqs /\ p.seq \in Nat /\ p.frag \in Nat /\ p.frags \in Nat
    BY <1>2, <1>4
  <1> QED BY <1>1, <1>3, <1>4

LEMMA SeqsTyped == Seqs \subseteq Nat
  BY ExitAssumption DEF Seqs

LEMMA UnusedTyped ==
  /\ Unused \in Sessions /\ Sound(Unused) /\ ByWorker(Unused) = 0
  /\ Unused.key = None /\ Unused.st = "unused" /\ Unused.inFlight = 0
  <1>1. Unused \in Sessions
    BY DEF Unused, Sessions, Stages, Ages, WorkerPlaces
  <1>2. \A q \in Seqs : Unused.handed[q] = 0
    BY DEF Unused
  <1>3. /\ Unused.queue = <<>> /\ Unused.pending = <<>> /\ Unused.worker = "none" /\ Unused.lease = 0
        /\ Unused.key = None /\ Unused.st = "unused" /\ Unused.inFlight = 0
    BY DEF Unused
  <1> QED BY <1>1, <1>2, <1>3 DEF Sound, Windowed, Awake, Behind, Leasing, NotYet, ByWorker

LEMMA ListeningTyped ==
  /\ Listening \in Readers
  /\ Listening.pc = "read" /\ Listening.counted = FALSE
  BY DEF Listening, Readers, ReaderPlaces, Handling

-----------------------------------------------------------------------------
(* A step changes one session, and perhaps the reader. *)

LEMMA OneSession ==
  ASSUME Inv, NEW o \in Objs, NEW r \in Sessions, ses' = [ses EXCEPT ![o] = r], Sound(r),
         table' \in [Keys -> Objs \cup {None}],
         reader' \in Readers,
         reader'.pc \in Handling => reader'.obj \in Objs /\ reader'.pkt \in Packets,
         reader'.counted => reader'.pc \in Handling,
         r.inFlight = ByWorker(r) + ByReader(o)',
         \A q \in Objs : q # o => ByReader(q)' = ByReader(q),
         r.st = "open" => table'[r.key] = o \/ o \in doomed',
         \A q \in Objs : q # o /\ ses[q].st = "open" =>
            table'[ses[q].key] = q \/ q \in doomed'
  PROVE  Inv'
  <1>1. ses' \in [Objs -> Sessions] /\ ses'[o] = r /\ \A q \in Objs : q # o => ses'[q] = ses[q]
    BY DEF Inv, Typed
  <1>2. Typed'
    BY <1>1 DEF Typed
  <1>3. \A q \in Objs : Sound(ses'[q])
    BY <1>1 DEF Inv
  <1>4. InFlightExact'
    <2> SUFFICES ASSUME NEW q \in Objs PROVE ses'[q].inFlight = ByWorker(ses'[q]) + ByReader(q)'
      BY DEF InFlightExact, ByWorker
    <2>1. CASE q = o
      BY <1>1, <2>1
    <2>2. CASE q # o
      BY <1>1, <2>2 DEF Inv, InFlightExact
    <2> QED BY <2>1, <2>2
  <1>5. OpenIsListed'
    BY <1>1 DEF OpenIsListed
  <1> QED BY <1>2, <1>3, <1>4, <1>5 DEF Inv, Sound, Windowed, Awake, Behind, Leasing, NotYet

\* The table and the doomed stay.
LEMMA OneSessionListed ==
  ASSUME Inv, NEW o \in Objs, NEW r \in Sessions, ses' = [ses EXCEPT ![o] = r], Sound(r),
         UNCHANGED <<table, doomed>>,
         r.key = ses[o].key, r.st = "open" => ses[o].st = "open",
         reader' \in Readers,
         reader'.pc \in Handling => reader'.obj \in Objs /\ reader'.pkt \in Packets,
         reader'.counted => reader'.pc \in Handling,
         r.inFlight = ByWorker(r) + ByReader(o)',
         \A q \in Objs : q # o => ByReader(q)' = ByReader(q)
  PROVE  Inv'
  <1>1. table' \in [Keys -> Objs \cup {None}]
    BY DEF Inv, Typed
  <1>2. r.st = "open" => table'[r.key] = o \/ o \in doomed'
    BY DEF Inv, OpenIsListed
  <1>3. \A q \in Objs : q # o /\ ses[q].st = "open" => table'[ses[q].key] = q \/ q \in doomed'
    BY DEF Inv, OpenIsListed
  <1> QED BY <1>1, <1>2, <1>3, OneSession

\* A step of another goroutine: the reader stays, too.
LEMMA OneSessionAside ==
  ASSUME Inv, NEW o \in Objs, NEW r \in Sessions, ses' = [ses EXCEPT ![o] = r], Sound(r),
         UNCHANGED <<table, doomed, reader>>,
         r.key = ses[o].key, r.st = "open" => ses[o].st = "open",
         r.inFlight + ByWorker(ses[o]) = ses[o].inFlight + ByWorker(r)
  PROVE  Inv'
  <1>1. \A q \in Objs : ByReader(q)' = ByReader(q) /\ ByReader(q) \in 0 .. 1
    BY DEF ByReader
  <1>2. ses[o].inFlight = ByWorker(ses[o]) + ByReader(o)
    BY DEF Inv, InFlightExact
  <1>3. ByWorker(r) \in 0 .. 1 /\ ByWorker(ses[o]) \in 0 .. 1 /\ r.inFlight \in Nat
    BY DEF ByWorker, Sessions
  <1>4. r.inFlight = ByWorker(r) + ByReader(o)'
    BY <1>1, <1>2, <1>3
  <1> QED BY <1>1, <1>4, OneSessionListed DEF Inv, Typed

-----------------------------------------------------------------------------
(* The reader. *)

Busy == reader.pc \in Handling

\* A session record that is s but for what the invariant does not look at.
LEMMA SoundAlike ==
  ASSUME NEW s, NEW r, Sound(s),
         r.key = s.key, r.st = s.st, r.queue = s.queue, r.ready = s.ready, r.pending = s.pending,
         r.highest = s.highest, r.seen = s.seen, r.worker = s.worker, r.lease = s.lease,
         r.handed = s.handed
  PROVE  Sound(r) /\ ByWorker(r) = ByWorker(s)
  BY DEF Sound, Windowed, Awake, Behind, Leasing, NotYet, ByWorker

\* The reader goes on with its packet.
LEMMA GoesOn ==
  ASSUME Inv, Busy, NEW r \in Sessions, ses' = [ses EXCEPT ![reader.obj] = r], Sound(r),
         UNCHANGED <<table, doomed>>,
         r.key = ses[reader.obj].key, r.st = "open" => ses[reader.obj].st = "open",
         r.inFlight = ses[reader.obj].inFlight, r.worker = ses[reader.obj].worker,
         NEW place \in Handling, NEW len \in Nat,
         reader' = [reader EXCEPT !.pc = place, !.len = len]
  PROVE  Inv'
  <1>1. reader \in Readers /\ reader.obj \in Objs /\ reader.pkt \in Packets
    BY DEF Inv, Typed, Busy
  <1>2. reader' \in Readers /\ reader'.pc \in Handling
    BY <1>1 DEF Readers, ReaderPlaces
  <1>3. reader'.obj = reader.obj /\ reader'.pkt = reader.pkt /\ reader'.counted = reader.counted
    BY <1>1 DEF Readers
  <1>4. \A q \in Objs : ByReader(q)' = ByReader(q)
    BY <1>3 DEF ByReader
  <1>5. r.inFlight = ByWorker(r) + ByReader(reader.obj)'
    BY <1>1, <1>4 DEF Inv, InFlightExact, ByWorker
  <1> QED BY <1>1, <1>2, <1>3, <1>4, <1>5, OneSessionListed

\* The reader is done with its packet.
LEMMA FinishTyped ==
  ASSUME Inv, Busy, NEW s \in Sessions,
         s.inFlight = ses[reader.obj].inFlight, s.worker = ses[reader.obj].worker
  PROVE  /\ Finish(s) \in Sessions
         /\ Finish(s).inFlight = ByWorker(s)
         /\ Finish(s).key = s.key /\ Finish(s).st = s.st
         /\ Finish(s).queue = s.queue /\ Finish(s).ready = s.ready
         /\ Finish(s).pending = s.pending /\ Finish(s).highest = s.highest
         /\ Finish(s).seen = s.seen /\ Finish(s).worker = s.worker
         /\ Finish(s).lease = s.lease /\ Finish(s).handed = s.handed
  <1>1. reader \in Readers /\ reader.obj \in Objs
    BY DEF Inv, Typed, Busy
  <1>2. s.inFlight = ByWorker(s) + ByReader(reader.obj)
    BY <1>1 DEF Inv, InFlightExact, ByWorker
  <1>3. ByWorker(s) \in Nat
    BY DEF ByWorker
  <1>4. PICK n \in Nat : n = ByWorker(s) /\ n = IF reader.counted THEN s.inFlight - 1 ELSE s.inFlight
    BY <1>1, <1>2, <1>3 DEF ByReader, Readers
  <1>5. Finish(s) = [s EXCEPT !.inFlight = n]
    BY <1>4 DEF Finish
  <1> QED BY <1>4, <1>5 DEF Sessions

LEMMA DropInv ==
  ASSUME Inv, Busy, NEW s \in Sessions, Sound(s), s.key = ses[reader.obj].key,
         s.st = "open" => ses[reader.obj].st = "open",
         s.inFlight = ses[reader.obj].inFlight, s.worker = ses[reader.obj].worker,
         Drop(reader.obj, s), UNCHANGED <<table, doomed>>
  PROVE  Inv'
  <1>1. PICK o \in Objs : o = reader.obj
    BY DEF Inv, Typed, Busy
  <1> DEFINE r == Finish(s)
  <1>2. /\ r \in Sessions /\ r.inFlight = ByWorker(s) /\ r.key = s.key /\ r.st = s.st
        /\ r.worker = s.worker
    BY FinishTyped
  <1>3. Sound(r) /\ ByWorker(r) = ByWorker(s)
    BY FinishTyped, SoundAlike
  <1>4. reader' = Listening /\ ses' = [ses EXCEPT ![o] = r]
    BY <1>1 DEF Drop
  <1>5. PICK t \in Sessions : t = r
    BY <1>2
  <1> HIDE DEF r
  <1>6. /\ reader' \in Readers /\ reader'.pc \notin Handling /\ reader'.counted = FALSE
    BY <1>4, ListeningTyped DEF Handling
  <1>7. \A q \in Objs : ByReader(q)' = 0 /\ (q # o => ByReader(q) = 0)
    BY <1>1, <1>6 DEF ByReader
  <1>8. t.inFlight = ByWorker(t) + ByReader(o)'
    <2>1. ByWorker(t) \in Nat
      BY DEF ByWorker
    <2> QED BY <1>2, <1>3, <1>5, <1>7, <2>1
  <1>9. \A q \in Objs : q # o => ByReader(q)' = ByReader(q)
    BY <1>7
  <1>10. t.key = ses[o].key /\ (t.st = "open" => ses[o].st = "open") /\ Sound(t)
    BY <1>1, <1>2, <1>3, <1>5
  <1> QED BY <1>4, <1>5, <1>6, <1>8, <1>9, <1>10, OneSessionListed

\* The replay window lets a datagram through once.
LEMMA NotedWindow ==
  ASSUME NEW s \in Sessions, Sound(s), NEW q \in Seqs, Fresh(s, q)
  PROVE  LET r == [Noted(s, q) EXCEPT !.handed[q] = @ + 1] IN
         /\ r \in Sessions /\ Sound(r)
         /\ r.key = s.key /\ r.st = s.st /\ r.inFlight = s.inFlight /\ r.worker = s.worker
         /\ r.queue = s.queue /\ r.pending = s.pending /\ r.lease = s.lease /\ r.seen = Seen(s, q)
  <1> DEFINE hi == IF q > s.highest THEN q ELSE s.highest
             sn == Seen(s, q)
             ha == [s.handed EXCEPT ![q] = s.handed[q] + 1]
             r == [Noted(s, q) EXCEPT !.handed[q] = @ + 1]
  <1>1. q \in Nat /\ s.highest \in Nat /\ s.seen \subseteq Nat /\ s.handed \in [Seqs -> Nat]
        /\ ReplayBits \in Nat \ {0}
    BY SeqsTyped, Bounds DEF Sessions
  <1>2. hi \in Nat
    BY <1>1
  <1>3. sn \in SUBSET Nat
    <2>1. CASE q > s.highest
      <3>1. \A e \in s.seen : e + (q - s.highest) \in Nat
        BY <1>1, <2>1
      <3> QED BY <2>1, <3>1 DEF Seen
    <2>2. CASE ~(q > s.highest)
      <3>1. s.highest - q \in Nat
        BY <1>1, <2>2
      <3> QED BY <1>1, <2>2, <3>1 DEF Seen
    <2> QED BY <2>1, <2>2
  <1>4. ha \in [Seqs -> Nat]
    BY <1>1
  <1>5. Noted(s, q) = [s EXCEPT !.seen = sn, !.highest = hi]
    BY DEF Noted
  <1>6. Windowed(s) /\ Awake(s) /\ Behind(s) /\ Leasing(s) /\ NotYet(s)
    BY DEF Sound
  <1>7. s.handed[q] = 0
    BY <1>1, <1>6 DEF Windowed, Fresh
  <1>8. \A p \in Seqs : ha[p] = IF p = q THEN 1 ELSE s.handed[p]
    BY <1>1, <1>7
  <1>9. \A p \in Seqs : ha[p] > 0 => p <= hi /\ (hi - p < ReplayBits => hi - p \in sn)
    <2> SUFFICES ASSUME NEW p \in Seqs, ha[p] > 0
                 PROVE  p <= hi /\ (hi - p < ReplayBits => hi - p \in sn)
      OBVIOUS
    <2>1. p \in Nat
      BY SeqsTyped
    <2>2. p # q => p <= s.highest /\ (s.highest - p < ReplayBits => s.highest - p \in s.seen)
      BY <1>6, <1>8 DEF Windowed
    <2>3. CASE q > s.highest
      <3>1. hi = q
        BY <2>3
      <3>2. sn = {0} \cup {d \in {e + (q - s.highest) : e \in s.seen} : d < ReplayBits}
        BY <2>3 DEF Seen
      <3>3. CASE p = q
        <4>1. hi - p = 0
          BY <3>1, <3>3, <1>1
        <4> QED BY <1>1, <3>1, <3>2, <3>3, <4>1
      <3>4. CASE p # q
        <4>1. p <= hi
          BY <1>1, <2>1, <2>2, <2>3, <3>1, <3>4
        <4>2. ASSUME hi - p < ReplayBits PROVE hi - p \in sn
          <5>1. s.highest - p < ReplayBits
            BY <1>1, <2>1, <2>2, <2>3, <3>1, <3>4, <4>2
          <5>2. s.highest - p \in s.seen
            BY <2>2, <3>4, <5>1
          <5>3. (s.highest - p) + (q - s.highest) = hi - p
            BY <1>1, <2>1, <3>1
          <5> QED BY <3>2, <4>2, <5>2, <5>3
        <4> QED BY <4>1, <4>2
      <3> QED BY <3>3, <3>4
    <2>4. CASE ~(q > s.highest)
      <3>1. hi = s.highest /\ sn = s.seen \cup {s.highest - q}
        BY <2>4 DEF Seen
      <3> HIDE DEF hi, sn
      <3> QED BY <1>1, <2>1, <2>2, <2>4, <3>1
    <2> QED BY <2>3, <2>4
  <1> HIDE DEF hi, sn
  <1>10. Noted(s, q) \in Sessions /\ Noted(s, q).handed = s.handed
    BY <1>2, <1>3, <1>5 DEF Sessions
  <1>11. r = [Noted(s, q) EXCEPT !.handed = ha]
    BY <1>10
  <1> HIDE DEF r, ha
  <1>12. r = [s EXCEPT !.seen = sn, !.highest = hi, !.handed = ha]
    BY <1>5, <1>11 DEF Sessions
  <1>13. r \in Sessions
    BY <1>4, <1>10, <1>11 DEF Sessions
  <1>14. /\ r.key = s.key /\ r.st = s.st /\ r.inFlight = s.inFlight /\ r.worker = s.worker
         /\ r.queue = s.queue /\ r.ready = s.ready /\ r.pending = s.pending /\ r.lease = s.lease
         /\ r.seen = sn /\ r.highest = hi /\ r.handed = ha
    BY <1>12 DEF Sessions
  <1>15. Windowed(r)
    BY <1>1, <1>6, <1>8, <1>9, <1>14 DEF Windowed
  <1>16. Awake(r) /\ Behind(r) /\ Leasing(r) /\ NotYet(r)
    BY <1>6, <1>14 DEF Awake, Behind, Leasing, NotYet
  <1>17. r \in Sessions /\ Sound(r) /\ r.key = s.key /\ r.st = s.st /\ r.inFlight = s.inFlight
         /\ r.worker = s.worker
         /\ r.queue = s.queue /\ r.pending = s.pending /\ r.lease = s.lease /\ r.seen = sn
    BY <1>13, <1>14, <1>15, <1>16 DEF Sound
  <1> QED BY <1>17 DEF r, sn

LEMMA PassInv ==
  ASSUME Inv, Busy, NEW s \in Sessions, Sound(s), s.key = ses[reader.obj].key,
         s.st = "open" => ses[reader.obj].st = "open",
         s.inFlight = ses[reader.obj].inFlight, s.worker = ses[reader.obj].worker,
         NEW q \in Seqs, NEW len \in Nat,
         Pass(reader.obj, s, q, len), UNCHANGED <<table, doomed>>
  PROVE  Inv'
  <1>1. CASE Fresh(s, q)
    <2> DEFINE r == [Noted(s, q) EXCEPT !.handed[q] = @ + 1]
    <2>1. /\ r \in Sessions /\ Sound(r)
          /\ r.key = s.key /\ r.st = s.st /\ r.inFlight = s.inFlight /\ r.worker = s.worker
      BY <1>1, NotedWindow
    <2>2. /\ ses' = [ses EXCEPT ![reader.obj] = r]
          /\ reader' = [reader EXCEPT !.pc = "forward", !.len = len]
      BY <1>1 DEF Pass
    <2>3. "forward" \in Handling
      BY DEF Handling
    <2> HIDE DEF r
    <2> QED BY <2>1, <2>2, <2>3, GoesOn
  <1>2. CASE ~Fresh(s, q)
    <2>1. Drop(reader.obj, s)
      BY <1>2 DEF Pass, Drop
    <2> QED BY <2>1, DropInv
  <1> QED BY <1>1, <1>2


-----------------------------------------------------------------------------
(* The reader's steps. *)

LEMMA ReadKnownInv ==
  ASSUME Inv, NEW p \in Packets, ReadKnown(p)
  PROVE  Inv'
  <1>1. p.key \in Keys
    BY PacketTyped
  <1>2. PICK o \in Objs : o = table[p.key]
    BY <1>1 DEF Inv, Typed, ReadKnown
  <1>3. PICK s \in Sessions : s = ses[o]
    BY DEF Inv, Typed
  <1> DEFINE n == s.inFlight + 1
             r == [s EXCEPT !.inFlight = n]
  <1>4. s \in Sessions /\ Sound(s) /\ reader \in Readers /\ reader.pc = "read"
    BY <1>3 DEF Inv, Typed, ReadKnown
  <1>5. n \in Nat /\ s.inFlight \in Nat
    BY <1>4 DEF Sessions
  <1>6. /\ ses' = [ses EXCEPT ![o] = r]
        /\ reader' = [Listening EXCEPT !.pc = "check", !.pkt = p, !.obj = o, !.counted = TRUE]
        /\ UNCHANGED <<table, doomed>>
    BY <1>2, <1>3, <1>4 DEF ReadKnown, Inv, Typed
  <1>7. reader.counted = FALSE
    BY <1>4 DEF Inv, Typed, Readers, Handling
  <1> HIDE DEF n
  <1>8. r \in Sessions
    BY <1>4, <1>5 DEF Sessions
  <1>9. /\ r.key = s.key /\ r.st = s.st /\ r.inFlight = n /\ r.worker = s.worker
        /\ r.queue = s.queue /\ r.ready = s.ready /\ r.pending = s.pending /\ r.lease = s.lease
        /\ r.seen = s.seen /\ r.highest = s.highest /\ r.handed = s.handed
    BY <1>4, <1>5 DEF Sessions
  <1> HIDE DEF r
  <1>10. Sound(r) /\ ByWorker(r) = ByWorker(s)
    BY <1>4, <1>9, SoundAlike
  <1>11. /\ reader' \in Readers /\ reader'.obj = o /\ reader'.pkt = p
        /\ reader'.counted = TRUE /\ reader'.pc = "check" /\ "check" \in Handling
    BY <1>4, <1>6, Bounds DEF Listening, Readers, ReaderPlaces, Handling
  <1>12. s.inFlight = ByWorker(s)
    <2>1. s.inFlight = ByWorker(s) + ByReader(o)
      BY <1>3 DEF Inv, InFlightExact
    <2>2. ByReader(o) = 0 /\ ByWorker(s) \in Nat
      BY <1>7 DEF ByReader, ByWorker
    <2> QED BY <2>1, <2>2
  <1>13. r.inFlight = ByWorker(r) + ByReader(o)'
    <2>1. ByReader(o)' = 1
      BY <1>11 DEF ByReader
    <2> QED BY <1>5, <1>9, <1>10, <1>12, <2>1 DEF n
  <1>14. \A q \in Objs : q # o => ByReader(q)' = ByReader(q)
    BY <1>7, <1>11 DEF ByReader
  <1>15. r.key = ses[o].key /\ (r.st = "open" => ses[o].st = "open")
    BY <1>9, <1>3
  <1> QED BY <1>4, <1>6, <1>8, <1>10, <1>11, <1>13, <1>14, <1>15, OneSessionListed

LEMMA ReadNewInv ==
  ASSUME Inv, NEW p \in Packets, ReadNew(p)
  PROVE  Inv'
  <1>1. p.key \in Keys
    BY PacketTyped
  <1>2. PICK o \in Objs :
          /\ ses[o].st = "unused"
          /\ table' = [table EXCEPT ![p.key] = o]
          /\ ses' = [ses EXCEPT ![o].key = p.key, ![o].st = "open", ![o].worker = "idle"]
          /\ reader' = [Listening EXCEPT !.pc = "accept", !.pkt = p, !.obj = o]
    BY DEF ReadNew
  <1>3. doomed' = doomed /\ table[p.key] = None /\ reader.pc = "read"
    BY DEF ReadNew
  <1> DEFINE s == ses[o]
             r == [s EXCEPT !.key = p.key, !.st = "open", !.worker = "idle"]
  <1>4. s \in Sessions /\ Sound(s) /\ reader \in Readers /\ ses \in [Objs -> Sessions]
        /\ table \in [Keys -> Objs \cup {None}]
    BY DEF Inv, Typed
  <1>5. ses' = [ses EXCEPT ![o] = r]
    BY <1>2, <1>4 DEF Sessions
  <1>6. reader.counted = FALSE
    BY <1>3 DEF Inv, Typed, Readers, Handling
  <1>7. r \in Sessions
    BY <1>1, <1>4 DEF Sessions, Stages, WorkerPlaces
  <1>8. /\ r.key = p.key /\ r.st = "open" /\ r.inFlight = s.inFlight /\ r.worker = "idle"
        /\ r.queue = s.queue /\ r.ready = s.ready /\ r.pending = s.pending /\ r.lease = s.lease
        /\ r.seen = s.seen /\ r.highest = s.highest /\ r.handed = s.handed
    BY <1>4 DEF Sessions
  <1> HIDE DEF r
  <1>9. s.queue = <<>> /\ s.worker = "none" /\ s.st = "unused" /\ s.lease = 0
    BY <1>2, <1>4 DEF Sound, NotYet, Leasing
  <1>10. Sound(r) /\ ByWorker(r) = 0
    <2>1. Windowed(r)
      BY <1>4, <1>8 DEF Sound, Windowed
    <2>2. Awake(r) /\ Behind(r) /\ Leasing(r) /\ NotYet(r)
      BY <1>1, <1>8, <1>9 DEF Awake, Behind, Leasing, NotYet
    <2> QED BY <1>8, <2>1, <2>2 DEF Sound, ByWorker
  <1>11. /\ reader' \in Readers /\ reader'.obj = o /\ reader'.pkt = p
         /\ reader'.counted = FALSE /\ reader'.pc = "accept" /\ "accept" \in Handling
    BY <1>2, Bounds DEF Listening, Readers, ReaderPlaces, Handling
  <1>12. \A q \in Objs : ByReader(q)' = 0 /\ ByReader(q) = 0
    BY <1>6, <1>11 DEF ByReader
  <1>13. s.inFlight = 0
    <2>1. s.inFlight = ByWorker(s) + ByReader(o)
      BY DEF Inv, InFlightExact
    <2>2. ByWorker(s) = 0
      BY <1>9 DEF ByWorker
    <2> QED BY <1>12, <2>1, <2>2
  <1>14. r.inFlight = ByWorker(r) + ByReader(o)'
    BY <1>8, <1>10, <1>12, <1>13
  <1>15. table' \in [Keys -> Objs \cup {None}] /\ table'[p.key] = o
         /\ \A k \in Keys : k # p.key => table'[k] = table[k]
    BY <1>1, <1>2, <1>4
  <1>16. \A q \in Objs : q # o /\ ses[q].st = "open" => table'[ses[q].key] = q \/ q \in doomed'
    <2> SUFFICES ASSUME NEW q \in Objs, ses[q].st = "open", q \notin doomed
                 PROVE  table'[ses[q].key] = q
      BY <1>3
    <2>1. table[ses[q].key] = q
      BY DEF Inv, OpenIsListed
    <2>2. ses[q].key \in Keys
      BY DEF Inv, Sound, NotYet
    <2>3. ses[q].key # p.key
      BY <1>3, <2>1, Bounds
    <2> QED BY <1>15, <2>1, <2>2, <2>3
  <1> QED BY <1>1, <1>5, <1>7, <1>8, <1>10, <1>11, <1>12, <1>14, <1>15, <1>16, OneSession

\* What the reader holds while it handles a packet.
LEMMA InHand ==
  ASSUME Inv, Busy
  PROVE  /\ reader \in Readers /\ reader.obj \in Objs /\ reader.pkt \in Packets
         /\ reader.len \in Nat
         /\ ses[reader.obj] \in Sessions /\ Sound(ses[reader.obj])
  BY DEF Inv, Typed, Busy, Readers

LEMMA AgeChanged ==
  ASSUME NEW s \in Sessions, Sound(s), NEW a \in Ages
  PROVE  LET r == [s EXCEPT !.age = a] IN
         /\ r \in Sessions /\ Sound(r) /\ r.key = s.key /\ r.st = s.st
         /\ r.inFlight = s.inFlight /\ r.worker = s.worker /\ Alike(s, r)
  <1> DEFINE r == [s EXCEPT !.age = a]
  <1>1. r \in Sessions
    BY DEF Sessions
  <1>2. /\ r.key = s.key /\ r.st = s.st /\ r.inFlight = s.inFlight /\ r.worker = s.worker
        /\ r.queue = s.queue /\ r.ready = s.ready /\ r.pending = s.pending /\ r.lease = s.lease
        /\ r.seen = s.seen /\ r.highest = s.highest /\ r.handed = s.handed
    BY DEF Sessions
  <1> HIDE DEF r
  <1>3. Sound(r)
    BY <1>2, SoundAlike
  <1>4. r \in Sessions /\ Sound(r) /\ r.key = s.key /\ r.st = s.st
        /\ r.inFlight = s.inFlight /\ r.worker = s.worker /\ Alike(s, r)
    BY <1>1, <1>2, <1>3 DEF Alike
  <1> QED BY <1>4 DEF r

\* The reader goes on, and notes the activity.
LEMMA ActivityInv ==
  ASSUME Inv, Busy, ses' = [ses EXCEPT ![reader.obj].age = 0], UNCHANGED <<table, doomed>>,
         NEW place \in Handling, reader' = [reader EXCEPT !.pc = place]
  PROVE  Inv'
  <1>1. PICK zero \in Ages : zero = 0
    BY DEF Ages
  <1>2. PICK s \in Sessions : s = ses[reader.obj] /\ Sound(s)
    BY InHand
  <1> DEFINE r == [s EXCEPT !.age = zero]
  <1>3. /\ r \in Sessions /\ Sound(r) /\ r.key = s.key /\ r.st = s.st
        /\ r.inFlight = s.inFlight /\ r.worker = s.worker
    BY <1>2, AgeChanged
  <1>4. ses' = [ses EXCEPT ![reader.obj] = r]
    BY <1>1, <1>2, InHand DEF Inv, Typed
  <1>5. reader' = [reader EXCEPT !.pc = place, !.len = reader.len]
    BY InHand DEF Readers
  <1> HIDE DEF r
  <1> QED BY <1>2, <1>3, <1>4, <1>5, InHand, GoesOn

LEMMA CheckInv ==
  ASSUME Inv, Check
  PROVE  Inv'
  <1>1. Busy
    BY DEF Check, Busy, Handling
  <1>2. UNCHANGED <<table, doomed>>
    BY DEF Check
  <1>3. CASE table[reader.pkt.key] = reader.obj
    <2>1. /\ ses' = [ses EXCEPT ![reader.obj].age = 0]
          /\ reader' = [reader EXCEPT !.pc = "accept"]
      BY <1>3 DEF Check
    <2>2. "accept" \in Handling
      BY DEF Handling
    <2> QED BY <1>1, <1>2, <2>1, <2>2, ActivityInv
  <1>4. CASE table[reader.pkt.key] # reader.obj
    <2>1. Drop(reader.obj, ses[reader.obj])
      BY <1>1, <1>4, InHand DEF Check, Drop, Inv, Typed
    <2> QED BY <1>1, <1>2, <2>1, InHand, DropInv
  <1> QED BY <1>3, <1>4

LEMMA AcceptClosedInv ==
  ASSUME Inv, AcceptClosed
  PROVE  Inv'
  <1>1. Busy /\ UNCHANGED <<table, doomed>> /\ Drop(reader.obj, ses[reader.obj])
    BY DEF AcceptClosed, Busy, Handling
  <1> QED BY <1>1, InHand, DropInv

LEMMA AcceptWholeInv ==
  ASSUME Inv, AcceptWhole
  PROVE  Inv'
  <1>1. /\ Busy /\ UNCHANGED <<table, doomed>>
        /\ Pass(reader.obj, ses[reader.obj], reader.pkt.seq, 1)
    BY DEF AcceptWhole, Busy, Handling
  <1>2. PICK one \in Nat : one = 1
    OBVIOUS
  <1>3. PICK q \in Seqs : q = reader.pkt.seq
    BY <1>1, InHand, PacketTyped
  <1>4. Pass(reader.obj, ses[reader.obj], q, one)
    BY <1>1, <1>2, <1>3
  <1> QED BY <1>1, <1>4, InHand, PassInv

\* The half-assembled datagrams of a session may change until it is swept.
LEMMA PendingChanged ==
  ASSUME NEW s \in Sessions, Sound(s), s.st \notin {"swept", "closed"},
         NEW f \in Seq(Assemblies)
  PROVE  LET r == [s EXCEPT !.pending = f] IN
         /\ r \in Sessions /\ Sound(r) /\ r.key = s.key /\ r.st = s.st
         /\ r.inFlight = s.inFlight /\ r.worker = s.worker
         /\ r.queue = s.queue /\ r.pending = f /\ r.lease = s.lease /\ r.seen = s.seen
  <1> DEFINE r == [s EXCEPT !.pending = f]
  <1>1. r \in Sessions
    BY DEF Sessions
  <1>2. /\ r.key = s.key /\ r.st = s.st /\ r.inFlight = s.inFlight /\ r.worker = s.worker
        /\ r.queue = s.queue /\ r.ready = s.ready /\ r.lease = s.lease /\ r.pending = f
        /\ r.seen = s.seen /\ r.highest = s.highest /\ r.handed = s.handed
    BY DEF Sessions
  <1> HIDE DEF r
  <1>3. Windowed(r)
    BY <1>2 DEF Sound, Windowed
  <1>4. Awake(r) /\ Behind(r) /\ Leasing(r) /\ NotYet(r)
    BY <1>2 DEF Sound, Awake, Behind, Leasing, NotYet
  <1>5. r \in Sessions /\ Sound(r) /\ r.key = s.key /\ r.st = s.st
        /\ r.inFlight = s.inFlight /\ r.worker = s.worker
        /\ r.queue = s.queue /\ r.pending = f /\ r.lease = s.lease /\ r.seen = s.seen
    BY <1>1, <1>2, <1>3, <1>4 DEF Sound
  <1> QED BY <1>5 DEF r

LEMMA SubSeqTyped ==
  ASSUME NEW S, NEW s \in Seq(S), NEW m \in Nat \ {0}, NEW n \in Int, n <= Len(s)
  PROVE  SubSeq(s, m, n) \in Seq(S)
  <1>1. \A i \in m .. n : s[i] \in S
    BY ElementOfSeq
  <1> QED BY <1>1, SubSeqProperties

LEMMA RemoveAtTyped ==
  ASSUME NEW S, NEW s \in Seq(S), NEW i \in 1 .. Len(s)
  PROVE  RemoveAt(s, i) \in Seq(S)
  <1>1. Len(s) \in Nat /\ i \in Nat \ {0} /\ i + 1 \in Nat \ {0} /\ i - 1 \in Int /\ i - 1 <= Len(s)
    BY LenProperties
  <1>2. SubSeq(s, 1, i - 1) \in Seq(S)
    BY <1>1, SubSeqTyped
  <1>3. SubSeq(s, i + 1, Len(s)) \in Seq(S)
    BY <1>1, SubSeqTyped
  <1> QED BY <1>2, <1>3, ConcatProperties DEF RemoveAt

LEMMA AcceptFragmentInv ==
  ASSUME Inv, AcceptFragment
  PROVE  Inv'
  <1>1. Busy /\ UNCHANGED <<table, doomed>> /\ ses[reader.obj].st \notin {"swept", "closed"}
    BY DEF AcceptFragment, Busy, Handling
  <1>2. PICK s \in Sessions : s = ses[reader.obj] /\ Sound(s)
    BY <1>1, InHand
  <1>3. PICK p \in Packets : p = reader.pkt
    BY <1>1, InHand
  <1>4. p.key \in Keys /\ p.seq \in Seqs /\ p.seq \in Nat /\ p.frag \in Nat /\ p.frags \in Nat
    BY PacketTyped
  <1>5. s.pending \in Seq(Assemblies)
    BY DEF Sessions
  \* Whatever becomes of the packet, the assemblies stay assemblies.
  <1>6. ASSUME NEW f \in Seq(Assemblies), Drop(reader.obj, [s EXCEPT !.pending = f])
        PROVE  Inv'
    <2> DEFINE t == [s EXCEPT !.pending = f]
    <2>1. /\ t \in Sessions /\ Sound(t) /\ t.key = s.key /\ t.st = s.st
          /\ t.inFlight = s.inFlight /\ t.worker = s.worker
      BY <1>1, <1>2, PendingChanged
    <2>2. Drop(reader.obj, t)
      BY <1>6
    <2> HIDE DEF t
    <2> QED BY <1>1, <1>2, <2>1, <2>2, DropInv
  <1>7. ASSUME NEW f \in Seq(Assemblies), NEW len \in Nat,
               Pass(reader.obj, [s EXCEPT !.pending = f], p.seq, len)
        PROVE  Inv'
    <2> DEFINE t == [s EXCEPT !.pending = f]
    <2>1. /\ t \in Sessions /\ Sound(t) /\ t.key = s.key /\ t.st = s.st
          /\ t.inFlight = s.inFlight /\ t.worker = s.worker
      BY <1>1, <1>2, PendingChanged
    <2>2. Pass(reader.obj, t, p.seq, len)
      BY <1>7
    <2> HIDE DEF t
    <2> QED BY <1>1, <1>2, <1>4, <2>1, <2>2, PassInv
  <1>8. PICK gone \in 0 .. Len(s.pending) : Assemble(gone)
    BY <1>2 DEF AcceptFragment
  <1> DEFINE live == SubSeq(s.pending, gone + 1, Len(s.pending))
             new == \A i \in DOMAIN live : live[i].seq # p.seq
             evict == new /\ Len(live) >= MaxPending
             kept == IF evict THEN Tail(live) ELSE live
             at == IF new THEN Len(kept) + 1 ELSE CHOOSE i \in DOMAIN kept : kept[i].seq = p.seq
             a == IF new THEN [seq |-> p.seq, frags |-> p.frags, got |-> {}, len |-> 0] ELSE kept[at]
             others == IF new THEN kept ELSE RemoveAt(kept, at)
             a2 == [a EXCEPT !.got = @ \cup {p.frag}, !.len = @ + 1]
             more == IF new THEN Append(kept, a2) ELSE ReplaceAt(kept, at, a2)
  <1>9. \/ Drop(reader.obj, [s EXCEPT !.pending = others])
        \/ Drop(reader.obj, [s EXCEPT !.pending = kept])
        \/ Drop(reader.obj, [s EXCEPT !.pending = more])
        \/ Pass(reader.obj, [s EXCEPT !.pending = others], p.seq, a2.len)
    BY <1>2, <1>3, <1>8, ZenonT(60) DEF Assemble
  <1>10. live \in Seq(Assemblies)
    BY <1>5, SubSeqTyped, LenProperties
  <1> HIDE DEF live
  <1>11. kept \in Seq(Assemblies)
    <2>1. CASE evict
      <3>1. live # <<>>
        BY <2>1, <1>10, Bounds, EmptySeq
      <3> QED BY <2>1, <3>1, <1>10, HeadTailProperties
    <2>2. CASE ~evict
      BY <1>10, <2>2
    <2> QED BY <2>1, <2>2
  <1>12. ~new => kept = live
    OBVIOUS
  <1>13. ~new => at \in 1 .. Len(kept) /\ kept[at] \in Assemblies
    <2> SUFFICES ASSUME ~new PROVE at \in 1 .. Len(kept) /\ kept[at] \in Assemblies
      OBVIOUS
    <2>1. \E i \in DOMAIN kept : kept[i].seq = p.seq
      BY <1>12
    <2>2. at \in DOMAIN kept
      BY <2>1
    <2> HIDE DEF kept, at
    <2> QED BY <1>11, <2>2, ElementOfSeq, LenProperties
  <1> HIDE DEF kept, at, new
  <1>14. others \in Seq(Assemblies)
    BY <1>11, <1>13, RemoveAtTyped
  <1>15. a \in Assemblies
    <2>1. CASE new
      <3>1. PICK zero \in Nat : zero = 0
        OBVIOUS
      <3>2. a = [seq |-> p.seq, frags |-> p.frags, got |-> {}, len |-> zero]
        BY <2>1, <3>1
      <3> QED BY <1>4, <3>2 DEF Assemblies
    <2>2. CASE ~new
      BY <1>13, <2>2
    <2> QED BY <2>1, <2>2
  <1> HIDE DEF a, others
  <1>16. a2 \in Assemblies /\ a2.len \in Nat
    <2>1. PICK n \in Nat : n = a.len + 1
      BY <1>15 DEF Assemblies
    <2>2. PICK g \in SUBSET Nat : g = a.got \cup {p.frag}
      BY <1>4, <1>15 DEF Assemblies
    <2>3. a2 = [a EXCEPT !.got = g, !.len = n]
      BY <2>1, <2>2
    <2> HIDE DEF a2
    <2> QED BY <1>15, <2>3 DEF Assemblies
  <1> HIDE DEF a2
  <1>17. more \in Seq(Assemblies)
    <2>1. CASE new
      BY <1>11, <1>16, <2>1, AppendProperties
    <2>2. CASE ~new
      BY <1>11, <1>13, <1>16, <2>2, ExceptSeq DEF ReplaceAt
    <2> QED BY <2>1, <2>2
  <1> HIDE DEF more
  <1> QED BY <1>6, <1>7, <1>9, <1>11, <1>14, <1>16, <1>17

LEMMA ForwardInv ==
  ASSUME Inv, Forward
  PROVE  Inv'
  <1>1. Busy /\ UNCHANGED <<table, doomed>>
    BY DEF Forward, Busy, Handling
  <1>2. CASE ses[reader.obj].st = "open"
    <2>1. /\ ses' = [ses EXCEPT ![reader.obj].age = 0]
          /\ reader' = [reader EXCEPT !.pc = "enqueue"]
      BY <1>2 DEF Forward
    <2>2. "enqueue" \in Handling
      BY DEF Handling
    <2> QED BY <1>1, <2>1, <2>2, ActivityInv
  <1>3. CASE ses[reader.obj].st # "open"
    <2>1. PICK zero \in Ages : zero = 0
      BY DEF Ages
    <2>2. PICK s \in Sessions : s = ses[reader.obj] /\ Sound(s)
      BY <1>1, InHand
    <2> DEFINE t == [s EXCEPT !.age = zero]
    <2>3. /\ t \in Sessions /\ Sound(t) /\ t.key = s.key /\ t.st = s.st
          /\ t.inFlight = s.inFlight /\ t.worker = s.worker
      BY <2>2, AgeChanged
    <2>4. Drop(reader.obj, t)
      BY <1>3, <2>1, <2>2 DEF Forward
    <2> HIDE DEF t
    <2> QED BY <1>1, <2>2, <2>3, <2>4, DropInv
  <1> QED BY <1>2, <1>3

LEMMA EnqueueInv ==
  ASSUME Inv, Enqueue
  PROVE  Inv'
  <1>1. Busy /\ UNCHANGED <<table, doomed>>
    BY DEF Enqueue, Busy, Handling
  <1>2. PICK s \in Sessions : s = ses[reader.obj] /\ Sound(s)
    BY <1>1, InHand
  <1>3. PICK len \in Nat : len = reader.len
    BY <1>1, InHand
  <1>4. CASE Drop(reader.obj, s)
    BY <1>1, <1>2, <1>4, DropInv
  <1>5. ASSUME NEW drop \in 0 .. Len(s.queue), ~QueueClosed(s),
               Drop(reader.obj, [s EXCEPT !.queue = Append(SubSeq(s.queue, drop + 1, Len(s.queue)),
                                                           [len |-> len]),
                                          !.ready = TRUE])
        PROVE  Inv'
    <2>1. s.queue \in Seq(Lens) /\ Len(s.queue) \in Nat
      BY LenProperties DEF Sessions
    <2>2. SubSeq(s.queue, drop + 1, Len(s.queue)) \in Seq(Lens)
      BY <2>1, SubSeqTyped
    <2>3. [len |-> len] \in Lens
      BY DEF Lens
    <2>4. PICK Q \in Seq(Lens) : Q = Append(SubSeq(s.queue, drop + 1, Len(s.queue)), [len |-> len])
      BY <2>2, <2>3, AppendProperties
    <2> DEFINE t == [s EXCEPT !.queue = Q, !.ready = TRUE]
    <2>5. Drop(reader.obj, t)
      BY <1>5, <2>4
    <2>6. t \in Sessions
      BY DEF Sessions
    <2>7. /\ t.key = s.key /\ t.st = s.st /\ t.inFlight = s.inFlight /\ t.worker = s.worker
          /\ t.ready = TRUE /\ t.lease = s.lease /\ t.pending = s.pending
          /\ t.seen = s.seen /\ t.highest = s.highest /\ t.handed = s.handed
      BY DEF Sessions
    <2> HIDE DEF t
    <2>8. Windowed(t)
      BY <1>2, <2>7 DEF Sound, Windowed
    <2>9. t.st \in {"open", "done"}
      BY <1>5, <2>7 DEF QueueClosed
    <2>10. Awake(t) /\ Behind(t) /\ Leasing(t) /\ NotYet(t)
      BY <1>2, <2>7, <2>9 DEF Sound, Awake, Behind, Leasing, NotYet
    <2>11. Sound(t)
      BY <2>8, <2>10 DEF Sound
    <2> QED BY <1>1, <1>2, <2>5, <2>6, <2>7, <2>11, DropInv
  <1>6. \/ Drop(reader.obj, s)
        \/ \E drop \in 0 .. Len(s.queue) :
             /\ ~QueueClosed(s)
             /\ \/ Drop(reader.obj, s)
                \/ Drop(reader.obj, [s EXCEPT !.queue = Append(SubSeq(s.queue, drop + 1, Len(s.queue)),
                                                               [len |-> len]),
                                              !.ready = TRUE])
    BY <1>2, <1>3 DEF Enqueue
  <1> QED BY <1>4, <1>5, <1>6

LEMMA ShutdownInv ==
  ASSUME Inv, Shutdown
  PROVE  Inv'
  <1>1. UNCHANGED <<table, ses>> /\ reader' = [Listening EXCEPT !.pc = "stopped"] /\ reader.pc = "read"
        /\ doomed \subseteq doomed'
    BY DEF Shutdown
  <1>2. /\ reader' \in Readers /\ reader'.counted = FALSE /\ reader'.pc \notin Handling
    BY <1>1 DEF Listening, Readers, ReaderPlaces, Handling
  <1>3. reader.counted = FALSE
    BY <1>1 DEF Inv, Typed, Readers, Handling
  <1>4. \A q \in Objs : ByReader(q)' = ByReader(q)
    BY <1>2, <1>3 DEF ByReader
  <1>5. Typed'
    BY <1>1, <1>2 DEF Inv, Typed
  <1>6. \A q \in Objs : Sound(ses[q])'
    BY <1>1 DEF Inv, Sound, Windowed, Awake, Behind, Leasing, NotYet
  <1>7. InFlightExact'
    BY <1>1, <1>4 DEF Inv, InFlightExact, ByWorker
  <1>8. OpenIsListed'
    BY <1>1 DEF Inv, OpenIsListed
  <1> QED BY <1>5, <1>6, <1>7, <1>8 DEF Inv

-----------------------------------------------------------------------------
(* The worker. *)

\* The other steps change the place, the token, the lease or the counters.
LEMMA TakeTokenInv ==
  ASSUME Inv, NEW o \in Objs, TakeToken(o)
  PROVE  Inv'
  <1>1. PICK s \in Sessions : s = ses[o] /\ Sound(s)
    BY DEF Inv, Typed
  <1> DEFINE r == [s EXCEPT !.ready = FALSE, !.worker = "token"]
  <1>2. /\ s.worker = "idle" /\ ses' = [ses EXCEPT ![o] = r] /\ UNCHANGED <<table, doomed, reader>>
    BY <1>1 DEF TakeToken, Inv, Typed, Sessions
  <1>3. r \in Sessions
    BY DEF Sessions, WorkerPlaces
  <1>4. /\ r.key = s.key /\ r.st = s.st /\ r.inFlight = s.inFlight /\ r.worker = "token"
        /\ r.queue = s.queue /\ r.pending = s.pending /\ r.lease = s.lease
        /\ r.seen = s.seen /\ r.highest = s.highest /\ r.handed = s.handed
    BY DEF Sessions
  <1> HIDE DEF r
  <1>5. Windowed(r)
    BY <1>1, <1>4 DEF Sound, Windowed
  <1>6. Awake(r) /\ Behind(r) /\ Leasing(r) /\ NotYet(r)
    BY <1>1, <1>2, <1>4 DEF Sound, Awake, Behind, Leasing, NotYet
  <1>7. ByWorker(r) = 0 /\ ByWorker(s) = 0
    BY <1>2, <1>4 DEF ByWorker
  <1>8. r.inFlight + ByWorker(s) = s.inFlight + ByWorker(r)
    BY <1>4, <1>7
  <1> QED BY <1>1, <1>2, <1>3, <1>4, <1>5, <1>6, <1>8, OneSessionAside DEF Sound

LEMMA TakePacketInv ==
  ASSUME Inv, NEW o \in Objs, TakePacket(o)
  PROVE  Inv'
  <1>1. PICK s \in Sessions : s = ses[o] /\ Sound(s)
    BY DEF Inv, Typed
  <1>2. s.worker = "token" /\ UNCHANGED <<table, doomed, reader>>
    BY <1>1 DEF TakePacket
  <1>3. s.queue \in Seq(Lens) /\ s.inFlight \in Nat /\ s.ready \in BOOLEAN
    BY DEF Sessions
  <1>4. CASE s.queue = <<>>
    <2> DEFINE r == [s EXCEPT !.worker = "idle"]
    <2>1. ses' = [ses EXCEPT ![o] = r]
      BY <1>1, <1>4 DEF TakePacket
    <2>2. r \in Sessions
      BY DEF Sessions, WorkerPlaces
    <2>3. /\ r.key = s.key /\ r.st = s.st /\ r.inFlight = s.inFlight /\ r.worker = "idle"
          /\ r.queue = <<>> /\ r.pending = s.pending /\ r.lease = s.lease
          /\ r.seen = s.seen /\ r.highest = s.highest /\ r.handed = s.handed
      BY <1>4 DEF Sessions
    <2> HIDE DEF r
    <2>4. Windowed(r)
      BY <1>1, <2>3 DEF Sound, Windowed
    <2>5. Awake(r) /\ Behind(r) /\ Leasing(r) /\ NotYet(r)
      BY <1>1, <1>2, <2>3 DEF Sound, Awake, Behind, Leasing, NotYet
    <2>6. ByWorker(r) = 0 /\ ByWorker(s) = 0
      BY <1>2, <2>3 DEF ByWorker
    <2>7. r.inFlight + ByWorker(s) = s.inFlight + ByWorker(r)
      BY <2>3, <2>6
    <2> QED BY <1>1, <1>2, <2>1, <2>2, <2>3, <2>4, <2>5, <2>7, OneSessionAside DEF Sound
  <1>5. CASE s.queue # <<>>
    <2>1. /\ Tail(s.queue) \in Seq(Lens) /\ Len(Tail(s.queue)) = Len(s.queue) - 1
          /\ Head(s.queue) \in Lens
      BY <1>3, <1>5, HeadTailProperties
    <2>2. PICK Q \in Seq(Lens) : Q = Tail(s.queue)
      BY <2>1
    <2>3. PICK n \in Nat : n = s.inFlight + 1
      BY <1>3
    <2>4. PICK l \in Nat : l = Head(s.queue).len
      BY <2>1 DEF Lens
    <2>5. PICK y \in BOOLEAN : y = (s.ready \/ Len(s.queue) > 1)
      OBVIOUS
    <2>6. Q # <<>> => y = TRUE
      <3>1. Q # <<>> => Len(Q) \in Nat \ {0}
        BY EmptySeq
      <3>2. Len(s.queue) \in Nat
        BY <1>3, LenProperties
      <3>3. Q # <<>> => Len(s.queue) > 1
        BY <2>1, <2>2, <3>1, <3>2
      <3> QED BY <2>5, <3>3, Zenon
    <2> DEFINE r == [s EXCEPT !.queue = Q, !.worker = "write", !.lease = l, !.inFlight = n, !.ready = y]
    <2>7. ses' = [ses EXCEPT ![o] = r]
      BY <1>1, <1>5, <2>2, <2>3, <2>4, <2>5 DEF TakePacket
    <2>8. r \in Sessions
      BY DEF Sessions, WorkerPlaces
    <2>9. /\ r.key = s.key /\ r.st = s.st /\ r.inFlight = n /\ r.worker = "write"
          /\ r.queue = Q /\ r.ready = y /\ r.pending = s.pending /\ r.lease = l
          /\ r.seen = s.seen /\ r.highest = s.highest /\ r.handed = s.handed
      BY DEF Sessions
    <2> HIDE DEF r
    <2>10. Windowed(r)
      BY <1>1, <2>9 DEF Sound, Windowed
    <2>11. Awake(r) /\ Behind(r) /\ Leasing(r) /\ NotYet(r)
      BY <1>1, <1>2, <1>5, <2>6, <2>9 DEF Sound, Awake, Behind, Leasing, NotYet
    <2>12. ByWorker(r) = 1 /\ ByWorker(s) = 0
      BY <1>2, <2>9 DEF ByWorker
    <2>13. r.inFlight + ByWorker(s) = s.inFlight + ByWorker(r)
      BY <1>3, <2>3, <2>9, <2>12
    <2> QED BY <1>1, <1>2, <2>7, <2>8, <2>9, <2>10, <2>11, <2>13, OneSessionAside DEF Sound
  <1> QED BY <1>4, <1>5

\* packet.done() gives back the lease and the count.
LEMMA LeasedTyped ==
  ASSUME NEW s \in Sessions, Sound(s), s.worker \in {"write", "closing"}, s.inFlight > 0,
         s.worker = "closing" => s.st = "closed"
  PROVE  LET r == Leased(s) IN
         /\ r \in Sessions /\ Sound(r) /\ r.key = s.key /\ r.st = s.st
         /\ r.inFlight + ByWorker(s) = s.inFlight + ByWorker(r)
         /\ r.queue = s.queue /\ r.pending = s.pending /\ r.lease = 0 /\ r.seen = s.seen
  <1>1. PICK n \in Nat : n = s.inFlight - 1
    BY DEF Sessions
  <1>2. PICK zero \in Nat : zero = 0
    OBVIOUS
  <1> DEFINE r == [s EXCEPT !.worker = "idle", !.lease = zero, !.inFlight = n]
  <1>3. Leased(s) = r
    BY <1>1, <1>2 DEF Leased
  <1>4. r \in Sessions
    BY DEF Sessions, WorkerPlaces
  <1>5. /\ r.key = s.key /\ r.st = s.st /\ r.inFlight = n /\ r.worker = "idle"
        /\ r.queue = s.queue /\ r.ready = s.ready /\ r.pending = s.pending /\ r.lease = zero
        /\ r.seen = s.seen /\ r.highest = s.highest /\ r.handed = s.handed
    BY DEF Sessions
  <1> HIDE DEF r
  <1>6. Windowed(r)
    BY <1>5 DEF Sound, Windowed
  <1>7. Awake(r) /\ Behind(r) /\ Leasing(r) /\ NotYet(r)
    BY <1>2, <1>5 DEF Sound, Awake, Behind, Leasing, NotYet
  <1>8. ByWorker(r) = 0 /\ ByWorker(s) = 1 /\ s.inFlight \in Nat
    BY <1>5 DEF ByWorker, Sessions
  <1>9. r.inFlight + ByWorker(s) = s.inFlight + ByWorker(r)
    BY <1>1, <1>5, <1>8
  <1> QED BY <1>2, <1>3, <1>4, <1>5, <1>6, <1>7, <1>9 DEF Sound

LEMMA Leaseholder ==
  ASSUME Inv, NEW o \in Objs, ses[o].worker \in {"write", "closing"}
  PROVE  ses[o] \in Sessions /\ Sound(ses[o]) /\ ses[o].inFlight > 0
  <1>1. ses[o] \in Sessions /\ Sound(ses[o])
    BY DEF Inv, Typed
  <1>2. ses[o].inFlight = ByWorker(ses[o]) + ByReader(o)
    BY DEF Inv, InFlightExact
  <1>3. ByWorker(ses[o]) = 1 /\ ByReader(o) \in 0 .. 1
    BY DEF ByWorker, ByReader
  <1> QED BY <1>1, <1>2, <1>3

LEMMA LeasedInv ==
  ASSUME Inv, NEW o \in Objs, DropStale(o) \/ WriteFailed(o)
  PROVE  Inv'
  <1>1. /\ ses[o].worker \in {"write", "closing"} /\ UNCHANGED <<table, doomed, reader>>
        /\ ses' = [ses EXCEPT ![o] = Leased(ses[o])]
        /\ ses[o].worker = "closing" => ses[o].st = "closed"
    BY DEF DropStale, WriteFailed, Inv, Typed
  <1>2. PICK s \in Sessions : s = ses[o] /\ Sound(s) /\ s.inFlight > 0
    BY <1>1, Leaseholder
  <1>3. /\ Leased(s) \in Sessions /\ Sound(Leased(s)) /\ Leased(s).key = s.key /\ Leased(s).st = s.st
        /\ Leased(s).inFlight + ByWorker(s) = s.inFlight + ByWorker(Leased(s))
    BY <1>1, <1>2, LeasedTyped
  <1> QED BY <1>1, <1>2, <1>3, OneSessionAside

LEMMA WriteInv ==
  ASSUME Inv, NEW o \in Objs, Write(o)
  PROVE  Inv'
  <1>1. PICK zero \in Ages : zero = 0
    BY DEF Ages
  <1>2. /\ ses[o].worker = "write" /\ UNCHANGED <<table, doomed, reader>>
        /\ ses' = [ses EXCEPT ![o] = [Leased(ses[o]) EXCEPT !.age = zero]]
    BY <1>1 DEF Write, Inv, Typed
  <1>3. PICK s \in Sessions : s = ses[o] /\ Sound(s) /\ s.inFlight > 0
    BY <1>2, Leaseholder
  <1>4. PICK t \in Sessions : t = Leased(s) /\ Sound(t) /\ t.key = s.key /\ t.st = s.st
                              /\ t.inFlight + ByWorker(s) = s.inFlight + ByWorker(t)
    BY <1>2, <1>3, LeasedTyped
  <1> DEFINE r == [t EXCEPT !.age = zero]
  <1>5. /\ r \in Sessions /\ Sound(r) /\ r.key = t.key /\ r.st = t.st
        /\ r.inFlight = t.inFlight /\ r.worker = t.worker
    BY <1>4, AgeChanged
  <1>6. ses' = [ses EXCEPT ![o] = r]
    BY <1>2, <1>3, <1>4
  <1> HIDE DEF r
  <1>7. ByWorker(r) = ByWorker(t)
    BY <1>5 DEF ByWorker
  <1> QED BY <1>2, <1>3, <1>4, <1>5, <1>6, <1>7, OneSessionAside

\* close() has begun; whoever else calls it finds it begun.
LEMMA ClosingTyped ==
  ASSUME NEW s \in Sessions, Sound(s)
  PROVE  LET r == Closing(s) IN
         /\ r \in Sessions /\ Sound(r) /\ r.key = s.key /\ r.st # "open"
         /\ r.inFlight = s.inFlight /\ r.worker = s.worker /\ r.lease = s.lease
         /\ Alike(s, r)
  <1>1. PICK z \in Stages : z = (IF s.st = "open" THEN "done" ELSE s.st)
    BY DEF Sessions, Stages
  <1> DEFINE r == [s EXCEPT !.st = z]
  <1>2. Closing(s) = r
    BY <1>1 DEF Closing
  <1>3. r \in Sessions
    BY DEF Sessions
  <1>4. /\ r.key = s.key /\ r.st = z /\ r.inFlight = s.inFlight /\ r.worker = s.worker
        /\ r.queue = s.queue /\ r.ready = s.ready /\ r.pending = s.pending /\ r.lease = s.lease
        /\ r.seen = s.seen /\ r.highest = s.highest /\ r.handed = s.handed
    BY DEF Sessions
  <1> HIDE DEF r
  <1>5. Windowed(r)
    BY <1>4 DEF Sound, Windowed
  <1>6. Awake(r) /\ Behind(r) /\ Leasing(r) /\ NotYet(r)
    BY <1>1, <1>4 DEF Sound, Awake, Behind, Leasing, NotYet
  <1>7. r.st # "open" /\ (r.st = "unused" <=> s.st = "unused")
    BY <1>1, <1>4
  <1> QED BY <1>2, <1>3, <1>4, <1>5, <1>6, <1>7 DEF Sound, Alike

LEMMA WriteFailsInv ==
  ASSUME Inv, NEW o \in Objs, WriteFails(o)
  PROVE  Inv'
  <1>1. PICK s \in Sessions : s = ses[o] /\ Sound(s)
    BY DEF Inv, Typed
  <1>2. PICK t \in Sessions : /\ t = Closing(s) /\ Sound(t) /\ t.key = s.key /\ t.st # "open"
                              /\ t.inFlight = s.inFlight /\ t.worker = s.worker
    BY <1>1, ClosingTyped
  <1> DEFINE r == [t EXCEPT !.worker = "closing"]
  <1>3. /\ s.worker = "write" /\ UNCHANGED <<table, doomed, reader>> /\ ses' = [ses EXCEPT ![o] = r]
    BY <1>1, <1>2 DEF WriteFails, Inv, Typed
  <1>4. r \in Sessions
    BY DEF Sessions, WorkerPlaces
  <1>5. /\ r.key = t.key /\ r.st = t.st /\ r.inFlight = t.inFlight /\ r.worker = "closing"
        /\ r.queue = t.queue /\ r.ready = t.ready /\ r.pending = t.pending /\ r.lease = t.lease
        /\ r.seen = t.seen /\ r.highest = t.highest /\ r.handed = t.handed
    BY DEF Sessions
  <1> HIDE DEF r
  <1>6. Windowed(r)
    BY <1>2, <1>5 DEF Sound, Windowed
  <1>7. Awake(r) /\ Behind(r) /\ Leasing(r) /\ NotYet(r)
    BY <1>2, <1>3, <1>5 DEF Sound, Awake, Behind, Leasing, NotYet
  <1>8. ByWorker(r) = 1 /\ ByWorker(s) = 1
    BY <1>3, <1>5 DEF ByWorker
  <1>9. r.inFlight + ByWorker(s) = s.inFlight + ByWorker(r)
    BY <1>2, <1>5, <1>8
  <1> QED BY <1>1, <1>2, <1>3, <1>4, <1>5, <1>6, <1>7, <1>9, OneSessionAside DEF Sound

LEMMA WorkerEndsInv ==
  ASSUME Inv, NEW o \in Objs, WorkerEnds(o)
  PROVE  Inv'
  <1>1. PICK s \in Sessions : s = ses[o] /\ Sound(s)
    BY DEF Inv, Typed
  <1> DEFINE r == [s EXCEPT !.worker = "ended"]
  <1>2. /\ s.worker = "idle" /\ s.st # "open" /\ UNCHANGED <<table, doomed, reader>>
        /\ ses' = [ses EXCEPT ![o] = r]
    BY <1>1 DEF WorkerEnds, Inv, Typed
  <1>3. r \in Sessions
    BY DEF Sessions, WorkerPlaces
  <1>4. /\ r.key = s.key /\ r.st = s.st /\ r.inFlight = s.inFlight /\ r.worker = "ended"
        /\ r.queue = s.queue /\ r.pending = s.pending /\ r.lease = s.lease
        /\ r.seen = s.seen /\ r.highest = s.highest /\ r.handed = s.handed
    BY DEF Sessions
  <1> HIDE DEF r
  <1>5. Windowed(r)
    BY <1>1, <1>4 DEF Sound, Windowed
  <1>6. Awake(r) /\ Behind(r) /\ Leasing(r) /\ NotYet(r)
    BY <1>1, <1>2, <1>4 DEF Sound, Awake, Behind, Leasing, NotYet
  <1>7. ByWorker(r) = 0 /\ ByWorker(s) = 0
    BY <1>2, <1>4 DEF ByWorker
  <1>8. r.inFlight + ByWorker(s) = s.inFlight + ByWorker(r)
    BY <1>4, <1>7
  <1> QED BY <1>1, <1>2, <1>3, <1>4, <1>5, <1>6, <1>8, OneSessionAside DEF Sound

LEMMA ReadTargetFailsInv ==
  ASSUME Inv, NEW o \in Objs, ReadTargetFails(o)
  PROVE  Inv'
  <1>1. PICK s \in Sessions : s = ses[o] /\ Sound(s)
    BY DEF Inv, Typed
  <1>2. PICK r \in Sessions : /\ r = Closing(s) /\ Sound(r) /\ r.key = s.key /\ r.st # "open"
                              /\ r.inFlight = s.inFlight /\ r.worker = s.worker
    BY <1>1, ClosingTyped
  <1>3. /\ UNCHANGED <<table, doomed, reader>> /\ ses' = [ses EXCEPT ![o] = r]
    BY <1>1, <1>2 DEF ReadTargetFails, Inv, Typed
  <1>4. ByWorker(r) = ByWorker(s)
    BY <1>2 DEF ByWorker
  <1> QED BY <1>1, <1>2, <1>3, <1>4, OneSessionAside

-----------------------------------------------------------------------------
(* close(). *)

LEMMA CloseQueueInv ==
  ASSUME Inv, NEW o \in Objs, CloseQueue(o)
  PROVE  Inv'
  <1>1. PICK s \in Sessions : s = ses[o] /\ Sound(s)
    BY DEF Inv, Typed
  <1>2. PICK Q \in Seq(Lens) : Q = <<>>
    BY EmptySeq
  <1> DEFINE r == [s EXCEPT !.st = "drained", !.queue = Q, !.ready = FALSE]
  <1>3. s.st = "done" /\ UNCHANGED <<table, doomed, reader>> /\ ses' = [ses EXCEPT ![o] = r]
    BY <1>1, <1>2 DEF CloseQueue, Inv, Typed, Sessions
  <1>4. r \in Sessions
    BY DEF Sessions, Stages
  <1>5. /\ r.key = s.key /\ r.st = "drained" /\ r.inFlight = s.inFlight /\ r.worker = s.worker
        /\ r.queue = <<>> /\ r.pending = s.pending /\ r.lease = s.lease
        /\ r.seen = s.seen /\ r.highest = s.highest /\ r.handed = s.handed
    BY <1>2 DEF Sessions
  <1> HIDE DEF r
  <1>6. Windowed(r)
    BY <1>1, <1>5 DEF Sound, Windowed
  <1>7. Awake(r) /\ Behind(r) /\ Leasing(r) /\ NotYet(r) /\ ByWorker(r) = ByWorker(s)
    BY <1>1, <1>3, <1>5 DEF Sound, Awake, Behind, Leasing, NotYet, ByWorker
  <1> QED BY <1>1, <1>3, <1>4, <1>5, <1>6, <1>7, OneSessionAside DEF Sound

LEMMA CloseFragmentsInv ==
  ASSUME Inv, NEW o \in Objs, CloseFragments(o)
  PROVE  Inv'
  <1>1. PICK s \in Sessions : s = ses[o] /\ Sound(s)
    BY DEF Inv, Typed
  <1>2. PICK Q \in Seq(Assemblies) : Q = <<>>
    BY EmptySeq
  <1> DEFINE r == [s EXCEPT !.st = "swept", !.pending = Q]
  <1>3. s.st = "drained" /\ UNCHANGED <<table, doomed, reader>> /\ ses' = [ses EXCEPT ![o] = r]
    BY <1>1, <1>2 DEF CloseFragments, Inv, Typed, Sessions
  <1>4. r \in Sessions
    BY DEF Sessions, Stages
  <1>5. /\ r.key = s.key /\ r.st = "swept" /\ r.inFlight = s.inFlight /\ r.worker = s.worker
        /\ r.queue = s.queue /\ r.pending = <<>> /\ r.lease = s.lease
        /\ r.seen = s.seen /\ r.highest = s.highest /\ r.handed = s.handed
    BY <1>2 DEF Sessions
  <1> HIDE DEF r
  <1>6. Windowed(r)
    BY <1>1, <1>5 DEF Sound, Windowed
  <1>7. Awake(r) /\ Behind(r) /\ Leasing(r) /\ NotYet(r) /\ ByWorker(r) = ByWorker(s)
    BY <1>1, <1>3, <1>5 DEF Sound, Awake, Behind, Leasing, NotYet, ByWorker
  <1> QED BY <1>1, <1>3, <1>4, <1>5, <1>6, <1>7, OneSessionAside DEF Sound

LEMMA RemoveSessionInv ==
  ASSUME Inv, NEW o \in Objs, RemoveSession(o)
  PROVE  Inv'
  <1>1. PICK s \in Sessions : s = ses[o] /\ Sound(s)
    BY DEF Inv, Typed
  <1> DEFINE r == Closed(s)
  <1>2. /\ s.st = "swept" /\ UNCHANGED <<doomed, reader>> /\ ses' = [ses EXCEPT ![o] = r]
        /\ table' = [table EXCEPT ![s.key] = IF table[s.key] = o THEN None ELSE table[s.key]]
    BY <1>1 DEF RemoveSession, Inv, Typed
  <1>3. s.key \in Keys
    BY <1>1, <1>2 DEF Sound, NotYet
  <1>4. Unused \in Sessions /\ s.inFlight \in Nat /\ s.worker \in WorkerPlaces /\ s.lease \in Nat
    BY UnusedTyped DEF Sessions
  <1>5. r \in Sessions
    BY <1>3, <1>4 DEF Closed, Sessions, Stages
  <1>6. /\ r.key = s.key /\ r.st = "closed" /\ r.inFlight = s.inFlight /\ r.worker = s.worker
        /\ r.lease = s.lease /\ r.queue = <<>> /\ r.pending = <<>>
        /\ r.handed = [q \in Seqs |-> 0]
    BY DEF Closed, Unused
  <1> HIDE DEF r
  <1>7. Windowed(r)
    BY <1>6 DEF Windowed
  <1>8. Awake(r) /\ Behind(r) /\ Leasing(r) /\ NotYet(r) /\ ByWorker(r) = ByWorker(s)
    BY <1>1, <1>3, <1>6 DEF Sound, Awake, Behind, Leasing, NotYet, ByWorker
  <1>9. Sound(r)
    BY <1>7, <1>8 DEF Sound
  <1>10. table \in [Keys -> Objs \cup {None}]
    BY DEF Inv, Typed
  <1>11. /\ table' \in [Keys -> Objs \cup {None}]
         /\ \A k \in Keys : table[k] # o => table'[k] = table[k]
    BY <1>2, <1>3, <1>10
  <1>12. /\ reader' \in Readers
         /\ reader'.pc \in Handling => reader'.obj \in Objs /\ reader'.pkt \in Packets
         /\ reader'.counted => reader'.pc \in Handling
    BY <1>2 DEF Inv, Typed
  <1>13. \A q \in Objs : ByReader(q)' = ByReader(q)
    BY <1>2 DEF ByReader
  <1>14. r.inFlight = ByWorker(r) + ByReader(o)'
    BY <1>1, <1>6, <1>8, <1>13 DEF Inv, InFlightExact
  <1>15. \A q \in Objs : q # o /\ ses[q].st = "open" => table'[ses[q].key] = q \/ q \in doomed'
    <2> SUFFICES ASSUME NEW q \in Objs, q # o, ses[q].st = "open", q \notin doomed
                 PROVE  table'[ses[q].key] = q
      BY <1>2
    <2>1. table[ses[q].key] = q
      BY DEF Inv, OpenIsListed
    <2>2. ses[q].key \in Keys
      BY DEF Inv, Sound, NotYet
    <2> QED BY <1>11, <2>1, <2>2
  <1>16. r.st # "open"
    BY <1>6
  <1> QED BY <1>2, <1>5, <1>9, <1>11, <1>12, <1>13, <1>14, <1>15, <1>16, OneSession

LEMMA CloseDoomedInv ==
  ASSUME Inv, NEW o \in Objs, CloseDoomed(o)
  PROVE  Inv'
  <1>1. PICK s \in Sessions : s = ses[o] /\ Sound(s)
    BY DEF Inv, Typed
  <1>2. PICK r \in Sessions : /\ r = Closing(s) /\ Sound(r) /\ r.key = s.key /\ r.st # "open"
                              /\ r.inFlight = s.inFlight /\ r.worker = s.worker
    BY <1>1, ClosingTyped
  <1>3. /\ UNCHANGED <<table, reader>> /\ ses' = [ses EXCEPT ![o] = r] /\ doomed' = doomed \ {o}
    BY <1>1, <1>2 DEF CloseDoomed, Inv, Typed
  <1>4. ByWorker(r) = ByWorker(s)
    BY <1>2 DEF ByWorker
  <1>5. table' \in [Keys -> Objs \cup {None}]
    BY <1>3 DEF Inv, Typed
  <1>6. /\ reader' \in Readers
        /\ reader'.pc \in Handling => reader'.obj \in Objs /\ reader'.pkt \in Packets
        /\ reader'.counted => reader'.pc \in Handling
    BY <1>3 DEF Inv, Typed
  <1>7. \A q \in Objs : ByReader(q)' = ByReader(q)
    BY <1>3 DEF ByReader
  <1>8. r.inFlight = ByWorker(r) + ByReader(o)'
    BY <1>1, <1>2, <1>4, <1>7 DEF Inv, InFlightExact
  <1>9. \A q \in Objs : q # o /\ ses[q].st = "open" => table'[ses[q].key] = q \/ q \in doomed'
    BY <1>3 DEF Inv, OpenIsListed
  <1> QED BY <1>2, <1>3, <1>5, <1>6, <1>7, <1>8, <1>9, OneSession

-----------------------------------------------------------------------------
(* The sweeper. *)

LEMMA TickInv ==
  ASSUME Inv, NEW o \in Objs, Tick(o)
  PROVE  Inv'
  <1>1. PICK s \in Sessions : s = ses[o] /\ Sound(s)
    BY DEF Inv, Typed
  <1>2. s.age \in 0 .. 3
    BY DEF Sessions, Ages
  <1>3. PICK a \in s.age + 1 .. 3 : ses' = [ses EXCEPT ![o].age = a]
    BY <1>1 DEF Tick
  <1>4. a \in Ages
    BY <1>2, <1>3 DEF Ages
  <1> DEFINE r == [s EXCEPT !.age = a]
  <1>5. /\ r \in Sessions /\ Sound(r) /\ r.key = s.key /\ r.st = s.st
        /\ r.inFlight = s.inFlight /\ r.worker = s.worker
    BY <1>1, <1>4, AgeChanged
  <1>6. ses' = [ses EXCEPT ![o] = r] /\ UNCHANGED <<table, doomed, reader>>
    BY <1>1, <1>3 DEF Inv, Typed, Tick
  <1> HIDE DEF r
  <1>7. ByWorker(r) = ByWorker(s)
    BY <1>5 DEF ByWorker
  <1> QED BY <1>1, <1>5, <1>6, <1>7, OneSessionAside

LEMMA ExpireFragmentsInv ==
  ASSUME Inv, NEW o \in Objs, ExpireFragments(o)
  PROVE  Inv'
  <1>1. PICK s \in Sessions : s = ses[o] /\ Sound(s)
    BY DEF Inv, Typed
  <1>2. s.pending # <<>> /\ s.st \notin {"swept", "closed"} /\ UNCHANGED <<table, doomed, reader>>
    BY <1>1 DEF ExpireFragments
  <1>3. PICK f \in Seq(Assemblies) : f = Tail(s.pending)
    BY <1>2, HeadTailProperties DEF Sessions
  <1> DEFINE r == [s EXCEPT !.pending = f]
  <1>4. /\ r \in Sessions /\ Sound(r) /\ r.key = s.key /\ r.st = s.st
        /\ r.inFlight = s.inFlight /\ r.worker = s.worker
    BY <1>1, <1>2, PendingChanged
  <1>5. ses' = [ses EXCEPT ![o] = r]
    BY <1>1, <1>3 DEF ExpireFragments, Inv, Typed
  <1> HIDE DEF r
  <1>6. ByWorker(r) = ByWorker(s)
    BY <1>4 DEF ByWorker
  <1> QED BY <1>1, <1>2, <1>4, <1>5, <1>6, OneSessionAside

LEMMA SweepInv ==
  ASSUME Inv, Sweep
  PROVE  Inv'
  <1>1. UNCHANGED <<ses, reader>>
    BY DEF Sweep
  <1>2. PICK gone : /\ doomed' = doomed \cup gone
                    /\ table' = [k \in Keys |-> IF table[k] \in gone THEN None ELSE table[k]]
    <2>1. \E V : /\ doomed' = doomed \cup {o \in Listed : Expired(ses[o])} \cup V
                 /\ table' = [k \in Keys |-> IF table[k] \in {o \in Listed : Expired(ses[o])} \cup V
                                             THEN None ELSE table[k]]
      BY DEF Sweep
    <2>2. PICK V : /\ doomed' = doomed \cup {o \in Listed : Expired(ses[o])} \cup V
                   /\ table' = [k \in Keys |-> IF table[k] \in {o \in Listed : Expired(ses[o])} \cup V
                                               THEN None ELSE table[k]]
      BY <2>1
    <2> WITNESS {o \in Listed : Expired(ses[o])} \cup V
    <2>3. doomed' = doomed \cup ({o \in Listed : Expired(ses[o])} \cup V)
      BY <2>2
    <2> QED BY <2>2, <2>3
  <1>3. Typed'
    BY <1>1, <1>2 DEF Inv, Typed
  <1>4. \A q \in Objs : Sound(ses[q])'
    BY <1>1 DEF Inv, Sound, Windowed, Awake, Behind, Leasing, NotYet
  <1>5. InFlightExact'
    BY <1>1 DEF Inv, InFlightExact, ByWorker, ByReader
  <1>6. OpenIsListed'
    <2> SUFFICES ASSUME NEW q \in Objs, ses[q].st = "open"
                 PROVE  table'[ses[q].key] = q \/ q \in doomed'
      BY <1>1 DEF OpenIsListed
    <2>1. ses[q].key \in Keys
      BY DEF Inv, Sound, NotYet
    <2>2. table[ses[q].key] = q \/ q \in doomed
      BY DEF Inv, OpenIsListed
    <2> QED BY <1>2, <2>1, <2>2
  <1> QED BY <1>3, <1>4, <1>5, <1>6 DEF Inv

-----------------------------------------------------------------------------
(* All together. *)

LEMMA InitInv ==
  ASSUME Init
  PROVE  Inv
  <1>1. \A o \in Objs : ses[o] = Unused
    BY DEF Init
  <1>2. Typed
    BY UnusedTyped, ListeningTyped DEF Init, Typed, Handling
  <1>3. \A o \in Objs : Sound(ses[o])
    BY <1>1, UnusedTyped
  <1>4. InFlightExact
    <2> SUFFICES ASSUME NEW o \in Objs PROVE ses[o].inFlight = ByWorker(ses[o]) + ByReader(o)
      BY DEF InFlightExact
    <2>1. ses[o] = Unused /\ ByReader(o) = 0
      BY <1>1, ListeningTyped DEF Init, ByReader
    <2> QED BY <2>1, UnusedTyped
  <1>5. OpenIsListed
    BY <1>1, UnusedTyped DEF OpenIsListed
  <1> QED BY <1>2, <1>3, <1>4, <1>5 DEF Inv

LEMMA NextInv ==
  ASSUME Inv, [Next]_vars
  PROVE  Inv'
  <1>1. ASSUME NEW p \in Packets, ReadKnown(p) PROVE Inv'
    BY <1>1, ReadKnownInv
  <1>2. ASSUME NEW p \in Packets, ReadNew(p) PROVE Inv'
    BY <1>2, ReadNewInv
  <1>3. CASE ReaderStep
    BY <1>3, CheckInv, AcceptClosedInv, AcceptWholeInv, AcceptFragmentInv, ForwardInv, EnqueueInv
       DEF ReaderStep
  <1>4. CASE Shutdown
    BY <1>4, ShutdownInv
  <1>5. CASE Sweep
    BY <1>5, SweepInv
  <1>6. ASSUME NEW o \in Objs, Worker(o) PROVE Inv'
    BY <1>6, TakeTokenInv, TakePacketInv, LeasedInv, WriteInv, WriteFailsInv, WorkerEndsInv
       DEF Worker
  <1>7. ASSUME NEW o \in Objs, Close(o) PROVE Inv'
    BY <1>7, CloseQueueInv, CloseFragmentsInv, RemoveSessionInv, CloseDoomedInv DEF Close
  <1>8. ASSUME NEW o \in Objs, ReadTargetFails(o) \/ Tick(o) \/ ExpireFragments(o) PROVE Inv'
    BY <1>8, ReadTargetFailsInv, TickInv, ExpireFragmentsInv
  <1>9. CASE UNCHANGED vars
    BY <1>9 DEF vars, Inv, Typed, Sound, Windowed, Awake, Behind, Leasing, NotYet, InFlightExact,
                ByWorker, ByReader, OpenIsListed
  <1> QED BY <1>1, <1>2, <1>3, <1>4, <1>5, <1>6, <1>7, <1>8, <1>9 DEF Next

-----------------------------------------------------------------------------

\* The sessions, the reader and the table keep together what Inv says of them,
\* whatever the network, the targets and the sweeper do.
THEOREM ExitInvariance == Spec => []Inv
  <1>1. Init => Inv
    BY InitInv
  <1>2. Inv /\ [Next]_vars => Inv'
    BY NextInv
  <1> QED BY <1>1, <1>2, PTL DEF Spec

\* udpReplayWindow and the reassembler together let no datagram through twice:
\* what has been handed on is in the window, or behind it.
THEOREM NoDatagramTwice == Spec => []HandedOnce
  <1>1. Inv => HandedOnce
    BY DEF Inv, Sound, Windowed, HandedOnce
  <1> QED BY <1>1, ExitInvariance, PTL

\* A session that works is in the table, or on its way to close().
THEOREM NoSessionLost == Spec => []OpenIsListed
  <1>1. Inv => OpenIsListed
    BY DEF Inv
  <1> QED BY <1>1, ExitInvariance, PTL

\* No wake-up of a session's worker is lost.
THEOREM NoWakeUpLost == Spec => []WorkerAwake
  <1>1. Inv => WorkerAwake
    BY DEF Inv, Typed, Sessions, Sound, Awake, WorkerAwake
  <1> QED BY <1>1, ExitInvariance, PTL

\* close() leaves nothing behind it, however the reader and the worker overlap it.
THEOREM CloseIsFinal == Spec => []NothingBehindClose
  <1>1. Inv => NothingBehindClose
    BY DEF Inv, Sound, Behind, Leasing, NothingBehindClose
  <1> QED BY <1>1, ExitInvariance, PTL

-----------------------------------------------------------------------------
(* Sums. *)

\* Induction, for a set: the least number outside it would follow one inside.
LEMMA NatSet ==
  ASSUME NEW S, 0 \in S, \A n \in Nat : n \in S => n + 1 \in S
  PROVE  \A n \in Nat : n \in S
  <1> SUFFICES ASSUME NEW m \in Nat, m \notin S PROVE FALSE
    OBVIOUS
  <1> DEFINE T == {n \in Nat : n \notin S}
  <1>1. T \subseteq Nat /\ T # {}
    OBVIOUS
  <1>2. PICK x \in T : \A y \in T : ~(<<y, x>> \in OpToRel(<, Nat))
    <2> HIDE DEF T
    <2> QED BY <1>1, WFMin, NatLessThanWellFounded
  <1>3. \A y \in T : ~(y < x)
    BY <1>2 DEF OpToRel
  <1>4. x \in Nat /\ x # 0 /\ x \notin S
    BY <1>2
  <1>5. x - 1 \in Nat /\ x - 1 < x
    BY <1>4
  <1>6. x - 1 \in S
    BY <1>3, <1>5
  <1>7. (x - 1) + 1 = x
    BY <1>4
  <1> QED BY <1>4, <1>5, <1>6, <1>7

\* The sums of f up to n: g is what SumTo's recursion computes there.
Sums(f, g, n) ==
    /\ DOMAIN g = 0 .. n /\ g[0] = 0
    /\ \A i \in 1 .. n : g[i] = g[i - 1] + f[i]

LEMMA SumsExist ==
  ASSUME NEW f
  PROVE  \A n \in Nat : \E g : Sums(f, g, n)
  <1> DEFINE S == {n \in Nat : \E g : Sums(f, g, n)}
  <1>1. 0 \in S
    <2> DEFINE g == [i \in 0 .. 0 |-> 0]
    <2>1. Sums(f, g, 0)
      BY DEF Sums
    <2> QED BY <2>1
  <1>2. ASSUME NEW n \in Nat, n \in S PROVE n + 1 \in S
    <2>1. PICK g : Sums(f, g, n)
      BY <1>2
    <2> DEFINE h == [i \in 0 .. n + 1 |-> IF i = n + 1 THEN g[n] + f[n + 1] ELSE g[i]]
    <2>2. DOMAIN h = 0 .. n + 1 /\ h[0] = 0
      BY <2>1 DEF Sums
    <2>3. ASSUME NEW i \in 1 .. n + 1 PROVE h[i] = h[i - 1] + f[i]
      <3>1. i \in 0 .. n + 1 /\ i - 1 \in 0 .. n + 1 /\ i - 1 # n + 1
        OBVIOUS
      <3>2. h[i - 1] = g[i - 1]
        BY <3>1
      <3>3. CASE i = n + 1
        <4>1. i - 1 = n
          BY <3>3
        <4> QED BY <3>1, <3>2, <3>3, <4>1
      <3>4. CASE i # n + 1
        <4>1. i \in 1 .. n
          BY <3>4
        <4> QED BY <2>1, <3>1, <3>2, <3>4, <4>1 DEF Sums
      <3> QED BY <3>3, <3>4
    <2> HIDE DEF h
    <2>4. Sums(f, h, n + 1)
      BY <2>2, <2>3 DEF Sums
    <2> QED BY <2>4
  <1> HIDE DEF S
  <1>3. \A n \in Nat : n \in S
    BY <1>1, <1>2, NatSet
  <1> QED BY <1>3 DEF S

LEMMA SumsAgree ==
  ASSUME NEW f, NEW m \in Nat, NEW n \in Nat, NEW g, NEW h, Sums(f, g, m), Sums(f, h, n)
  PROVE  \A i \in Nat : i <= m /\ i <= n => g[i] = h[i]
  <1> DEFINE S == {i \in Nat : i <= m /\ i <= n => g[i] = h[i]}
  <1>1. 0 \in S
    BY DEF Sums
  <1>2. ASSUME NEW i \in Nat, i \in S PROVE i + 1 \in S
    <2> SUFFICES ASSUME i + 1 <= m, i + 1 <= n PROVE g[i + 1] = h[i + 1]
      OBVIOUS
    <2>1. i + 1 \in 1 .. m /\ i + 1 \in 1 .. n /\ (i + 1) - 1 = i /\ i <= m /\ i <= n
      OBVIOUS
    <2>2. g[i] = h[i]
      BY <1>2, <2>1
    <2> QED BY <2>1, <2>2 DEF Sums
  <1> HIDE DEF S
  <1>3. \A i \in Nat : i \in S
    BY <1>1, <1>2, NatSet
  <1> QED BY <1>3 DEF S

\* The recursion of SumTo defines what it says.
LEMMA SumToStep ==
  ASSUME NEW f
  PROVE  /\ SumTo(f, 0) = 0
         /\ \A n \in Nat : SumTo(f, n + 1) = SumTo(f, n) + f[n + 1]
  <1> DEFINE Rec(s) == s = [i \in Nat |-> IF i = 0 THEN 0 ELSE s[i - 1] + f[i]]
             sum == CHOOSE s : Rec(s)
             upTo(n) == CHOOSE g : Sums(f, g, n)
             all == [n \in Nat |-> upTo(n)[n]]
  <1>1. \A n \in Nat : Sums(f, upTo(n), n)
    BY SumsExist
  <1> HIDE DEF upTo
  <1>2. Rec(all)
    <2>1. ASSUME NEW i \in Nat PROVE all[i] = IF i = 0 THEN 0 ELSE all[i - 1] + f[i]
      <3>1. CASE i = 0
        BY <1>1, <3>1 DEF Sums
      <3>2. CASE i # 0
        <4>1. i - 1 \in Nat /\ i \in 1 .. i /\ i - 1 <= i /\ i - 1 <= i - 1
          BY <3>2
        <4>2. upTo(i)[i] = upTo(i)[i - 1] + f[i]
          BY <1>1, <4>1 DEF Sums
        <4>3. upTo(i)[i - 1] = upTo(i - 1)[i - 1]
          BY <1>1, <4>1, SumsAgree
        <4> QED BY <3>2, <4>1, <4>2, <4>3
      <3> QED BY <3>1, <3>2
    <2>2. all = [i \in Nat |-> all[i]]
      OBVIOUS
    <2> HIDE DEF all
    <2> QED BY <2>1, <2>2
  <1> HIDE DEF all
  <1>3. Rec(sum)
    BY <1>2
  <1>4. \A n : SumTo(f, n) = sum[n]
    BY DEF SumTo
  <1> HIDE DEF sum
  <1>5. sum[0] = 0
    BY <1>3
  <1>6. ASSUME NEW n \in Nat PROVE sum[n + 1] = sum[n] + f[n + 1]
    <2>1. n + 1 \in Nat /\ n + 1 # 0 /\ (n + 1) - 1 = n
      OBVIOUS
    <2> QED BY <1>3, <2>1
  <1> QED BY <1>4, <1>5, <1>6

\* A sum of naturals is one.
LEMMA SumToTyped ==
  ASSUME NEW N \in Nat, NEW f, \A i \in 1 .. N : f[i] \in Nat
  PROVE  \A n \in 0 .. N : SumTo(f, n) \in Nat
  <1> DEFINE S == {n \in Nat : n <= N => SumTo(f, n) \in Nat}
  <1>1. 0 \in S
    BY SumToStep
  <1>2. ASSUME NEW n \in Nat, n \in S PROVE n + 1 \in S
    <2>1. n + 1 <= N => n + 1 \in 1 .. N /\ n <= N
      OBVIOUS
    <2> QED BY <1>2, <2>1, SumToStep
  <1> HIDE DEF S
  <1>3. \A n \in Nat : n \in S
    BY <1>1, <1>2, NatSet
  <1> QED BY <1>3 DEF S

\* h is the first m of f and then the first k of g.
Joined(h, f, m, g, k) ==
    /\ \A i \in 1 .. m : f[i] \in Nat /\ h[i] = f[i]
    /\ \A i \in 1 .. k : g[i] \in Nat /\ h[m + i] = g[i]

LEMMA SumToSplit ==
  ASSUME NEW m \in Nat, NEW k \in Nat, NEW f, NEW g, NEW h, Joined(h, f, m, g, k)
  PROVE  SumTo(h, m + k) = SumTo(f, m) + SumTo(g, k)
  <1>0. /\ \A i \in 1 .. m : f[i] \in Nat /\ h[i] = f[i]
        /\ \A i \in 1 .. k : g[i] \in Nat /\ h[m + i] = g[i]
    BY DEF Joined
  <1>1. \A n \in Nat : n <= m => SumTo(h, n) = SumTo(f, n)
    <2> DEFINE S == {n \in Nat : n <= m => SumTo(h, n) = SumTo(f, n)}
    <2>1. 0 \in S
      BY SumToStep
    <2>2. ASSUME NEW n \in Nat, n \in S PROVE n + 1 \in S
      <3>1. n + 1 <= m => n + 1 \in 1 .. m /\ n <= m
        OBVIOUS
      <3> QED BY <1>0, <2>2, <3>1, SumToStep
    <2> HIDE DEF S
    <2>3. \A n \in Nat : n \in S
      BY <2>1, <2>2, NatSet
    <2> QED BY <2>3 DEF S
  <1> DEFINE S == {n \in Nat : n <= k => SumTo(h, m + n) = SumTo(f, m) + SumTo(g, n)}
  <1>2. SumTo(f, m) \in Nat /\ \A n \in 0 .. k : SumTo(g, n) \in Nat
    BY <1>0, SumToTyped
  <1>3. 0 \in S
    <2>1. m + 0 = m /\ m <= m
      OBVIOUS
    <2> QED BY <1>1, <1>2, <2>1, SumToStep
  <1>4. ASSUME NEW n \in Nat, n \in S PROVE n + 1 \in S
    <2> SUFFICES ASSUME n + 1 <= k PROVE SumTo(h, m + (n + 1)) = SumTo(f, m) + SumTo(g, n + 1)
      OBVIOUS
    <2>1. n + 1 \in 1 .. k /\ n <= k /\ n \in 0 .. k /\ m + (n + 1) = (m + n) + 1 /\ m + n \in Nat
      OBVIOUS
    <2>2. SumTo(h, (m + n) + 1) = SumTo(h, m + n) + h[(m + n) + 1]
      BY <2>1, SumToStep
    <2>3. SumTo(g, n + 1) = SumTo(g, n) + g[n + 1]
      BY SumToStep
    <2>4. g[n + 1] \in Nat /\ h[(m + n) + 1] = g[n + 1]
      BY <1>0, <2>1
    <2>5. SumTo(h, m + n) = SumTo(f, m) + SumTo(g, n)
      BY <1>4, <2>1
    <2> QED BY <1>2, <2>1, <2>2, <2>3, <2>4, <2>5
  <1> HIDE DEF S
  <1>5. \A n \in Nat : n \in S
    BY <1>3, <1>4, NatSet
  <1> QED BY <1>5 DEF S

\* Up to N, one summand is another.
DifferAt(f, g, j, N) ==
    \A i \in 1 .. N : f[i] \in Nat /\ g[i] \in Nat /\ (i # j => f[i] = g[i])

LEMMA SumToChanged ==
  ASSUME NEW N \in Nat, NEW j \in 1 .. N, NEW f, NEW g, DifferAt(f, g, j, N)
  PROVE  SumTo(f, N) + g[j] = SumTo(g, N) + f[j]
  <1>0. \A i \in 1 .. N : f[i] \in Nat /\ g[i] \in Nat /\ (i # j => f[i] = g[i])
    BY DEF DifferAt
  <1> DEFINE S == {n \in Nat : n <= N => IF n < j THEN SumTo(f, n) = SumTo(g, n)
                                          ELSE SumTo(f, n) + g[j] = SumTo(g, n) + f[j]}
  <1>1. 0 \in S
    BY SumToStep
  <1>2. ASSUME NEW n \in Nat, n \in S PROVE n + 1 \in S
    <2> SUFFICES ASSUME n + 1 <= N
                 PROVE  IF n + 1 < j THEN SumTo(f, n + 1) = SumTo(g, n + 1)
                        ELSE SumTo(f, n + 1) + g[j] = SumTo(g, n + 1) + f[j]
      OBVIOUS
    <2>1. n + 1 \in 1 .. N /\ n <= N /\ n \in 0 .. N
      OBVIOUS
    <2>2. f[n + 1] \in Nat /\ g[n + 1] \in Nat /\ f[j] \in Nat /\ g[j] \in Nat
          /\ (n + 1 # j => f[n + 1] = g[n + 1])
      BY <1>0, <2>1
    <2>3. SumTo(f, n) \in Nat /\ SumTo(g, n) \in Nat
      BY <1>0, <2>1, SumToTyped
    <2>4. SumTo(f, n + 1) = SumTo(f, n) + f[n + 1] /\ SumTo(g, n + 1) = SumTo(g, n) + g[n + 1]
      BY SumToStep
    <2>5. CASE n + 1 < j
      BY <1>2, <2>1, <2>2, <2>3, <2>4, <2>5
    <2>6. CASE n + 1 = j
      BY <1>2, <2>1, <2>2, <2>3, <2>4, <2>6
    <2>7. CASE n + 1 > j
      BY <1>2, <2>1, <2>2, <2>3, <2>4, <2>7
    <2> QED BY <2>5, <2>6, <2>7
  <1> HIDE DEF S
  <1>3. \A n \in Nat : n \in S
    BY <1>1, <1>2, NatSet
  <1> QED BY <1>3 DEF S

\* A summand is at most the sum.
LEMMA SumToCovers ==
  ASSUME NEW N \in Nat, NEW j \in 1 .. N, NEW f, \A i \in 1 .. N : f[i] \in Nat
  PROVE  f[j] <= SumTo(f, N)
  <1> DEFINE g == [i \in 1 .. N |-> IF i = j THEN 0 ELSE f[i]]
  <1>1. \A i \in 1 .. N : f[i] \in Nat /\ g[i] \in Nat /\ (i # j => f[i] = g[i])
    OBVIOUS
  <1>2. g[j] = 0
    OBVIOUS
  <1> HIDE DEF g
  <1>3. SumTo(f, N) + g[j] = SumTo(g, N) + f[j]
    BY <1>1, SumToChanged DEF DifferAt
  <1>4. SumTo(f, N) \in Nat /\ SumTo(g, N) \in Nat
    BY <1>1, SumToTyped
  <1> QED BY <1>1, <1>2, <1>3, <1>4

-----------------------------------------------------------------------------
(* The bytes of a queue, or of the half-assembled datagrams. *)

\* Things with a length.
LEMMA BytesTyped ==
  ASSUME NEW S, \A x \in S : x.len \in Nat, NEW q \in Seq(S)
  PROVE  Bytes(q) \in Nat
  <1> DEFINE f == [i \in 1 .. Len(q) |-> q[i].len]
  <1>1. Len(q) \in Nat /\ \A i \in 1 .. Len(q) : f[i] \in Nat
    BY LenProperties, ElementOfSeq
  <1> HIDE DEF f
  <1>2. SumTo(f, Len(q)) \in Nat
    <2>1. Len(q) \in 0 .. Len(q)
      BY <1>1
    <2> QED BY <1>1, <2>1, SumToTyped
  <1> QED BY <1>2 DEF Bytes, f

LEMMA BytesNone == Bytes(<<>>) = 0
  <1>1. Len(<<>>) = 0
    BY EmptySeq
  <1> QED BY <1>1, SumToStep DEF Bytes

LEMMA BytesConcat ==
  ASSUME NEW S, \A x \in S : x.len \in Nat, NEW q \in Seq(S), NEW r \in Seq(S)
  PROVE  Bytes(q \o r) = Bytes(q) + Bytes(r)
  <1> DEFINE f == [i \in 1 .. Len(q) |-> q[i].len]
             g == [i \in 1 .. Len(r) |-> r[i].len]
             h == [i \in 1 .. Len(q \o r) |-> (q \o r)[i].len]
  <1>1. Len(q) \in Nat /\ Len(r) \in Nat /\ Len(q \o r) = Len(q) + Len(r)
    BY LenProperties, ConcatProperties
  <1>2. \A i \in 1 .. Len(q) : f[i] \in Nat /\ h[i] = f[i]
    <2> SUFFICES ASSUME NEW i \in 1 .. Len(q) PROVE f[i] \in Nat /\ h[i] = f[i]
      OBVIOUS
    <2>1. i \in 1 .. Len(q) + Len(r) /\ i <= Len(q)
      BY <1>1
    <2>2. (q \o r)[i] = q[i] /\ q[i] \in S
      BY <2>1, ConcatProperties, ElementOfSeq
    <2> QED BY <1>1, <2>1, <2>2
  <1>3. \A i \in 1 .. Len(r) : g[i] \in Nat /\ h[Len(q) + i] = g[i]
    <2> SUFFICES ASSUME NEW i \in 1 .. Len(r) PROVE g[i] \in Nat /\ h[Len(q) + i] = g[i]
      OBVIOUS
    <2>1. Len(q) + i \in 1 .. Len(q) + Len(r) /\ ~(Len(q) + i <= Len(q)) /\ (Len(q) + i) - Len(q) = i
      BY <1>1
    <2>2. (q \o r)[Len(q) + i] = r[i] /\ r[i] \in S
      BY <2>1, ConcatProperties, ElementOfSeq
    <2> QED BY <1>1, <2>1, <2>2
  <1> HIDE DEF f, g, h
  <1>4. SumTo(h, Len(q) + Len(r)) = SumTo(f, Len(q)) + SumTo(g, Len(r))
    <2>1. PICK m \in Nat, k \in Nat : m = Len(q) /\ k = Len(r)
      BY <1>1
    <2>2. Joined(h, f, m, g, k)
      BY <1>2, <1>3, <2>1 DEF Joined
    <2>3. SumTo(h, m + k) = SumTo(f, m) + SumTo(g, k)
      BY <2>2, SumToSplit
    <2> QED BY <2>1, <2>3
  <1> QED BY <1>1, <1>4 DEF Bytes, f, g, h

LEMMA BytesOne ==
  ASSUME NEW S, NEW x \in S, x.len \in Nat
  PROVE  Bytes(<<x>>) = x.len
  <1> DEFINE f == [i \in 1 .. 1 |-> <<x>>[i].len]
  <1>1. Len(<<x>>) = 1 /\ f[1] = x.len
    OBVIOUS
  <1>2. SumTo(f, 0 + 1) = SumTo(f, 0) + f[0 + 1] /\ SumTo(f, 0) = 0
    BY SumToStep
  <1>3. SumTo(f, 1) = x.len
    BY <1>1, <1>2
  <1> QED BY <1>1, <1>3 DEF Bytes

LEMMA BytesAppend ==
  ASSUME NEW S, \A x \in S : x.len \in Nat, NEW q \in Seq(S), NEW x \in S
  PROVE  Bytes(Append(q, x)) = Bytes(q) + x.len
  <1>1. Append(q, x) = q \o <<x>> /\ <<x>> \in Seq(S)
    BY AppendIsConcat
  <1> QED BY <1>1, BytesConcat, BytesOne

LEMMA BytesSplit ==
  ASSUME NEW S, \A x \in S : x.len \in Nat, NEW q \in Seq(S), NEW d \in 0 .. Len(q)
  PROVE  /\ SubSeq(q, 1, d) \in Seq(S) /\ SubSeq(q, d + 1, Len(q)) \in Seq(S)
         /\ Len(SubSeq(q, 1, d)) = d /\ Len(SubSeq(q, d + 1, Len(q))) = Len(q) - d
         /\ Bytes(q) = Bytes(SubSeq(q, 1, d)) + Bytes(SubSeq(q, d + 1, Len(q)))
  <1>1. Len(q) \in Nat /\ d \in Nat /\ \A i \in 1 .. Len(q) : q[i] \in S
    BY LenProperties, ElementOfSeq
  <1>2. /\ \A i \in 1 .. d : q[i] \in S
        /\ \A i \in d + 1 .. Len(q) : q[i] \in S
    BY <1>1
  <1>3. SubSeq(q, 1, d) \in Seq(S) /\ Len(SubSeq(q, 1, d)) = IF 1 <= d THEN d - 1 + 1 ELSE 0
    <2>1. 1 \in Int /\ d \in Int
      BY <1>1
    <2> QED BY <1>2, <2>1, SubSeqProperties
  <1>4. /\ SubSeq(q, d + 1, Len(q)) \in Seq(S)
        /\ Len(SubSeq(q, d + 1, Len(q))) = IF d + 1 <= Len(q) THEN Len(q) - (d + 1) + 1 ELSE 0
    <2>1. d + 1 \in Int /\ Len(q) \in Int
      BY <1>1
    <2> QED BY <1>2, <2>1, SubSeqProperties
  <1>5. Len(SubSeq(q, 1, d)) = d
    BY <1>1, <1>3
  <1>6. Len(SubSeq(q, d + 1, Len(q))) = Len(q) - d
    BY <1>1, <1>4
  <1>7. SubSeq(q, 1, d) \o SubSeq(q, d + 1, Len(q)) = q
    <2>1. 1 \in 1 .. Len(q) + 1 /\ d \in 1 - 1 .. Len(q) /\ Len(q) \in d .. Len(q)
      BY <1>1
    <2>2. SubSeq(q, 1, d) \o SubSeq(q, d + 1, Len(q)) = SubSeq(q, 1, Len(q))
      BY <2>1, ConcatAdjacentSubSeq
    <2> QED BY <2>2, SubSeqFull
  <1>8. Bytes(SubSeq(q, 1, d) \o SubSeq(q, d + 1, Len(q)))
          = Bytes(SubSeq(q, 1, d)) + Bytes(SubSeq(q, d + 1, Len(q)))
    BY <1>3, <1>4, BytesConcat
  <1> QED BY <1>3, <1>4, <1>5, <1>6, <1>7, <1>8

\* The element at i leaves.
LEMMA BytesRemoveAt ==
  ASSUME NEW S, \A x \in S : x.len \in Nat, NEW q \in Seq(S), NEW i \in 1 .. Len(q)
  PROVE  /\ RemoveAt(q, i) \in Seq(S) /\ Len(RemoveAt(q, i)) = Len(q) - 1
         /\ Bytes(q) = q[i].len + Bytes(RemoveAt(q, i)) /\ q[i].len \in Nat
  <1>1. Len(q) \in Nat /\ q[i] \in S /\ i \in Nat \ {0}
    BY LenProperties, ElementOfSeq
  <1> DEFINE a == SubSeq(q, 1, i - 1)
             b == SubSeq(q, i, Len(q))
             c == SubSeq(q, i + 1, Len(q))
  <1>2. i - 1 \in 0 .. Len(q) /\ (i - 1) + 1 = i /\ i \in 0 .. Len(q)
    BY <1>1
  <1>3. /\ a \in Seq(S) /\ b \in Seq(S) /\ Len(a) = i - 1
        /\ Bytes(q) = Bytes(a) + Bytes(b)
    BY <1>2, BytesSplit
  <1>4. c \in Seq(S) /\ Len(c) = Len(q) - i
    BY <1>2, BytesSplit
  <1>5. b = <<q[i]>> \o c
    <2>1. i \in 1 .. Len(q) /\ Len(q) \in i .. Len(q)
      BY <1>1
    <2> QED BY <2>1, SubSeqRecursiveFirst
  <1> HIDE DEF a, b, c
  <1>6. <<q[i]>> \in Seq(S)
    BY <1>1
  <1>7. Bytes(b) = q[i].len + Bytes(c)
    BY <1>1, <1>4, <1>5, <1>6, BytesConcat, BytesOne
  <1>8. Bytes(a \o c) = Bytes(a) + Bytes(c) /\ a \o c \in Seq(S) /\ Len(a \o c) = Len(a) + Len(c)
    BY <1>3, <1>4, BytesConcat, ConcatProperties
  <1>9. Bytes(a) \in Nat /\ Bytes(c) \in Nat /\ q[i].len \in Nat
    BY <1>1, <1>3, <1>4, BytesTyped
  <1>10. RemoveAt(q, i) = a \o c
    BY DEF RemoveAt, a, c
  <1>11. Len(a \o c) = Len(q) - 1
    BY <1>1, <1>3, <1>4, <1>8
  <1>12. Bytes(q) = q[i].len + Bytes(a \o c)
    BY <1>3, <1>7, <1>8, <1>9
  <1> QED BY <1>8, <1>9, <1>10, <1>11, <1>12

\* The oldest leaves.
LEMMA BytesTail ==
  ASSUME NEW S, \A x \in S : x.len \in Nat, NEW q \in Seq(S), q # <<>>
  PROVE  /\ Tail(q) \in Seq(S) /\ Len(Tail(q)) = Len(q) - 1
         /\ Bytes(q) = Head(q).len + Bytes(Tail(q)) /\ Head(q).len \in Nat
  <1>1. Len(q) \in Nat \ {0} /\ Head(q) \in S /\ Tail(q) \in Seq(S) /\ Len(Tail(q)) = Len(q) - 1
    BY EmptySeq, HeadTailProperties
  <1>2. Head(q) = q[1]
    OBVIOUS
  <1>3. Tail(q) = SubSeq(q, 1 + 1, Len(q))
    BY TailIsSubSeq
  <1>4. q = <<q[1]>> \o Tail(q)
    <2>1. 1 \in 1 .. Len(q) /\ Len(q) \in 1 .. Len(q)
      BY <1>1
    <2>2. SubSeq(q, 1, Len(q)) = <<q[1]>> \o SubSeq(q, 1 + 1, Len(q))
      BY <2>1, SubSeqRecursiveFirst
    <2> QED BY <1>3, <2>2, SubSeqFull
  <1>5. <<q[1]>> \in Seq(S)
    BY <1>1, <1>2
  <1>6. Bytes(<<q[1]>> \o Tail(q)) = q[1].len + Bytes(Tail(q))
    BY <1>1, <1>2, <1>5, BytesConcat, BytesOne
  <1> QED BY <1>1, <1>2, <1>4, <1>6

\* The element at i is replaced.
LEMMA BytesReplaceAt ==
  ASSUME NEW S, \A x \in S : x.len \in Nat, NEW q \in Seq(S), NEW i \in 1 .. Len(q), NEW x \in S
  PROVE  /\ ReplaceAt(q, i, x) \in Seq(S) /\ Len(ReplaceAt(q, i, x)) = Len(q)
         /\ Bytes(ReplaceAt(q, i, x)) + q[i].len = Bytes(q) + x.len
  <1>1. PICK r \in Seq(S) : r = ReplaceAt(q, i, x)
    BY ExceptSeq DEF ReplaceAt
  <1>2. Len(r) = Len(q) /\ \A j \in 1 .. Len(q) : r[j] = IF j = i THEN x ELSE q[j]
    BY <1>1, ExceptSeq DEF ReplaceAt
  <1>3. Len(q) \in Nat /\ \A j \in 1 .. Len(q) : q[j] \in S
    BY LenProperties, ElementOfSeq
  <1> DEFINE f == [j \in 1 .. Len(q) |-> q[j].len]
             g == [j \in 1 .. Len(r) |-> r[j].len]
  <1>4. \A j \in 1 .. Len(q) : g[j] \in Nat /\ f[j] \in Nat /\ (j # i => g[j] = f[j])
    BY <1>2, <1>3
  <1>5. f[i] = q[i].len /\ g[i] = x.len
    BY <1>2, <1>3
  <1> HIDE DEF f, g
  <1>6. SumTo(g, Len(q)) + f[i] = SumTo(f, Len(q)) + g[i]
    <2>1. DifferAt(g, f, i, Len(q))
      BY <1>4 DEF DifferAt
    <2> QED BY <1>3, <2>1, SumToChanged
  <1>7. Bytes(q) = SumTo(f, Len(q)) /\ Bytes(r) = SumTo(g, Len(q))
    BY <1>2 DEF Bytes, f, g
  <1> QED BY <1>1, <1>2, <1>5, <1>6, <1>7

-----------------------------------------------------------------------------
(* The budgets. *)

Budgets == [rule: [Rules -> Nat], process: Nat]

\* From b to c the rule R gives back m bytes and takes n.
Charge(b, c, R, m, n) ==
    /\ c \in Budgets
    /\ c.rule[R] + m = b.rule[R] + n /\ c.process + m = b.process + n
    /\ \A q \in Rules : q # R => c.rule[q] = b.rule[q]

Within(b) == (\A q \in Rules : b.rule[q] <= RuleLimit) /\ b.process <= ProcessLimit

\* What a session may hold.
Fitting(s) ==
    /\ Len(s.queue) <= QueueSize /\ Bytes(s.queue) <= QueueBytes
    /\ Len(s.pending) <= MaxPending
    /\ s.seen \subseteq 0 .. ReplayBits - 1
    /\ s.st = "unused" => s.pending = <<>>

\* What is charged is what is held.
Exact ==
    /\ \A q \in Rules : budget.rule[q] = SumTo([o \in Objs |-> Share(ses[o], q)], MaxSessions)
    /\ budget.process = SumTo([o \in Objs |-> Held(ses[o])], MaxSessions)

Charges ==
    /\ budget \in Budgets /\ Within(budget)
    /\ \A o \in Objs : Fitting(ses[o])
    /\ Exact

\* The step books what session o holds more or less once it is r.
Booked(o, r) ==
    /\ budget' \in Budgets /\ Within(budget')
    /\ \A q \in Rules : budget'.rule[q] + Share(ses[o], q) = budget.rule[q] + Share(r, q)
    /\ budget'.process + Held(ses[o]) = budget.process + Held(r)
    /\ r.st = "unused" => ses[o].st = "unused"

\* No session is forgotten by the step.
Created == \A o \in Objs : ses[o].st # "unused" => ses'[o].st # "unused"

LEMMA Limits ==
  /\ QueueSize \in Nat /\ QueueBytes \in Nat /\ MaxPending \in Nat \ {0} /\ ReplayBits \in Nat \ {0}
  /\ RuleLimit \in Nat /\ ProcessLimit \in Nat /\ HardSessions \in Nat
  BY ExitAssumption

LEMMA ReleaseCharge ==
  ASSUME NEW b \in Budgets, NEW R \in Rules, NEW n \in Nat, n <= b.rule[R], n <= b.process, Within(b)
  PROVE  Charge(b, Release(b, R, n), R, n, 0) /\ Within(Release(b, R, n))
  <1>1. b.rule \in [Rules -> Nat] /\ b.rule[R] \in Nat /\ b.process \in Nat
    BY DEF Budgets
  <1>2. PICK x \in Nat : x = b.rule[R] - n
    BY <1>1
  <1>3. PICK y \in Nat : y = b.process - n
    BY <1>1
  <1>4. ~(n > b.rule[R])
    BY <1>1
  <1>5. Release(b, R, n) = [rule |-> [b.rule EXCEPT ![R] = x], process |-> y]
    BY <1>2, <1>3, <1>4 DEF Release
  <1>6. PICK f \in [Rules -> Nat] : f = [b.rule EXCEPT ![R] = x]
    BY <1>1
  <1>7. PICK c \in Budgets : c = [rule |-> f, process |-> y] /\ c.rule = f /\ c.process = y
    <2> DEFINE c == [rule |-> f, process |-> y]
    <2>1. c \in Budgets /\ c.rule = f /\ c.process = y
      BY DEF Budgets
    <2> QED BY <2>1
  <1>8. f[R] = x /\ \A q \in Rules : q # R => f[q] = b.rule[q]
    BY <1>1, <1>6
  <1>9. Charge(b, c, R, n, 0)
    BY <1>1, <1>2, <1>3, <1>7, <1>8 DEF Charge
  <1>10. Within(c)
    <2>1. RuleLimit \in Nat /\ ProcessLimit \in Nat
      BY Limits
    <2>2. y <= ProcessLimit
      BY <1>1, <1>3, <2>1 DEF Within
    <2>3. x <= RuleLimit
      BY <1>1, <1>2, <2>1 DEF Within
    <2>4. ASSUME NEW q \in Rules PROVE c.rule[q] <= RuleLimit
      BY <1>7, <1>8, <2>3 DEF Within
    <2> QED BY <1>7, <2>2, <2>4 DEF Within
  <1> QED BY <1>5, <1>6, <1>7, <1>9, <1>10

LEMMA ReserveCharge ==
  ASSUME NEW b \in Budgets, NEW R \in Rules, NEW n \in Nat, Fits(b, R, n), Within(b)
  PROVE  Charge(b, Reserve(b, R, n), R, 0, n) /\ Within(Reserve(b, R, n))
  <1>1. b.rule \in [Rules -> Nat] /\ b.rule[R] \in Nat /\ b.process \in Nat
    BY DEF Budgets
  <1>2. PICK x \in Nat : x = b.rule[R] + n
    BY <1>1
  <1>3. PICK y \in Nat : y = b.process + n
    BY <1>1
  <1>5. Reserve(b, R, n) = [rule |-> [b.rule EXCEPT ![R] = x], process |-> y]
    BY <1>2, <1>3 DEF Reserve
  <1>6. PICK f \in [Rules -> Nat] : f = [b.rule EXCEPT ![R] = x]
    BY <1>1
  <1>7. PICK c \in Budgets : c = [rule |-> f, process |-> y] /\ c.rule = f /\ c.process = y
    <2> DEFINE c == [rule |-> f, process |-> y]
    <2>1. c \in Budgets /\ c.rule = f /\ c.process = y
      BY DEF Budgets
    <2> QED BY <2>1
  <1>8. f[R] = x /\ \A q \in Rules : q # R => f[q] = b.rule[q]
    BY <1>1, <1>6
  <1>9. Charge(b, c, R, 0, n)
    BY <1>1, <1>2, <1>3, <1>7, <1>8 DEF Charge
  <1>10. x <= RuleLimit /\ y <= ProcessLimit
    BY <1>2, <1>3 DEF Fits
  <1>11. Within(c)
    <2>1. ASSUME NEW q \in Rules PROVE c.rule[q] <= RuleLimit
      BY <1>7, <1>8, <1>10 DEF Within
    <2> QED BY <1>7, <1>10, <2>1 DEF Within
  <1> QED BY <1>5, <1>6, <1>7, <1>9, <1>11

-----------------------------------------------------------------------------
(* What the sessions hold. *)

LEMMA HeldTyped ==
  ASSUME NEW s \in Sessions
  PROVE  /\ s.queue \in Seq(Lens) /\ s.pending \in Seq(Assemblies) /\ s.lease \in Nat
         /\ Bytes(s.queue) \in Nat /\ Bytes(s.pending) \in Nat
         /\ Held(s) = Bytes(s.pending) + Bytes(s.queue) + s.lease /\ Held(s) \in Nat
         /\ \A q : Share(s, q) \in Nat
  <1>1. s.queue \in Seq(Lens) /\ s.pending \in Seq(Assemblies) /\ s.lease \in Nat
    BY DEF Sessions
  <1>2. (\A x \in Lens : x.len \in Nat) /\ (\A x \in Assemblies : x.len \in Nat)
    BY DEF Lens, Assemblies
  <1>3. Bytes(s.queue) \in Nat /\ Bytes(s.pending) \in Nat
    BY <1>1, <1>2, BytesTyped
  <1>4. Held(s) = Bytes(s.pending) + Bytes(s.queue) + s.lease /\ Held(s) \in Nat
    BY <1>1, <1>3 DEF Held
  <1> QED BY <1>1, <1>3, <1>4 DEF Share

LEMMA AlikeHolds ==
  ASSUME NEW s, NEW r, Alike(s, r)
  PROVE  /\ Held(r) = Held(s) /\ (\A q : Share(r, q) = Share(s, q))
         /\ (Fitting(s) => Fitting(r))
  <1>1. Held(r) = Held(s)
    BY DEF Alike, Held
  <1> QED BY <1>1 DEF Alike, Share, Fitting

\* One session's bytes are part of its rule's charge, and of the process's.
LEMMA HeldIsCharged ==
  ASSUME Inv, Charges, NEW o \in Objs, ses[o].st # "unused"
  PROVE  /\ RuleOf[ses[o].key] \in Rules
         /\ Held(ses[o]) <= budget.rule[RuleOf[ses[o].key]] /\ Held(ses[o]) <= budget.process
  <1>1. RuleOf[ses[o].key] \in Rules
    BY ExitAssumption DEF Inv, Sound, NotYet
  <1> DEFINE R == RuleOf[ses[o].key]
             f == [q \in Objs |-> Share(ses[q], R)]
             g == [q \in Objs |-> Held(ses[q])]
  <1>2. \A q \in Objs : f[q] \in Nat /\ g[q] \in Nat
    BY HeldTyped DEF Inv, Typed
  <1>3. f[o] = Held(ses[o]) /\ g[o] = Held(ses[o])
    BY DEF Share
  <1>4. budget.rule[R] = SumTo(f, MaxSessions) /\ budget.process = SumTo(g, MaxSessions)
    BY <1>1 DEF Charges, Exact
  <1> HIDE DEF f, g, R
  <1>5. MaxSessions \in Nat /\ o \in 1 .. MaxSessions
    BY Bounds DEF Objs
  <1>6. f[o] <= SumTo(f, MaxSessions) /\ g[o] <= SumTo(g, MaxSessions)
    BY <1>2, <1>5, SumToCovers DEF Objs
  <1> QED BY <1>1, <1>3, <1>4, <1>6 DEF R

LEMMA OneCharged ==
  ASSUME Inv, Charges, NEW o \in Objs, NEW r \in Sessions, ses' = [ses EXCEPT ![o] = r],
         Fitting(r), Booked(o, r)
  PROVE  Charges' /\ Created
  <1>1. ses' \in [Objs -> Sessions] /\ ses'[o] = r /\ \A q \in Objs : q # o => ses'[q] = ses[q]
    BY DEF Inv, Typed
  <1>2. MaxSessions \in Nat /\ o \in 1 .. MaxSessions /\ Objs = 1 .. MaxSessions
    BY Bounds DEF Objs
  <1>3. \A q \in Objs : ses[q] \in Sessions /\ ses'[q] \in Sessions
    BY <1>1 DEF Inv, Typed
  <1>4. ASSUME NEW R \in Rules
        PROVE  budget'.rule[R] = SumTo([q \in Objs |-> Share(ses'[q], R)], MaxSessions)
    <2> DEFINE f == [q \in Objs |-> Share(ses[q], R)]
               g == [q \in Objs |-> Share(ses'[q], R)]
    <2>1. \A q \in 1 .. MaxSessions : g[q] \in Nat /\ f[q] \in Nat /\ (q # o => g[q] = f[q])
      BY <1>1, <1>2, <1>3, HeldTyped
    <2>2. f[o] = Share(ses[o], R) /\ g[o] = Share(r, R)
      BY <1>1
    <2>3. budget.rule[R] = SumTo(f, MaxSessions)
      BY DEF Charges, Exact
    <2>4. budget'.rule[R] + f[o] = budget.rule[R] + g[o] /\ budget'.rule[R] \in Nat
      BY <2>2 DEF Booked, Budgets
    <2> HIDE DEF f, g
    <2>5. SumTo(g, MaxSessions) + f[o] = SumTo(f, MaxSessions) + g[o]
      <3>1. DifferAt(g, f, o, MaxSessions)
        BY <2>1 DEF DifferAt
      <3> QED BY <1>2, <3>1, SumToChanged
    <2>6. SumTo(g, MaxSessions) \in Nat /\ SumTo(f, MaxSessions) \in Nat
      <3>1. MaxSessions \in 0 .. MaxSessions
        BY <1>2
      <3> QED BY <1>2, <2>1, <3>1, SumToTyped
    <2>7. budget'.rule[R] = SumTo(g, MaxSessions)
      BY <1>2, <2>1, <2>3, <2>4, <2>5, <2>6
    <2> QED BY <2>7 DEF g
  <1>5. budget'.process = SumTo([q \in Objs |-> Held(ses'[q])], MaxSessions)
    <2> DEFINE f == [q \in Objs |-> Held(ses[q])]
               g == [q \in Objs |-> Held(ses'[q])]
    <2>1. \A q \in 1 .. MaxSessions : g[q] \in Nat /\ f[q] \in Nat /\ (q # o => g[q] = f[q])
      BY <1>1, <1>2, <1>3, HeldTyped
    <2>2. f[o] = Held(ses[o]) /\ g[o] = Held(r)
      BY <1>1
    <2>3. budget.process = SumTo(f, MaxSessions)
      BY DEF Charges, Exact
    <2>4. budget'.process + f[o] = budget.process + g[o] /\ budget'.process \in Nat
      BY <2>2 DEF Booked, Budgets
    <2> HIDE DEF f, g
    <2>5. SumTo(g, MaxSessions) + f[o] = SumTo(f, MaxSessions) + g[o]
      <3>1. DifferAt(g, f, o, MaxSessions)
        BY <2>1 DEF DifferAt
      <3> QED BY <1>2, <3>1, SumToChanged
    <2>6. SumTo(g, MaxSessions) \in Nat /\ SumTo(f, MaxSessions) \in Nat
      <3>1. MaxSessions \in 0 .. MaxSessions
        BY <1>2
      <3> QED BY <1>2, <2>1, <3>1, SumToTyped
    <2>7. budget'.process = SumTo(g, MaxSessions)
      BY <1>2, <2>1, <2>3, <2>4, <2>5, <2>6
    <2> QED BY <2>7 DEF g
  <1>6. Exact'
    BY <1>4, <1>5 DEF Exact, Share, Held, Bytes, SumTo, Objs
  <1>7. \A q \in Objs : Fitting(ses'[q])
    BY <1>1 DEF Charges
  <1>8. budget' \in Budgets /\ Within(budget')
    BY DEF Booked
  <1>9. Created
    BY <1>1 DEF Created, Booked
  <1> QED BY <1>6, <1>7, <1>8, <1>9 DEF Charges, Fitting, Bytes, SumTo, Within, Budgets

\* The step leaves the budgets and what the session holds.
LEMMA BookedAlike ==
  ASSUME Inv, Charges, NEW o \in Objs, NEW r \in Sessions, budget' = budget,
         r.st = "unused" => ses[o].st = "unused", Held(r) = Held(ses[o]), \A q \in Rules : Share(r, q) = Share(ses[o], q)
  PROVE  Booked(o, r)
  BY DEF Charges, Booked

LEMMA AlikeCharged ==
  ASSUME Inv, Charges, NEW o \in Objs, NEW r \in Sessions, ses' = [ses EXCEPT ![o] = r],
         Alike(ses[o], r), budget' = budget
  PROVE  Charges' /\ Created
  <1>1. Held(r) = Held(ses[o]) /\ (\A q : Share(r, q) = Share(ses[o], q)) /\ Fitting(r)
    BY AlikeHolds DEF Charges
  <1>2. Booked(o, r)
    BY <1>1, BookedAlike DEF Alike
  <1> QED BY <1>1, <1>2, OneCharged

\* The step charges the rule of the session.
LEMMA BookedCharge ==
  ASSUME Inv, Charges, NEW o \in Objs, ses[o].st # "unused",
         NEW r \in Sessions, r.key = ses[o].key, r.st # "unused",
         NEW m \in Nat, NEW n \in Nat, Charge(budget, budget', RuleOf[ses[o].key], m, n),
         Within(budget'), Held(ses[o]) + n = Held(r) + m
  PROVE  Booked(o, r)
  <1> DEFINE R == RuleOf[ses[o].key]
  <1>1. R \in Rules
    BY HeldIsCharged
  <1>2. ses[o] \in Sessions
    BY DEF Inv, Typed
  <1>3. Held(ses[o]) \in Nat /\ Held(r) \in Nat
    BY <1>2, HeldTyped
  <1>4. /\ budget' \in Budgets /\ budget \in Budgets
        /\ budget'.rule[R] + m = budget.rule[R] + n /\ budget'.process + m = budget.process + n
        /\ \A q \in Rules : q # R => budget'.rule[q] = budget.rule[q]
    BY DEF Charge, Charges
  <1>5. \A q \in Rules : budget.rule[q] \in Nat /\ budget'.rule[q] \in Nat
    BY <1>4 DEF Budgets
  <1>6. budget.process \in Nat /\ budget'.process \in Nat
    BY <1>4 DEF Budgets
  <1>7. budget'.process + Held(ses[o]) = budget.process + Held(r)
    BY <1>3, <1>4, <1>6
  <1>8. ASSUME NEW q \in Rules
        PROVE  budget'.rule[q] + Share(ses[o], q) = budget.rule[q] + Share(r, q)
    <2>1. CASE q = R
      <3>1. Share(ses[o], q) = Held(ses[o]) /\ Share(r, q) = Held(r)
        BY <2>1 DEF Share
      <3>2. budget'.rule[q] + m = budget.rule[q] + n
        BY <1>4, <2>1
      <3> HIDE DEF R
      <3> QED BY <1>3, <1>5, <3>1, <3>2
    <2>2. CASE q # R
      <3>1. Share(ses[o], q) = 0 /\ Share(r, q) = 0
        BY <2>2 DEF Share
      <3> QED BY <1>4, <2>2, <3>1
    <2> QED BY <2>1, <2>2
  <1> QED BY <1>4, <1>7, <1>8 DEF Booked

-----------------------------------------------------------------------------
(* The reader's steps and the budgets. *)

\* The reader is done with its packet; s is the session but for the count.
LEMMA DropCharged ==
  ASSUME Inv, Charges, Busy, NEW s \in Sessions,
         s.inFlight = ses[reader.obj].inFlight, s.worker = ses[reader.obj].worker,
         Drop(reader.obj, s), Fitting(s), Booked(reader.obj, s)
  PROVE  Charges' /\ Created
  <1>1. PICK o \in Objs : o = reader.obj
    BY DEF Inv, Typed, Busy
  <1>2. PICK r \in Sessions : r = Finish(s) /\ Alike(s, r)
    BY FinishTyped DEF Alike
  <1>3. ses' = [ses EXCEPT ![o] = r]
    BY <1>1, <1>2 DEF Drop
  <1>4. Held(r) = Held(s) /\ (\A q : Share(r, q) = Share(s, q)) /\ Fitting(r)
    BY <1>2, AlikeHolds
  <1>5. Booked(o, r)
    BY <1>1, <1>2, <1>4 DEF Booked, Alike
  <1> QED BY <1>3, <1>4, <1>5, OneCharged

\* What the replay window keeps is within it.
LEMMA SeenWithin ==
  ASSUME NEW s \in Sessions, NEW q \in Nat, Fresh(s, q), s.seen \subseteq 0 .. ReplayBits - 1
  PROVE  Seen(s, q) \subseteq 0 .. ReplayBits - 1
  <1>1. s.highest \in Nat /\ ReplayBits \in Nat \ {0}
    BY Limits DEF Sessions
  <1>2. CASE q > s.highest
    <2>1. \A e \in s.seen : e + (q - s.highest) \in Nat
      BY <1>1, <1>2
    <2>2. \A d \in Seen(s, q) : d \in Nat /\ d < ReplayBits
      BY <1>1, <1>2, <2>1 DEF Seen
    <2> QED BY <1>1, <2>2
  <1>3. CASE ~(q > s.highest)
    <2>1. s.highest - q \in 0 .. ReplayBits - 1
      BY <1>1, <1>3 DEF Fresh
    <2> QED BY <1>3, <2>1 DEF Seen
  <1> QED BY <1>2, <1>3

LEMMA PassCharged ==
  ASSUME Inv, Charges, Busy, NEW s \in Sessions, Sound(s),
         s.inFlight = ses[reader.obj].inFlight, s.worker = ses[reader.obj].worker,
         NEW q \in Seqs, NEW len, Pass(reader.obj, s, q, len), Fitting(s), Booked(reader.obj, s)
  PROVE  Charges' /\ Created
  <1>1. CASE Fresh(s, q)
    <2>1. PICK o \in Objs : o = reader.obj
      BY DEF Inv, Typed, Busy
    <2> DEFINE n == [Noted(s, q) EXCEPT !.handed[q] = @ + 1]
    <2>2. /\ n \in Sessions /\ n.key = s.key /\ n.st = s.st
          /\ n.queue = s.queue /\ n.pending = s.pending /\ n.lease = s.lease /\ n.seen = Seen(s, q)
      BY <1>1, NotedWindow
    <2>3. ses' = [ses EXCEPT ![o] = n]
      BY <1>1, <2>1 DEF Pass
    <2> HIDE DEF n
    <2>4. Held(n) = Held(s) /\ \A k : Share(n, k) = Share(s, k)
      BY <2>2 DEF Held, Share
    <2>5. n.seen \subseteq 0 .. ReplayBits - 1
      <3>1. q \in Nat
        BY SeqsTyped
      <3> QED BY <1>1, <2>2, <3>1, SeenWithin DEF Fitting
    <2>6. Fitting(n)
      BY <2>2, <2>5 DEF Fitting
    <2>7. Booked(o, n)
      BY <2>1, <2>2, <2>4 DEF Booked
    <2> QED BY <2>2, <2>3, <2>6, <2>7, OneCharged
  <1>2. CASE ~Fresh(s, q)
    <2>1. Drop(reader.obj, s)
      BY <1>2 DEF Pass, Drop
    <2> QED BY <2>1, DropCharged
  <1> QED BY <1>1, <1>2

\* The session stays as it is.
LEMMA Unbooked ==
  ASSUME Inv, Charges, Busy, budget' = budget
  PROVE  Fitting(ses[reader.obj]) /\ Booked(reader.obj, ses[reader.obj])
  <1>1. PICK o \in Objs : o = reader.obj
    BY DEF Inv, Typed, Busy
  <1>2. ses[o] \in Sessions
    BY DEF Inv, Typed
  <1>3. Fitting(ses[o]) /\ Booked(o, ses[o])
    BY <1>2, BookedAlike DEF Charges
  <1> QED BY <1>1, <1>3

LEMMA ReadKnownCharged ==
  ASSUME Inv, Charges, NEW p \in Packets, ReadKnown(p)
  PROVE  Charges' /\ Created
  <1>1. p.key \in Keys
    BY PacketTyped
  <1>2. PICK o \in Objs : o = table[p.key]
    BY <1>1 DEF Inv, Typed, ReadKnown
  <1>3. PICK s \in Sessions : s = ses[o]
    BY DEF Inv, Typed
  <1>4. PICK n \in Nat : n = s.inFlight + 1
    BY DEF Sessions
  <1> DEFINE r == [s EXCEPT !.inFlight = n]
  <1>5. ses' = [ses EXCEPT ![o] = r] /\ budget' = budget
    BY <1>2, <1>3, <1>4 DEF ReadKnown, Inv, Typed
  <1>6. r \in Sessions /\ Alike(s, r)
    BY DEF Sessions, Alike
  <1> HIDE DEF r
  <1> QED BY <1>3, <1>5, <1>6, AlikeCharged

LEMMA ReadNewCharged ==
  ASSUME Inv, Charges, NEW p \in Packets, ReadNew(p)
  PROVE  Charges' /\ Created
  <1>1. p.key \in Keys
    BY PacketTyped
  <1>2. PICK o \in Objs :
          /\ ses[o].st = "unused"
          /\ ses' = [ses EXCEPT ![o].key = p.key, ![o].st = "open", ![o].worker = "idle"]
    BY DEF ReadNew
  <1>3. PICK s \in Sessions : s = ses[o] /\ Sound(s) /\ Fitting(s)
    BY DEF Inv, Typed, Charges
  <1> DEFINE r == [s EXCEPT !.key = p.key, !.st = "open", !.worker = "idle"]
  <1>4. ses' = [ses EXCEPT ![o] = r] /\ budget' = budget
    BY <1>2, <1>3 DEF Sessions, Inv, Typed, ReadNew
  <1>5. r \in Sessions
    BY <1>1 DEF Sessions, Stages, WorkerPlaces
  <1>6. r.queue = s.queue /\ r.pending = s.pending /\ r.lease = s.lease /\ r.seen = s.seen
        /\ r.st = "open"
    BY DEF Sessions
  <1> HIDE DEF r
  <1>7. s.queue = <<>> /\ s.pending = <<>> /\ s.lease = 0
    BY <1>2, <1>3 DEF Sound, NotYet, Leasing, Fitting
  <1>8. Held(s) = 0 /\ Held(r) = 0
    BY <1>6, <1>7, BytesNone DEF Held
  <1>9. \A q : Share(s, q) = 0 /\ Share(r, q) = 0
    BY <1>8 DEF Share
  <1>10. Fitting(r)
    BY <1>3, <1>6 DEF Fitting
  <1>11. Booked(o, r)
    BY <1>3, <1>4, <1>5, <1>6, <1>8, <1>9, BookedAlike
  <1> QED BY <1>4, <1>5, <1>10, <1>11, OneCharged

\* Activity is noted.
LEMMA AgeCharged ==
  ASSUME Inv, Charges, NEW o \in Objs, NEW a \in Ages, ses' = [ses EXCEPT ![o].age = a],
         budget' = budget
  PROVE  Charges' /\ Created
  <1>1. PICK s \in Sessions : s = ses[o] /\ Sound(s)
    BY DEF Inv, Typed
  <1> DEFINE r == [s EXCEPT !.age = a]
  <1>2. r \in Sessions /\ Alike(s, r)
    BY <1>1, AgeChanged
  <1>3. ses' = [ses EXCEPT ![o] = r]
    BY <1>1 DEF Inv, Typed
  <1> HIDE DEF r
  <1> QED BY <1>1, <1>2, <1>3, AlikeCharged

LEMMA CheckCharged ==
  ASSUME Inv, Charges, Check
  PROVE  Charges' /\ Created
  <1>1. Busy /\ budget' = budget
    BY DEF Check, Busy, Handling
  <1>2. CASE table[reader.pkt.key] = reader.obj
    <2>1. ses' = [ses EXCEPT ![reader.obj].age = 0]
      BY <1>2 DEF Check
    <2>2. 0 \in Ages
      BY DEF Ages
    <2> QED BY <1>1, <2>1, <2>2, InHand, AgeCharged
  <1>3. CASE table[reader.pkt.key] # reader.obj
    <2>1. Drop(reader.obj, ses[reader.obj])
      BY <1>1, <1>3, InHand DEF Check, Drop, Inv, Typed
    <2> QED BY <1>1, <2>1, InHand, Unbooked, DropCharged
  <1> QED BY <1>2, <1>3

LEMMA AcceptClosedCharged ==
  ASSUME Inv, Charges, AcceptClosed
  PROVE  Charges' /\ Created
  <1>1. Busy /\ budget' = budget /\ Drop(reader.obj, ses[reader.obj])
    BY DEF AcceptClosed, Busy, Handling
  <1> QED BY <1>1, InHand, Unbooked, DropCharged

LEMMA AcceptWholeCharged ==
  ASSUME Inv, Charges, AcceptWhole
  PROVE  Charges' /\ Created
  <1>1. Busy /\ budget' = budget /\ Pass(reader.obj, ses[reader.obj], reader.pkt.seq, 1)
    BY DEF AcceptWhole, Busy, Handling
  <1>2. PICK q \in Seqs : q = reader.pkt.seq
    BY <1>1, InHand, PacketTyped
  <1>3. Pass(reader.obj, ses[reader.obj], q, 1)
    BY <1>1, <1>2
  <1> QED BY <1>1, <1>3, InHand, Unbooked, PassCharged

LEMMA ForwardCharged ==
  ASSUME Inv, Charges, Forward
  PROVE  Charges' /\ Created
  <1>1. Busy /\ budget' = budget
    BY DEF Forward, Busy, Handling
  <1>2. PICK zero \in Ages : zero = 0
    BY DEF Ages
  <1>3. CASE ses[reader.obj].st = "open"
    <2>1. ses' = [ses EXCEPT ![reader.obj].age = zero]
      BY <1>2, <1>3 DEF Forward
    <2> QED BY <1>1, <2>1, InHand, AgeCharged
  <1>4. CASE ses[reader.obj].st # "open"
    <2>1. PICK s \in Sessions : s = ses[reader.obj] /\ Sound(s) /\ Fitting(s)
      BY <1>1, InHand, Unbooked
    <2> DEFINE t == [s EXCEPT !.age = zero]
    <2>2. t \in Sessions /\ t.inFlight = s.inFlight /\ t.worker = s.worker /\ Alike(s, t)
      BY <2>1, AgeChanged
    <2>3. Drop(reader.obj, t)
      BY <1>2, <1>4, <2>1 DEF Forward
    <2> HIDE DEF t
    <2>4. Held(t) = Held(s) /\ (\A q : Share(t, q) = Share(s, q)) /\ Fitting(t)
      BY <2>1, <2>2, AlikeHolds
    <2>5. Booked(reader.obj, t)
      BY <1>1, <2>1, <2>2, <2>4, InHand, BookedAlike DEF Alike
    <2> QED BY <1>1, <2>1, <2>2, <2>3, <2>4, <2>5, DropCharged
  <1> QED BY <1>3, <1>4

LEMMA HaveLengths == (\A x \in Lens : x.len \in Nat) /\ (\A x \in Assemblies : x.len \in Nat)
  BY DEF Lens, Assemblies

\* Charges add up.
LEMMA ChargeTwice ==
  ASSUME NEW b \in Budgets, NEW c, NEW d, NEW R \in Rules, NEW m \in Nat, NEW n \in Nat,
         NEW k \in Nat, NEW l \in Nat, Charge(b, c, R, m, n), Charge(c, d, R, k, l)
  PROVE  Charge(b, d, R, m + k, n + l)
  <1>1. /\ b.rule[R] \in Nat /\ b.process \in Nat /\ c \in Budgets /\ d \in Budgets
        /\ c.rule[R] \in Nat /\ c.process \in Nat /\ d.rule[R] \in Nat /\ d.process \in Nat
    BY DEF Charge, Budgets
  <1>2. /\ c.rule[R] + m = b.rule[R] + n /\ c.process + m = b.process + n
        /\ d.rule[R] + k = c.rule[R] + l /\ d.process + k = c.process + l
    BY DEF Charge
  <1>3. d.rule[R] + (m + k) = b.rule[R] + (n + l) /\ d.process + (m + k) = b.process + (n + l)
    BY <1>1, <1>2
  <1>4. \A q \in Rules : q # R => d.rule[q] = b.rule[q]
    BY DEF Charge
  <1> QED BY <1>1, <1>3, <1>4 DEF Charge

LEMMA EnqueueCharged ==
  ASSUME Inv, Charges, Enqueue
  PROVE  Charges' /\ Created
  <1>1. Busy
    BY DEF Enqueue, Busy, Handling
  <1>2. PICK o \in Objs : o = reader.obj
    BY <1>1, InHand
  <1>3. PICK s \in Sessions : s = ses[o] /\ Sound(s) /\ Fitting(s)
    BY DEF Inv, Typed, Charges
  <1>4. PICK len \in Nat : len = reader.len
    BY <1>1, InHand
  <1> DEFINE R == RuleOf[s.key]
             Room(d) == /\ Len(s.queue) - d < QueueSize
                        /\ Bytes(SubSeq(s.queue, d + 1, Len(s.queue))) + len <= QueueBytes
             b1(d) == Release(budget, R, Bytes(SubSeq(s.queue, 1, d)))
             more(d) == Append(SubSeq(s.queue, d + 1, Len(s.queue)), [len |-> len])
  <1>5. \/ Drop(o, s) /\ budget' = budget
        \/ \E d \in 0 .. Len(s.queue) :
             /\ ~QueueClosed(s) /\ Room(d) /\ Fits(b1(d), R, len)
             /\ budget' = Reserve(b1(d), R, len)
             /\ Drop(o, [s EXCEPT !.queue = more(d), !.ready = TRUE])
    BY <1>2, <1>3, <1>4 DEF Enqueue
  <1>6. CASE Drop(o, s) /\ budget' = budget
    BY <1>1, <1>2, <1>3, <1>6, Unbooked, DropCharged
  <1>7. ASSUME NEW d \in 0 .. Len(s.queue), ~QueueClosed(s), Room(d), Fits(b1(d), R, len),
               budget' = Reserve(b1(d), R, len),
               Drop(o, [s EXCEPT !.queue = more(d), !.ready = TRUE])
        PROVE  Charges' /\ Created
    <2>1. s.queue \in Seq(Lens) /\ Len(s.queue) \in Nat
      BY HeldTyped, LenProperties
    <2>2. PICK go \in Seq(Lens), stay \in Seq(Lens) :
             /\ go = SubSeq(s.queue, 1, d) /\ stay = SubSeq(s.queue, d + 1, Len(s.queue))
             /\ Len(stay) = Len(s.queue) - d /\ Bytes(s.queue) = Bytes(go) + Bytes(stay)
      <3>1. /\ SubSeq(s.queue, 1, d) \in Seq(Lens)
            /\ SubSeq(s.queue, d + 1, Len(s.queue)) \in Seq(Lens)
            /\ Len(SubSeq(s.queue, d + 1, Len(s.queue))) = Len(s.queue) - d
            /\ Bytes(s.queue) = Bytes(SubSeq(s.queue, 1, d)) + Bytes(SubSeq(s.queue, d + 1, Len(s.queue)))
        BY <2>1, HaveLengths, BytesSplit
      <3> QED BY <3>1
    <2>3. PICK e \in Lens : e = [len |-> len] /\ e.len = len
      <3>1. [len |-> len] \in Lens /\ [len |-> len].len = len
        BY DEF Lens
      <3> QED BY <3>1
    <2>4. PICK Q \in Seq(Lens) : Q = Append(stay, e) /\ Len(Q) = Len(stay) + 1 /\ Bytes(Q) = Bytes(stay) + len
      <3>1. Append(stay, e) \in Seq(Lens) /\ Len(Append(stay, e)) = Len(stay) + 1
        BY AppendProperties
      <3>2. Bytes(Append(stay, e)) = Bytes(stay) + e.len
        BY HaveLengths, BytesAppend
      <3> QED BY <2>3, <3>1, <3>2
    <2> DEFINE t == [s EXCEPT !.queue = Q, !.ready = TRUE]
    <2>5. Drop(o, t)
      BY <1>7, <2>2, <2>3, <2>4
    <2>6. t \in Sessions
      BY DEF Sessions
    <2>7. /\ t.key = s.key /\ t.st = s.st /\ t.inFlight = s.inFlight /\ t.worker = s.worker
          /\ t.queue = Q /\ t.lease = s.lease /\ t.pending = s.pending /\ t.seen = s.seen
      BY DEF Sessions
    <2> HIDE DEF t
    <2>8. s.st # "unused"
      BY <1>7 DEF QueueClosed
    <2>9. Bytes(go) \in Nat /\ Bytes(stay) \in Nat /\ Bytes(s.pending) \in Nat /\ s.lease \in Nat
          /\ Held(s) = Bytes(s.pending) + Bytes(s.queue) + s.lease
          /\ Held(t) = Bytes(t.pending) + Bytes(t.queue) + t.lease /\ Held(s) \in Nat
      BY <2>6, HaveLengths, BytesTyped, HeldTyped
    <2>10. R \in Rules /\ Held(s) <= budget.rule[R] /\ Held(s) <= budget.process
      BY <1>3, <2>8, HeldIsCharged
    <2>11. budget \in Budgets /\ Within(budget) /\ budget.rule[R] \in Nat /\ budget.process \in Nat
      BY <2>10 DEF Charges, Budgets
    <2>12. Bytes(go) <= budget.rule[R] /\ Bytes(go) <= budget.process
      <3>1. Bytes(go) <= Held(s)
        BY <2>2, <2>9
      <3> HIDE DEF R
      <3> QED BY <2>9, <2>10, <2>11, <3>1
    <2>13. PICK c : c = Release(budget, R, Bytes(go)) /\ Charge(budget, c, R, Bytes(go), 0) /\ Within(c)
      BY <2>9, <2>10, <2>11, <2>12, ReleaseCharge
    <2>14. c \in Budgets /\ Fits(c, R, len) /\ budget' = Reserve(c, R, len)
      BY <1>7, <2>2, <2>13 DEF Charge
    <2>15. Charge(c, budget', R, 0, len) /\ Within(budget')
      BY <2>10, <2>13, <2>14, ReserveCharge
    <2>16. Charge(budget, budget', R, Bytes(go) + 0, 0 + len)
      BY <2>9, <2>10, <2>11, <2>13, <2>15, ChargeTwice
    <2>17. Charge(budget, budget', R, Bytes(go), len)
      <3>1. Bytes(go) + 0 = Bytes(go) /\ 0 + len = len
        BY <2>9
      <3> QED BY <2>16, <3>1
    <2>18. Held(s) + len = Held(t) + Bytes(go)
      BY <2>2, <2>4, <2>7, <2>9
    <2>19. t.key = ses[o].key /\ t.st # "unused"
      BY <1>3, <2>7, <2>8
    <2>20. Booked(o, t)
      BY <1>3, <2>6, <2>8, <2>9, <2>15, <2>17, <2>18, <2>19, BookedCharge
    <2>21. Fitting(t)
      <3>1. Len(Q) <= QueueSize /\ Bytes(Q) <= QueueBytes
        <4>1. Len(s.queue) - d < QueueSize /\ Bytes(stay) + len <= QueueBytes
          BY <1>7, <2>2
        <4>2. Len(stay) \in Nat /\ QueueSize \in Nat
          BY LenProperties, Limits
        <4> QED BY <2>2, <2>4, <4>1, <4>2
      <3> QED BY <1>3, <2>7, <2>8, <3>1 DEF Fitting
    <2> QED BY <1>1, <1>2, <1>3, <2>5, <2>6, <2>7, <2>20, <2>21, DropCharged
  <1> QED BY <1>5, <1>6, <1>7

-----------------------------------------------------------------------------
(* The worker, close() and the budgets. *)

LEMMA TakeTokenCharged ==
  ASSUME Inv, Charges, NEW o \in Objs, TakeToken(o)
  PROVE  Charges' /\ Created
  <1>1. PICK s \in Sessions : s = ses[o]
    BY DEF Inv, Typed
  <1> DEFINE r == [s EXCEPT !.ready = FALSE, !.worker = "token"]
  <1>2. ses' = [ses EXCEPT ![o] = r] /\ budget' = budget
    BY <1>1 DEF TakeToken, Inv, Typed, Sessions
  <1>3. r \in Sessions /\ Alike(s, r)
    BY DEF Sessions, WorkerPlaces, Alike
  <1> HIDE DEF r
  <1> QED BY <1>1, <1>2, <1>3, AlikeCharged

\* The bytes move from the queue to the worker.
LEMMA TakePacketCharged ==
  ASSUME Inv, Charges, NEW o \in Objs, TakePacket(o)
  PROVE  Charges' /\ Created
  <1>1. PICK s \in Sessions : s = ses[o] /\ Sound(s) /\ Fitting(s)
    BY DEF Inv, Typed, Charges
  <1>2. s.worker = "token" /\ budget' = budget
    BY <1>1 DEF TakePacket
  <1>3. s.queue \in Seq(Lens) /\ s.inFlight \in Nat /\ s.ready \in BOOLEAN
    BY DEF Sessions
  <1>4. CASE s.queue = <<>>
    <2> DEFINE r == [s EXCEPT !.worker = "idle"]
    <2>1. ses' = [ses EXCEPT ![o] = r]
      BY <1>1, <1>4 DEF TakePacket
    <2>2. r \in Sessions /\ Alike(s, r)
      BY DEF Sessions, WorkerPlaces, Alike
    <2> HIDE DEF r
    <2> QED BY <1>1, <1>2, <2>1, <2>2, AlikeCharged
  <1>5. CASE s.queue # <<>>
    <2>1. /\ Tail(s.queue) \in Seq(Lens) /\ Len(Tail(s.queue)) = Len(s.queue) - 1
          /\ Bytes(s.queue) = Head(s.queue).len + Bytes(Tail(s.queue)) /\ Head(s.queue).len \in Nat
      BY <1>3, <1>5, HaveLengths, BytesTail
    <2>2. PICK Q \in Seq(Lens) : Q = Tail(s.queue)
      BY <2>1
    <2>3. PICK n \in Nat : n = s.inFlight + 1
      BY <1>3
    <2>4. PICK l \in Nat : l = Head(s.queue).len
      BY <2>1
    <2>5. PICK y \in BOOLEAN : y = (s.ready \/ Len(s.queue) > 1)
      OBVIOUS
    <2> DEFINE r == [s EXCEPT !.queue = Q, !.worker = "write", !.lease = l, !.inFlight = n, !.ready = y]
    <2>6. ses' = [ses EXCEPT ![o] = r]
      BY <1>1, <1>5, <2>2, <2>3, <2>4, <2>5 DEF TakePacket
    <2>7. r \in Sessions
      BY DEF Sessions, WorkerPlaces
    <2>8. /\ r.key = s.key /\ r.st = s.st /\ r.queue = Q /\ r.pending = s.pending /\ r.lease = l
          /\ r.seen = s.seen
      BY DEF Sessions
    <2> HIDE DEF r
    <2>9. s.lease = 0
      BY <1>1, <1>2 DEF Sound, Leasing
    <2>10. /\ Bytes(s.pending) \in Nat /\ Bytes(Q) \in Nat
           /\ Held(s) = Bytes(s.pending) + Bytes(s.queue) + s.lease
           /\ Held(r) = Bytes(r.pending) + Bytes(r.queue) + r.lease
      BY <2>7, HaveLengths, BytesTyped, HeldTyped
    <2>11. Held(r) = Held(s)
      BY <2>1, <2>2, <2>4, <2>8, <2>9, <2>10
    <2>12. \A q : Share(r, q) = Share(s, q)
      BY <2>8, <2>11 DEF Share
    <2>13. Fitting(r)
      <3>1. Len(Q) <= QueueSize /\ Bytes(Q) <= QueueBytes
        <4>1. Len(s.queue) <= QueueSize /\ Bytes(s.queue) <= QueueBytes
          BY <1>1 DEF Fitting
        <4>2. Len(s.queue) \in Nat /\ QueueSize \in Nat /\ QueueBytes \in Nat
          BY <1>3, LenProperties, Limits
        <4> QED BY <2>1, <2>2, <2>10, <4>1, <4>2
      <3> QED BY <1>1, <2>8, <3>1 DEF Fitting
    <2>14. Booked(o, r)
      BY <1>1, <1>2, <2>7, <2>8, <2>11, <2>12, BookedAlike
    <2> QED BY <2>6, <2>7, <2>13, <2>14, OneCharged
  <1> QED BY <1>4, <1>5

\* A step of one session gives back what it no longer holds.
LEMMA ReleasedCharged ==
  ASSUME Inv, Charges, NEW o \in Objs, ses[o].st # "unused", NEW r \in Sessions,
         ses' = [ses EXCEPT ![o] = r], r.key = ses[o].key, r.st # "unused", Fitting(r),
         NEW n \in Nat, Held(ses[o]) = Held(r) + n,
         budget' = Release(budget, RuleOf[ses[o].key], n)
  PROVE  Charges' /\ Created
  <1> DEFINE R == RuleOf[ses[o].key]
  <1>1. R \in Rules /\ Held(ses[o]) <= budget.rule[R] /\ Held(ses[o]) <= budget.process
    BY HeldIsCharged
  <1>2. Held(r) \in Nat /\ budget \in Budgets /\ Within(budget)
    BY HeldTyped DEF Charges
  <1>3. budget.rule[R] \in Nat /\ budget.process \in Nat
    BY <1>1, <1>2 DEF Budgets
  <1>4. n <= budget.rule[R] /\ n <= budget.process
    BY <1>1, <1>2, <1>3
  <1>5. Charge(budget, budget', R, n, 0) /\ Within(budget')
    BY <1>1, <1>2, <1>4, ReleaseCharge
  <1>6. Held(ses[o]) + 0 = Held(r) + n
    BY <1>2
  <1>7. 0 \in Nat
    OBVIOUS
  <1>8. Booked(o, r)
    BY <1>5, <1>6, <1>7, BookedCharge
  <1> QED BY <1>8, OneCharged

\* packet.done() gives back the lease.
LEMMA LeasedCharged ==
  ASSUME Inv, Charges, NEW o \in Objs, ses[o].worker \in {"write", "closing"},
         ses[o].worker = "closing" => ses[o].st = "closed",
         NEW r \in Sessions, ses' = [ses EXCEPT ![o] = r], Alike(Leased(ses[o]), r),
         budget' = Release(budget, RuleOf[ses[o].key], ses[o].lease)
  PROVE  Charges' /\ Created
  <1>1. PICK s \in Sessions : s = ses[o] /\ Sound(s) /\ s.inFlight > 0 /\ Fitting(s)
    BY Leaseholder DEF Charges
  <1>2. PICK t \in Sessions : /\ t = Leased(s) /\ t.key = s.key /\ t.st = s.st
                              /\ t.queue = s.queue /\ t.pending = s.pending /\ t.lease = 0
                              /\ t.seen = s.seen
    BY <1>1, LeasedTyped
  <1>3. s.st # "unused"
    BY <1>1 DEF Sound, NotYet
  <1>4. /\ r.key = s.key /\ r.st # "unused" /\ r.queue = s.queue /\ r.pending = s.pending
        /\ r.lease = 0 /\ r.seen = s.seen
    BY <1>1, <1>2, <1>3 DEF Alike
  <1>5. Fitting(r)
    BY <1>1, <1>4 DEF Fitting
  <1>6. /\ Bytes(s.pending) \in Nat /\ Bytes(s.queue) \in Nat /\ s.lease \in Nat
        /\ Held(s) = Bytes(s.pending) + Bytes(s.queue) + s.lease
        /\ Held(r) = Bytes(r.pending) + Bytes(r.queue) + r.lease
    BY HeldTyped
  <1>7. Held(s) = Held(r) + s.lease
    BY <1>4, <1>6
  <1> QED BY <1>1, <1>3, <1>4, <1>5, <1>6, <1>7, ReleasedCharged

LEMMA DoneCharged ==
  ASSUME Inv, Charges, NEW o \in Objs, DropStale(o) \/ WriteFailed(o)
  PROVE  Charges' /\ Created
  <1>1. /\ ses[o].worker \in {"write", "closing"}
        /\ ses' = [ses EXCEPT ![o] = Leased(ses[o])]
        /\ ses[o].worker = "closing" => ses[o].st = "closed"
        /\ budget' = Release(budget, RuleOf[ses[o].key], ses[o].lease)
    BY DEF DropStale, WriteFailed, Inv, Typed
  <1>2. Leased(ses[o]) \in Sessions
    BY <1>1, Leaseholder, LeasedTyped
  <1>3. Alike(Leased(ses[o]), Leased(ses[o]))
    BY DEF Alike
  <1> QED BY <1>1, <1>2, <1>3, LeasedCharged

LEMMA WriteCharged ==
  ASSUME Inv, Charges, NEW o \in Objs, Write(o)
  PROVE  Charges' /\ Created
  <1>1. PICK zero \in Ages : zero = 0
    BY DEF Ages
  <1>2. /\ ses[o].worker = "write"
        /\ ses' = [ses EXCEPT ![o] = [Leased(ses[o]) EXCEPT !.age = zero]]
        /\ budget' = Release(budget, RuleOf[ses[o].key], ses[o].lease)
    BY <1>1 DEF Write, Inv, Typed
  <1>3. PICK t \in Sessions : t = Leased(ses[o]) /\ Sound(t)
    BY <1>2, Leaseholder, LeasedTyped
  <1> DEFINE r == [t EXCEPT !.age = zero]
  <1>4. r \in Sessions /\ Alike(t, r)
    BY <1>3, AgeChanged
  <1>5. ses' = [ses EXCEPT ![o] = r]
    BY <1>2, <1>3
  <1> HIDE DEF r
  <1> QED BY <1>2, <1>3, <1>4, <1>5, LeasedCharged

LEMMA ClosingCharged ==
  ASSUME Inv, Charges, NEW o \in Objs, ReadTargetFails(o) \/ CloseDoomed(o)
  PROVE  Charges' /\ Created
  <1>1. ses' = [ses EXCEPT ![o] = Closing(ses[o])] /\ budget' = budget
    BY DEF ReadTargetFails, CloseDoomed, Inv, Typed
  <1>2. ses[o] \in Sessions /\ Sound(ses[o])
    BY DEF Inv, Typed
  <1>3. Closing(ses[o]) \in Sessions /\ Alike(ses[o], Closing(ses[o]))
    BY <1>2, ClosingTyped
  <1> QED BY <1>1, <1>3, AlikeCharged

LEMMA WriteFailsCharged ==
  ASSUME Inv, Charges, NEW o \in Objs, WriteFails(o)
  PROVE  Charges' /\ Created
  <1>1. PICK s \in Sessions : s = ses[o] /\ Sound(s)
    BY DEF Inv, Typed
  <1>2. PICK t \in Sessions : t = Closing(s) /\ Alike(s, t)
    BY <1>1, ClosingTyped
  <1> DEFINE r == [t EXCEPT !.worker = "closing"]
  <1>3. ses' = [ses EXCEPT ![o] = r] /\ budget' = budget
    BY <1>1, <1>2 DEF WriteFails, Inv, Typed
  <1>4. r \in Sessions /\ Alike(t, r)
    BY DEF Sessions, WorkerPlaces, Alike
  <1> HIDE DEF r
  <1>5. Alike(s, r)
    BY <1>2, <1>4 DEF Alike
  <1> QED BY <1>1, <1>3, <1>4, <1>5, AlikeCharged

LEMMA WorkerEndsCharged ==
  ASSUME Inv, Charges, NEW o \in Objs, WorkerEnds(o)
  PROVE  Charges' /\ Created
  <1>1. PICK s \in Sessions : s = ses[o]
    BY DEF Inv, Typed
  <1> DEFINE r == [s EXCEPT !.worker = "ended"]
  <1>2. ses' = [ses EXCEPT ![o] = r] /\ budget' = budget
    BY <1>1 DEF WorkerEnds, Inv, Typed
  <1>3. r \in Sessions /\ Alike(s, r)
    BY DEF Sessions, WorkerPlaces, Alike
  <1> HIDE DEF r
  <1> QED BY <1>1, <1>2, <1>3, AlikeCharged

LEMMA CloseQueueCharged ==
  ASSUME Inv, Charges, NEW o \in Objs, CloseQueue(o)
  PROVE  Charges' /\ Created
  <1>1. PICK s \in Sessions : s = ses[o] /\ Fitting(s)
    BY DEF Inv, Typed, Charges
  <1>2. PICK Q \in Seq(Lens) : Q = <<>>
    BY EmptySeq
  <1> DEFINE r == [s EXCEPT !.st = "drained", !.queue = Q, !.ready = FALSE]
  <1>3. /\ s.st = "done" /\ ses' = [ses EXCEPT ![o] = r]
        /\ budget' = Release(budget, RuleOf[s.key], Bytes(s.queue))
    BY <1>1, <1>2 DEF CloseQueue, Inv, Typed, Sessions
  <1>4. r \in Sessions
    BY DEF Sessions, Stages
  <1>5. /\ r.key = s.key /\ r.st = "drained" /\ r.queue = <<>> /\ r.pending = s.pending
        /\ r.lease = s.lease /\ r.seen = s.seen
    BY <1>2 DEF Sessions
  <1> HIDE DEF r
  <1>6. /\ Bytes(s.pending) \in Nat /\ Bytes(s.queue) \in Nat /\ s.lease \in Nat
        /\ Held(s) = Bytes(s.pending) + Bytes(s.queue) + s.lease
        /\ Held(r) = Bytes(r.pending) + Bytes(r.queue) + r.lease
    BY <1>4, HeldTyped
  <1>7. Held(s) = Held(r) + Bytes(s.queue)
    BY <1>5, <1>6, BytesNone
  <1>8. Fitting(r)
    <2>1. Len(<<>>) <= QueueSize /\ Bytes(<<>>) <= QueueBytes
      BY EmptySeq, BytesNone, Limits
    <2> QED BY <1>1, <1>5, <2>1 DEF Fitting
  <1> QED BY <1>1, <1>3, <1>4, <1>5, <1>6, <1>7, <1>8, ReleasedCharged

LEMMA CloseFragmentsCharged ==
  ASSUME Inv, Charges, NEW o \in Objs, CloseFragments(o)
  PROVE  Charges' /\ Created
  <1>1. PICK s \in Sessions : s = ses[o] /\ Fitting(s)
    BY DEF Inv, Typed, Charges
  <1>2. PICK Q \in Seq(Assemblies) : Q = <<>>
    BY EmptySeq
  <1> DEFINE r == [s EXCEPT !.st = "swept", !.pending = Q]
  <1>3. /\ s.st = "drained" /\ ses' = [ses EXCEPT ![o] = r]
        /\ budget' = Release(budget, RuleOf[s.key], Bytes(s.pending))
    BY <1>1, <1>2 DEF CloseFragments, Inv, Typed, Sessions
  <1>4. r \in Sessions
    BY DEF Sessions, Stages
  <1>5. /\ r.key = s.key /\ r.st = "swept" /\ r.queue = s.queue /\ r.pending = <<>>
        /\ r.lease = s.lease /\ r.seen = s.seen
    BY <1>2 DEF Sessions
  <1> HIDE DEF r
  <1>6. /\ Bytes(s.pending) \in Nat /\ Bytes(s.queue) \in Nat /\ s.lease \in Nat
        /\ Held(s) = Bytes(s.pending) + Bytes(s.queue) + s.lease
        /\ Held(r) = Bytes(r.pending) + Bytes(r.queue) + r.lease
    BY <1>4, HeldTyped
  <1>7. Held(s) = Held(r) + Bytes(s.pending)
    BY <1>5, <1>6, BytesNone
  <1>8. Fitting(r)
    <2>1. Len(<<>>) <= MaxPending
      BY EmptySeq, Limits
    <2> QED BY <1>1, <1>5, <2>1 DEF Fitting
  <1> QED BY <1>1, <1>3, <1>4, <1>5, <1>6, <1>7, <1>8, ReleasedCharged

\* Nothing is left to give back but the worker's lease, and that stays.
LEMMA RemoveSessionCharged ==
  ASSUME Inv, Charges, NEW o \in Objs, RemoveSession(o)
  PROVE  Charges' /\ Created
  <1>1. PICK s \in Sessions : s = ses[o] /\ Sound(s) /\ Fitting(s)
    BY DEF Inv, Typed, Charges
  <1> DEFINE r == Closed(s)
  <1>2. s.st = "swept" /\ ses' = [ses EXCEPT ![o] = r] /\ budget' = budget
    BY <1>1 DEF RemoveSession, Inv, Typed
  <1>3. s.key \in Keys
    BY <1>1, <1>2 DEF Sound, NotYet
  <1>4. Unused \in Sessions /\ s.inFlight \in Nat /\ s.worker \in WorkerPlaces /\ s.lease \in Nat
    BY UnusedTyped DEF Sessions
  <1>5. r \in Sessions
    BY <1>3, <1>4 DEF Closed, Sessions, Stages
  <1>6. /\ r.key = s.key /\ r.st = "closed" /\ r.lease = s.lease /\ r.queue = <<>>
        /\ r.pending = <<>> /\ r.seen = {}
    BY DEF Closed, Unused
  <1> HIDE DEF r
  <1>7. s.queue = <<>> /\ s.pending = <<>>
    BY <1>1, <1>2 DEF Sound, Behind
  <1>8. Held(r) = Held(s)
    BY <1>6, <1>7 DEF Held
  <1>9. \A q : Share(r, q) = Share(s, q)
    BY <1>2, <1>6, <1>8 DEF Share
  <1>10. Fitting(r)
    BY <1>1, <1>6, <1>7 DEF Fitting
  <1>11. Booked(o, r)
    BY <1>1, <1>2, <1>5, <1>6, <1>8, <1>9, BookedAlike
  <1> QED BY <1>2, <1>5, <1>10, <1>11, OneCharged

-----------------------------------------------------------------------------
(* The sweeper and the budgets. *)

LEMMA TickCharged ==
  ASSUME Inv, Charges, NEW o \in Objs, Tick(o)
  PROVE  Charges' /\ Created
  <1>1. ses[o].age \in 0 .. 3
    BY DEF Inv, Typed, Sessions, Ages
  <1>2. PICK a \in ses[o].age + 1 .. 3 : ses' = [ses EXCEPT ![o].age = a]
    BY DEF Tick
  <1>3. a \in Ages /\ budget' = budget
    BY <1>1, <1>2 DEF Ages, Tick
  <1> QED BY <1>2, <1>3, AgeCharged

LEMMA ExpireFragmentsCharged ==
  ASSUME Inv, Charges, NEW o \in Objs, ExpireFragments(o)
  PROVE  Charges' /\ Created
  <1>1. PICK s \in Sessions : s = ses[o] /\ Sound(s) /\ Fitting(s)
    BY DEF Inv, Typed, Charges
  <1>2. /\ s.pending # <<>> /\ s.st \notin {"swept", "closed", "unused"}
        /\ budget' = Release(budget, RuleOf[s.key], Head(s.pending).len)
    BY <1>1 DEF ExpireFragments
  <1>3. /\ Tail(s.pending) \in Seq(Assemblies) /\ Len(Tail(s.pending)) = Len(s.pending) - 1
        /\ Bytes(s.pending) = Head(s.pending).len + Bytes(Tail(s.pending))
        /\ Head(s.pending).len \in Nat
    BY <1>2, HaveLengths, HeldTyped, BytesTail
  <1>4. PICK f \in Seq(Assemblies) : f = Tail(s.pending)
    BY <1>3
  <1> DEFINE r == [s EXCEPT !.pending = f]
  <1>5. /\ r \in Sessions /\ r.key = s.key /\ r.st = s.st
        /\ r.queue = s.queue /\ r.pending = f /\ r.lease = s.lease /\ r.seen = s.seen
    BY <1>1, <1>2, PendingChanged
  <1>6. ses' = [ses EXCEPT ![o] = r]
    BY <1>1, <1>4 DEF ExpireFragments, Inv, Typed
  <1> HIDE DEF r
  <1>7. /\ Bytes(s.pending) \in Nat /\ Bytes(s.queue) \in Nat /\ s.lease \in Nat
        /\ Held(s) = Bytes(s.pending) + Bytes(s.queue) + s.lease
        /\ Held(r) = Bytes(r.pending) + Bytes(r.queue) + r.lease
        /\ Bytes(r.pending) \in Nat
    BY <1>5, HeldTyped
  <1>8. Held(s) = Held(r) + Head(s.pending).len
    BY <1>3, <1>4, <1>5, <1>7
  <1>9. Fitting(r)
    <2>1. Len(f) <= MaxPending
      <3>1. Len(s.pending) \in Nat /\ Len(s.pending) <= MaxPending /\ MaxPending \in Nat
        BY <1>1, HeldTyped, LenProperties, Limits DEF Fitting
      <3> QED BY <1>3, <1>4, <3>1
    <2> QED BY <1>1, <1>2, <1>5, <2>1 DEF Fitting
  <1> QED BY <1>1, <1>2, <1>3, <1>5, <1>6, <1>8, <1>9, ReleasedCharged

LEMMA UntouchedCharged ==
  ASSUME Charges, UNCHANGED <<ses, budget>>
  PROVE  Charges' /\ Created
  <1>1. ses' = ses /\ budget' = budget
    OBVIOUS
  <1>2. Exact'
    <2>1. \A q \in Rules : budget'.rule[q] = SumTo([o \in Objs |-> Share(ses'[o], q)], MaxSessions)
      BY <1>1 DEF Charges, Exact
    <2>2. budget'.process = SumTo([o \in Objs |-> Held(ses'[o])], MaxSessions)
      BY <1>1 DEF Charges, Exact
    <2> QED BY <2>1, <2>2 DEF Exact, Share, Held, Bytes, SumTo, Objs
  <1>3. \A o \in Objs : Fitting(ses'[o])
    BY <1>1 DEF Charges
  <1>4. budget' \in Budgets /\ Within(budget')
    BY <1>1 DEF Charges
  <1> QED BY <1>1, <1>2, <1>3, <1>4 DEF Charges, Fitting, Bytes, SumTo, Within, Budgets, Created

\* Whoever is in the table, or in the reader's hands, has been created.
Alive ==
    /\ \A k \in Keys : table[k] # None => ses[table[k]].st # "unused"
    /\ reader.pc \in Handling => ses[reader.obj].st # "unused"

LEMMA AcceptFragmentCharged ==
  ASSUME Inv, Charges, Alive, AcceptFragment
  PROVE  Charges' /\ Created
  <1>1. Busy /\ ses[reader.obj].st \notin {"swept", "closed", "unused"}
    BY DEF AcceptFragment, Busy, Handling, Alive
  <1>2. PICK o \in Objs : o = reader.obj
    BY <1>1, InHand
  <1>3. PICK s \in Sessions : s = ses[o] /\ Sound(s) /\ Fitting(s)
    BY DEF Inv, Typed, Charges
  <1>4. PICK p \in Packets : p = reader.pkt
    BY <1>1, InHand
  <1>5. p.seq \in Seqs /\ p.seq \in Nat /\ p.frag \in Nat /\ p.frags \in Nat
    BY PacketTyped
  <1>6. PICK gone \in 0 .. Len(s.pending) : Assemble(gone)
    BY <1>2, <1>3 DEF AcceptFragment
  <1>7. PICK R \in Rules : /\ R = RuleOf[s.key]
                           /\ Held(s) <= budget.rule[R] /\ Held(s) <= budget.process
    BY <1>1, <1>2, <1>3, HeldIsCharged
  <1> DEFINE old == SubSeq(s.pending, 1, gone)
             live == SubSeq(s.pending, gone + 1, Len(s.pending))
             new == \A i \in DOMAIN live : live[i].seq # p.seq
             evict == new /\ Len(live) >= MaxPending
             kept == IF evict THEN Tail(live) ELSE live
             at == IF new THEN Len(kept) + 1 ELSE CHOOSE i \in DOMAIN kept : kept[i].seq = p.seq
             a == IF new THEN [seq |-> p.seq, frags |-> p.frags, got |-> {}, len |-> 0] ELSE kept[at]
             others == IF new THEN kept ELSE RemoveAt(kept, at)
             first == IF evict THEN Head(live).len ELSE 0
             b1 == Release(budget, R, Bytes(old) + first)
             b2 == Reserve(b1, R, 1)
             a2 == [a EXCEPT !.got = @ \cup {p.frag}, !.len = @ + 1]
             more == IF new THEN Append(kept, a2) ELSE ReplaceAt(kept, at, a2)
  \* The ways the step can go.
  <1>8. \/ budget' = Release(b1, R, a.len) /\ Drop(o, [s EXCEPT !.pending = others])
        \/ budget' = b1 /\ Drop(o, [s EXCEPT !.pending = kept])
        \/ Fits(b1, R, 1) /\ budget' = b2 /\ Drop(o, [s EXCEPT !.pending = more])
        \/ /\ Fits(b1, R, 1) /\ budget' = Release(b2, R, a2.len)
           /\ Pass(o, [s EXCEPT !.pending = others], p.seq, a2.len)
    BY <1>2, <1>3, <1>4, <1>6, <1>7, ZenonT(200) DEF Assemble, Released
  \* The assemblies.
  <1>9. s.pending \in Seq(Assemblies) /\ Len(s.pending) \in Nat /\ Len(s.pending) <= MaxPending
        /\ MaxPending \in Nat \ {0}
    BY <1>3, HeldTyped, LenProperties, Limits DEF Fitting
  <1>10. /\ old \in Seq(Assemblies) /\ live \in Seq(Assemblies)
         /\ Len(live) = Len(s.pending) - gone /\ Bytes(s.pending) = Bytes(old) + Bytes(live)
    BY <1>9, HaveLengths, BytesSplit
  <1> HIDE DEF old, live
  <1>11. /\ kept \in Seq(Assemblies) /\ first \in Nat /\ Bytes(live) = first + Bytes(kept)
         /\ Len(kept) <= MaxPending /\ (new => Len(kept) < MaxPending)
    <2>0. Len(live) \in Nat /\ Len(live) <= MaxPending /\ Bytes(live) \in Nat
      BY <1>9, <1>10, HaveLengths, LenProperties, BytesTyped
    <2>1. CASE evict
      <3>1. live # <<>>
        BY <2>0, <2>1, <1>9, EmptySeq
      <3>2. /\ Tail(live) \in Seq(Assemblies) /\ Len(Tail(live)) = Len(live) - 1
            /\ Bytes(live) = Head(live).len + Bytes(Tail(live)) /\ Head(live).len \in Nat
        BY <1>10, <3>1, HaveLengths, BytesTail
      <3>3. kept = Tail(live) /\ first = Head(live).len
        BY <2>1
      <3> HIDE DEF kept, first, evict, new
      <3> QED BY <1>9, <2>0, <3>2, <3>3
    <2>2. CASE ~evict
      <3>1. kept = live /\ first = 0 /\ (new => ~(Len(live) >= MaxPending))
        BY <2>2
      <3> HIDE DEF kept, first, evict, new
      <3> QED BY <1>9, <1>10, <2>0, <3>1
    <2> QED BY <2>1, <2>2
  <1>12. ~new => at \in 1 .. Len(kept) /\ kept[at] \in Assemblies
    <2> SUFFICES ASSUME ~new PROVE at \in 1 .. Len(kept) /\ kept[at] \in Assemblies
      OBVIOUS
    <2>1. \E i \in DOMAIN kept : kept[i].seq = p.seq
      OBVIOUS
    <2>2. at \in DOMAIN kept
      BY <2>1
    <2> HIDE DEF kept, at
    <2> QED BY <1>11, <2>2, ElementOfSeq, LenProperties
  <1> HIDE DEF kept, at, new, evict, first
  <1>13. a \in Assemblies /\ a.len \in Nat /\ (new => a.len = 0)
    <2>1. CASE new
      <3>1. PICK zero \in Nat : zero = 0
        OBVIOUS
      <3>2. a = [seq |-> p.seq, frags |-> p.frags, got |-> {}, len |-> zero]
        BY <2>1, <3>1
      <3> HIDE DEF a
      <3> QED BY <1>5, <3>1, <3>2 DEF Assemblies
    <2>2. CASE ~new
      <3>1. a = kept[at]
        BY <2>2
      <3> QED BY <1>12, <2>2, <3>1, HaveLengths
    <2> QED BY <2>1, <2>2
  <1>14. Bytes(kept) \in Nat /\ Len(kept) \in Nat
    BY <1>11, HaveLengths, BytesTyped, LenProperties
  <1>15. /\ others \in Seq(Assemblies) /\ Len(others) <= MaxPending
         /\ Bytes(kept) = a.len + Bytes(others)
    <2>1. CASE new
      <3>1. others = kept /\ a.len = 0
        BY <1>13, <2>1
      <3> HIDE DEF others, a
      <3> QED BY <1>11, <1>14, <3>1
    <2>2. CASE ~new
      <3>1. /\ RemoveAt(kept, at) \in Seq(Assemblies) /\ Len(RemoveAt(kept, at)) = Len(kept) - 1
            /\ Bytes(kept) = kept[at].len + Bytes(RemoveAt(kept, at))
        BY <1>11, <1>12, <2>2, HaveLengths, BytesRemoveAt
      <3>2. others = RemoveAt(kept, at) /\ a = kept[at]
        BY <2>2
      <3> HIDE DEF others, a
      <3> QED BY <1>9, <1>11, <1>14, <3>1, <3>2
    <2> QED BY <2>1, <2>2
  <1> HIDE DEF others
  <1>16. a2 \in Assemblies /\ a2.len = a.len + 1 /\ a2.len \in Nat
    <2> HIDE DEF a
    <2>1. PICK n \in Nat : n = a.len + 1
      BY <1>13
    <2>2. PICK g \in SUBSET Nat : g = a.got \cup {p.frag}
      BY <1>5, <1>13 DEF Assemblies
    <2>3. a2 = [a EXCEPT !.got = g, !.len = n]
      BY <2>1, <2>2
    <2> HIDE DEF a2
    <2> QED BY <1>13, <2>1, <2>3 DEF Assemblies
  <1>17. /\ more \in Seq(Assemblies) /\ Len(more) <= MaxPending
         /\ Bytes(more) = Bytes(kept) + 1
    <2> HIDE DEF a2
    <2>1. CASE new
      <3>1. Append(kept, a2) \in Seq(Assemblies) /\ Len(Append(kept, a2)) = Len(kept) + 1
        BY <1>11, <1>16, AppendProperties
      <3>2. Bytes(Append(kept, a2)) = Bytes(kept) + a2.len
        BY <1>11, <1>16, HaveLengths, BytesAppend
      <3>3. more = Append(kept, a2) /\ a.len = 0
        BY <1>13, <2>1
      <3>4. a2.len = 1
        BY <1>16, <3>3
      <3> HIDE DEF a, more
      <3> QED BY <1>9, <1>11, <1>14, <2>1, <3>1, <3>2, <3>3, <3>4
    <2>2. CASE ~new
      <3>1. /\ ReplaceAt(kept, at, a2) \in Seq(Assemblies) /\ Len(ReplaceAt(kept, at, a2)) = Len(kept)
            /\ Bytes(ReplaceAt(kept, at, a2)) + kept[at].len = Bytes(kept) + a2.len
        BY <1>11, <1>12, <1>16, <2>2, HaveLengths, BytesReplaceAt
      <3>2. more = ReplaceAt(kept, at, a2) /\ a = kept[at]
        BY <2>2
      <3>3. Bytes(ReplaceAt(kept, at, a2)) \in Nat
        BY <3>1, HaveLengths, BytesTyped
      <3> HIDE DEF a, more
      <3>4. Bytes(more) + a.len = Bytes(kept) + (a.len + 1) /\ Bytes(more) \in Nat
        BY <1>16, <3>1, <3>2, <3>3
      <3>5. PICK u \in Nat, v \in Nat, w \in Nat : u = Bytes(more) /\ v = a.len /\ w = Bytes(kept)
        BY <1>13, <1>14, <3>4
      <3>6. u + v = w + (v + 1)
        BY <3>4, <3>5
      <3>7. u = w + 1
        BY <3>6
      <3> QED BY <1>11, <3>1, <3>2, <3>5, <3>7
    <2> QED BY <2>1, <2>2
  <1> HIDE DEF a, a2, more
  \* The charges.
  <1>18. PICK x \in Nat : x = Bytes(old) + first /\ Bytes(s.pending) = x + Bytes(kept)
    <2>1. Bytes(old) \in Nat
      BY <1>10, HaveLengths, BytesTyped
    <2>2. Bytes(old) + first \in Nat /\ Bytes(s.pending) = (Bytes(old) + first) + Bytes(kept)
      BY <1>10, <1>11, <1>14, <2>1
    <2> QED BY <2>2
  <1>19. /\ budget \in Budgets /\ Within(budget) /\ budget.rule[R] \in Nat /\ budget.process \in Nat
    BY DEF Charges, Budgets
  <1>20. /\ Bytes(s.queue) \in Nat /\ s.lease \in Nat /\ Held(s) \in Nat
         /\ Held(s) = Bytes(s.pending) + Bytes(s.queue) + s.lease
    BY HeldTyped
  <1>21. x + Bytes(kept) <= budget.rule[R] /\ x + Bytes(kept) <= budget.process
    <2>1. x + Bytes(kept) <= Held(s)
      BY <1>14, <1>18, <1>20
    <2> QED BY <1>7, <1>14, <1>19, <1>20, <2>1
  <1>22. PICK c1 : c1 = b1 /\ Charge(budget, c1, R, x, 0) /\ Within(c1)
    <2>1. x <= budget.rule[R] /\ x <= budget.process
      BY <1>14, <1>19, <1>21
    <2>2. Charge(budget, Release(budget, R, x), R, x, 0) /\ Within(Release(budget, R, x))
      BY <1>19, <2>1, ReleaseCharge
    <2> QED BY <1>18, <2>2
  <1>23. c1 \in Budgets /\ c1.rule[R] \in Nat /\ c1.process \in Nat
         /\ c1.rule[R] + x = budget.rule[R] /\ c1.process + x = budget.process
    BY <1>19, <1>22 DEF Charge, Budgets
  <1>24. Bytes(kept) <= c1.rule[R] /\ Bytes(kept) <= c1.process
    <2>1. PICK k \in Nat, u \in Nat, v \in Nat :
             k = Bytes(kept) /\ u = c1.rule[R] /\ v = c1.process
      BY <1>14, <1>23
    <2>2. x + k <= u + x /\ x + k <= v + x
      BY <1>21, <1>23, <2>1
    <2>3. k <= u /\ k <= v
      BY <2>2
    <2> QED BY <2>1, <2>3
  <1>25. Bytes(others) \in Nat
    BY <1>15, HaveLengths, BytesTyped
  <1>26. a.len <= c1.rule[R] /\ a.len <= c1.process
    BY <1>13, <1>14, <1>15, <1>23, <1>24, <1>25
  \* The session with other assemblies, and its bytes.
  <1>27. ASSUME NEW f \in Seq(Assemblies), Len(f) <= MaxPending, NEW m \in Nat, NEW n \in Nat,
                Bytes(s.pending) + n = Bytes(f) + m, Charge(budget, budget', R, m, n), Within(budget')
         PROVE  LET t == [s EXCEPT !.pending = f] IN
                /\ t \in Sessions /\ Sound(t) /\ Fitting(t) /\ Booked(o, t)
                /\ t.inFlight = s.inFlight /\ t.worker = s.worker
    <2> DEFINE t == [s EXCEPT !.pending = f]
    <2>1. /\ t \in Sessions /\ Sound(t) /\ t.key = s.key /\ t.st = s.st
          /\ t.inFlight = s.inFlight /\ t.worker = s.worker
          /\ t.queue = s.queue /\ t.pending = f /\ t.lease = s.lease /\ t.seen = s.seen
      BY <1>1, <1>2, <1>3, PendingChanged
    <2> HIDE DEF t
    <2>2. Fitting(t)
      BY <1>1, <1>2, <1>3, <1>27, <2>1 DEF Fitting
    <2>3. Held(t) = Bytes(t.pending) + Bytes(t.queue) + t.lease /\ Bytes(f) \in Nat
      BY <2>1, HaveLengths, BytesTyped, HeldTyped
    <2>4. Bytes(s.pending) \in Nat
      BY HeldTyped
    <2>5. Held(s) + n = Held(t) + m
      <3>1. Held(t) = Bytes(f) + Bytes(s.queue) + s.lease
        BY <2>1, <2>3
      <3>2. Bytes(s.pending) + n = Bytes(f) + m
        BY <1>27
      <3>3. PICK y \in Nat, z \in Nat, u \in Nat, l \in Nat :
               y = Bytes(s.pending) /\ z = Bytes(f) /\ u = Bytes(s.queue) /\ l = s.lease
        BY <1>20, <2>3, <2>4
      <3>4. y + n = z + m
        BY <3>2, <3>3
      <3>5. (y + u + l) + n = (z + u + l) + m
        BY <3>4
      <3>6. Held(s) = y + u + l /\ Held(t) = z + u + l
        BY <1>20, <3>1, <3>3
      <3> QED BY <3>5, <3>6
    <2>6. Booked(o, t)
      BY <1>1, <1>2, <1>3, <1>7, <1>27, <2>1, <2>5, BookedCharge
    <2>7. /\ t \in Sessions /\ Sound(t) /\ Fitting(t) /\ Booked(o, t)
          /\ t.inFlight = s.inFlight /\ t.worker = s.worker
      BY <2>1, <2>2, <2>6
    <2> QED BY <2>7 DEF t
  <1>28. ASSUME NEW f \in Seq(Assemblies), Len(f) <= MaxPending, NEW m \in Nat, NEW n \in Nat,
                Bytes(s.pending) + n = Bytes(f) + m, Charge(budget, budget', R, m, n), Within(budget'),
                Drop(o, [s EXCEPT !.pending = f])
         PROVE  Charges' /\ Created
    <2> DEFINE t == [s EXCEPT !.pending = f]
    <2>1. /\ t \in Sessions /\ Fitting(t) /\ Booked(o, t)
          /\ t.inFlight = s.inFlight /\ t.worker = s.worker
      BY <1>27, <1>28
    <2>2. Drop(o, t)
      BY <1>28
    <2> HIDE DEF t
    <2> QED BY <1>1, <1>2, <1>3, <2>1, <2>2, DropCharged
  <1>29. CASE budget' = Release(b1, R, a.len) /\ Drop(o, [s EXCEPT !.pending = others])
    <2>1. Charge(c1, budget', R, a.len, 0) /\ Within(budget')
      BY <1>13, <1>22, <1>23, <1>26, <1>29, ReleaseCharge
    <2>2. PICK m \in Nat, n \in Nat : m = x + a.len /\ n = 0
      BY <1>13
    <2>3. Charge(budget, budget', R, m, n)
      <3>1. 0 \in Nat /\ 0 + 0 = 0
        OBVIOUS
      <3>2. Charge(budget, budget', R, x + a.len, 0 + 0)
        BY <1>13, <1>19, <1>22, <2>1, <3>1, ChargeTwice
      <3> QED BY <2>2, <3>1, <3>2
    <2>4. Bytes(s.pending) + n = Bytes(others) + m
      BY <1>13, <1>15, <1>18, <1>25, <2>2
    <2> QED BY <1>15, <1>28, <1>29, <2>1, <2>3, <2>4
  <1>30. CASE budget' = b1 /\ Drop(o, [s EXCEPT !.pending = kept])
    <2>1. PICK n \in Nat : n = 0
      OBVIOUS
    <2>2. Charge(budget, budget', R, x, n) /\ Within(budget')
      BY <1>22, <1>30, <2>1
    <2>3. Bytes(s.pending) + n = Bytes(kept) + x
      BY <1>14, <1>18, <2>1
    <2> QED BY <1>11, <1>28, <1>30, <2>2, <2>3
  <1>31. ASSUME Fits(b1, R, 1)
         PROVE  Charge(c1, b2, R, 0, 1) /\ Within(b2)
    BY <1>22, <1>23, <1>31, ReserveCharge
  <1>32. CASE Fits(b1, R, 1) /\ budget' = b2 /\ Drop(o, [s EXCEPT !.pending = more])
    <2>1. PICK n \in Nat : n = 1
      OBVIOUS
    <2>2. Charge(c1, budget', R, 0, n) /\ Within(budget')
      BY <1>31, <1>32, <2>1
    <2>3. Charge(budget, budget', R, x, n)
      <3>1. 0 \in Nat /\ x + 0 = x /\ 0 + n = n
        OBVIOUS
      <3>2. Charge(budget, budget', R, x + 0, 0 + n)
        BY <1>19, <1>22, <2>2, <3>1, ChargeTwice
      <3> QED BY <3>1, <3>2
    <2>4. Bytes(s.pending) + n = Bytes(more) + x
      BY <1>14, <1>17, <1>18, <2>1
    <2> QED BY <1>17, <1>28, <1>32, <2>2, <2>3, <2>4
  <1>33. CASE /\ Fits(b1, R, 1) /\ budget' = Release(b2, R, a2.len)
              /\ Pass(o, [s EXCEPT !.pending = others], p.seq, a2.len)
    <2>1. PICK c2 : c2 = b2 /\ Charge(c1, c2, R, 0, 1) /\ Within(c2)
      BY <1>31, <1>33
    <2>2. /\ c2 \in Budgets /\ c2.rule[R] \in Nat /\ c2.process \in Nat
          /\ c2.rule[R] = c1.rule[R] + 1 /\ c2.process = c1.process + 1
      BY <1>23, <2>1 DEF Charge, Budgets
    <2>3. a2.len <= c2.rule[R] /\ a2.len <= c2.process
      BY <1>13, <1>16, <1>23, <1>26, <2>2
    <2>4. Charge(c2, budget', R, a2.len, 0) /\ Within(budget')
      BY <1>16, <1>33, <2>1, <2>2, <2>3, ReleaseCharge
    <2>5. Charge(budget, c2, R, x, 1)
      <3>1. 0 \in Nat /\ 1 \in Nat /\ x + 0 = x /\ 0 + 1 = 1
        OBVIOUS
      <3>2. Charge(budget, c2, R, x + 0, 0 + 1)
        BY <1>19, <1>22, <2>1, <3>1, ChargeTwice
      <3> QED BY <3>1, <3>2
    <2>6. PICK m \in Nat, n \in Nat : m = x + a2.len /\ n = 1
      BY <1>16
    <2>7. Charge(budget, budget', R, m, n)
      <3>1. 0 \in Nat /\ 1 \in Nat /\ 1 + 0 = 1
        OBVIOUS
      <3>2. Charge(budget, budget', R, x + a2.len, 1 + 0)
        BY <1>16, <1>19, <2>4, <2>5, <3>1, ChargeTwice
      <3> QED BY <2>6, <3>1, <3>2
    <2>8. Bytes(s.pending) + n = Bytes(others) + m
      BY <1>13, <1>15, <1>16, <1>18, <1>25, <2>6
    <2> DEFINE t == [s EXCEPT !.pending = others]
    <2>9. /\ t \in Sessions /\ Sound(t) /\ Fitting(t) /\ Booked(o, t)
          /\ t.inFlight = s.inFlight /\ t.worker = s.worker
      BY <1>15, <1>27, <2>4, <2>7, <2>8
    <2>10. Pass(o, t, p.seq, a2.len)
      BY <1>33
    <2> HIDE DEF t
    <2> QED BY <1>1, <1>2, <1>3, <1>5, <2>9, <2>10, PassCharged
  <1> HIDE DEF b1, b2
  <1> QED BY <1>8, <1>29, <1>30, <1>32, <1>33

-----------------------------------------------------------------------------
(* The table, the doomed and the bounds. *)

Standing ==
    /\ Alive
    /\ Cardinality(Listed) <= HardSessions
    /\ doomed \subseteq Objs
    /\ left \in [reads: Nat, ticks: Nat, failures: Nat]

LEMMA ListedFinite == IsFiniteSet(Listed) /\ Cardinality(Listed) \in Nat /\ Listed \subseteq Objs
  <1>1. 1 \in Int /\ MaxSessions \in Int
    BY Bounds
  <1>2. IsFiniteSet(Objs)
    BY <1>1, FS_Interval DEF Objs
  <1>3. Listed \in SUBSET Objs
    BY DEF Listed
  <1>4. IsFiniteSet(Listed)
    BY <1>2, <1>3, FS_Subset
  <1> QED BY <1>3, <1>4, FS_CardinalityType

\* A step that puts nothing into the table.
LEMMA StandingStep ==
  ASSUME Inv, Standing, Created,
         \A k \in Keys : table'[k] = table[k] \/ table'[k] = None,
         reader'.pc \in Handling =>
            \/ reader.pc \in Handling /\ reader'.obj = reader.obj
            \/ \E k \in Keys : table[k] # None /\ reader'.obj = table[k],
         doomed' \subseteq Objs, left' \in [reads: Nat, ticks: Nat, failures: Nat]
  PROVE  Standing'
  <1>1. \A k \in Keys : table[k] # None => table[k] \in Objs /\ ses'[table[k]].st # "unused"
    BY DEF Inv, Typed, Standing, Alive, Created
  <1>2. \A k \in Keys : table'[k] # None => ses'[table'[k]].st # "unused"
    BY <1>1
  <1>3. reader'.pc \in Handling => ses'[reader'.obj].st # "unused"
    BY <1>1 DEF Inv, Typed, Standing, Alive, Created
  <1>4. Listed' \in SUBSET Listed
    BY Bounds DEF Listed
  <1>5. IsFiniteSet(Listed) /\ Cardinality(Listed) \in Nat /\ Cardinality(Listed) <= HardSessions
    BY ListedFinite DEF Standing
  <1>6. IsFiniteSet(Listed') /\ Cardinality(Listed') <= Cardinality(Listed)
    BY <1>4, <1>5, FS_Subset
  <1>7. Cardinality(Listed') \in Nat /\ HardSessions \in Nat
    BY <1>6, FS_CardinalityType, Limits
  <1>8. Cardinality(Listed') <= HardSessions
    BY <1>5, <1>6, <1>7
  <1> QED BY <1>2, <1>3, <1>8 DEF Standing, Alive, Handling, Listed

\* What the readers' steps leave to the reader.
LEMMA PassReads ==
  ASSUME NEW o, NEW s, NEW q, NEW len, reader \in Readers, Busy,
         Pass(o, s, q, len) \/ Drop(o, s)
  PROVE  reader'.pc \in Handling => reader.pc \in Handling /\ reader'.obj = reader.obj
  <1>1. CASE reader' = Listening
    BY <1>1, ListeningTyped DEF Handling
  <1>2. CASE reader' = [reader EXCEPT !.pc = "forward", !.len = len]
    BY <1>2 DEF Readers, Busy
  <1> QED BY <1>1, <1>2 DEF Pass, Drop

LEMMA ReaderStanding ==
  ASSUME Inv, Standing, Created, ReaderStep
  PROVE  Standing'
  <1>1. Busy /\ UNCHANGED <<table, doomed, left>> /\ reader \in Readers
    BY DEF ReaderStep, Check, AcceptClosed, AcceptWhole, AcceptFragment, Forward, Enqueue,
           Busy, Handling, Inv, Typed
  <1> DEFINE Stays == reader'.pc \in Handling => reader.pc \in Handling /\ reader'.obj = reader.obj
  <1>2. ASSUME reader' = Listening PROVE Stays
    BY <1>2, ListeningTyped DEF Handling
  <1>3. ASSUME NEW place, reader' = [reader EXCEPT !.pc = place] PROVE Stays
    BY <1>1, <1>3 DEF Readers, Busy
  <1>4. ASSUME NEW o, NEW s, Drop(o, s) PROVE Stays
    BY <1>2, <1>4 DEF Drop
  <1>5. ASSUME Check PROVE Stays
    BY <1>2, <1>3, <1>5 DEF Check
  <1>6. ASSUME AcceptClosed PROVE Stays
    BY <1>4, <1>6 DEF AcceptClosed
  <1>7. ASSUME AcceptWhole PROVE Stays
    BY <1>1, <1>7, PassReads DEF AcceptWhole
  <1>8. ASSUME AcceptFragment PROVE Stays
    <2>1. PICK gone : Assemble(gone)
      BY <1>8 DEF AcceptFragment
    <2>2. \E o, s, q, len : Pass(o, s, q, len) \/ Drop(o, s)
      BY <2>1 DEF Assemble
    <2> QED BY <1>1, <2>2, PassReads
  <1>9. ASSUME Forward PROVE Stays
    BY <1>3, <1>4, <1>9 DEF Forward
  <1>10. ASSUME Enqueue PROVE Stays
    <2>1. \E o, s : Drop(o, s)
      BY <1>10 DEF Enqueue
    <2> QED BY <1>4, <2>1
  <1>11. Stays
    BY <1>5, <1>6, <1>7, <1>8, <1>9, <1>10 DEF ReaderStep
  <1> QED BY <1>1, <1>11, StandingStep DEF Standing

LEMMA ReadKnownStanding ==
  ASSUME Inv, Standing, Created, NEW p \in Packets, ReadKnown(p)
  PROVE  Standing'
  <1>1. p.key \in Keys /\ table[p.key] # None /\ UNCHANGED <<table, doomed>>
    BY PacketTyped DEF ReadKnown
  <1>2. reader'.obj = table[p.key]
    BY DEF ReadKnown, Listening
  <1>3. left \in [reads: Nat, ticks: Nat, failures: Nat] /\ left.reads > 0
    BY DEF Standing, ReadKnown
  <1>4. PICK n \in Nat : n = left.reads - 1
    BY <1>3
  <1>5. left' = [left EXCEPT !.reads = n]
    BY <1>4 DEF ReadKnown
  <1>6. left' \in [reads: Nat, ticks: Nat, failures: Nat]
    BY <1>3, <1>5
  <1> QED BY <1>1, <1>2, <1>6, StandingStep DEF Standing

\* The new session is one more, and there was room for it.
LEMMA ReadNewStanding ==
  ASSUME Inv, Standing, Created, NEW p \in Packets, ReadNew(p)
  PROVE  Standing'
  <1>1. PICK o \in Objs :
          /\ table' = [table EXCEPT ![p.key] = o]
          /\ ses' = [ses EXCEPT ![o].key = p.key, ![o].st = "open", ![o].worker = "idle"]
          /\ reader' = [Listening EXCEPT !.pc = "accept", !.pkt = p, !.obj = o]
    BY DEF ReadNew
  <1>2. p.key \in Keys /\ table \in [Keys -> Objs \cup {None}] /\ ses \in [Objs -> Sessions]
    BY PacketTyped DEF Inv, Typed
  <1>3. ses'[o].st = "open"
    BY <1>1, <1>2 DEF Sessions
  <1>4. reader'.obj = o
    BY <1>1 DEF Listening
  <1>5. \A k \in Keys : table'[k] = IF k = p.key THEN o ELSE table[k]
    BY <1>1, <1>2
  <1>6. \A k \in Keys : table'[k] # None => ses'[table'[k]].st # "unused"
    BY <1>2, <1>3, <1>5 DEF Standing, Alive, Created
  <1>7. IsFiniteSet(Listed) /\ Cardinality(Listed) \in Nat /\ Cardinality(Listed) < HardSessions
    BY ListedFinite DEF ReadNew
  <1>8. Listed' \in SUBSET (Listed \cup {o})
    BY <1>5 DEF Listed
  <1>9. IsFiniteSet(Listed \cup {o}) /\ Cardinality(Listed \cup {o}) <= Cardinality(Listed) + 1
        /\ Cardinality(Listed \cup {o}) \in Nat
    <2>1. /\ IsFiniteSet(Listed \cup {o})
          /\ Cardinality(Listed \cup {o}) = IF o \in Listed THEN Cardinality(Listed) ELSE Cardinality(Listed) + 1
      BY <1>7, FS_AddElement
    <2> QED BY <1>7, <2>1
  <1>10. Cardinality(Listed') <= Cardinality(Listed \cup {o}) /\ IsFiniteSet(Listed')
    BY <1>8, <1>9, FS_Subset
  <1>11. Cardinality(Listed') \in Nat /\ HardSessions \in Nat
    BY <1>10, FS_CardinalityType, Limits
  <1>12. Cardinality(Listed') <= HardSessions
    BY <1>7, <1>9, <1>10, <1>11
  <1>13. left \in [reads: Nat, ticks: Nat, failures: Nat] /\ left.reads > 0
    BY DEF Standing, ReadNew
  <1>14. PICK n \in Nat : n = left.reads - 1
    BY <1>13
  <1>15. left' = [left EXCEPT !.reads = n]
    BY <1>14 DEF ReadNew
  <1>16. left' \in [reads: Nat, ticks: Nat, failures: Nat]
    BY <1>13, <1>15
  <1>17. doomed' \subseteq Objs
    BY DEF ReadNew, Standing
  <1> QED BY <1>3, <1>4, <1>6, <1>12, <1>16, <1>17 DEF Standing, Alive, Handling, Listed

LEMMA ShutdownStanding ==
  ASSUME Inv, Standing, Created, Shutdown
  PROVE  Standing'
  <1>1. UNCHANGED <<table, left>> /\ doomed' = doomed \cup Listed /\ reader' = [Listening EXCEPT !.pc = "stopped"]
    BY DEF Shutdown
  <1>2. reader'.pc \notin Handling
    BY <1>1 DEF Listening, Handling
  <1> QED BY <1>1, <1>2, ListedFinite, StandingStep DEF Standing

LEMMA SweepStanding ==
  ASSUME Inv, Standing, Created, Sweep
  PROVE  Standing'
  <1>1. UNCHANGED <<reader, left>>
    BY DEF Sweep
  <1> DEFINE expired == {o \in Listed : Expired(ses[o])}
  <1>2. PICK V \in Reclaimed(Listed \ expired) :
           /\ doomed' = doomed \cup expired \cup V
           /\ table' = [k \in Keys |-> IF table[k] \in expired \cup V THEN None ELSE table[k]]
    BY DEF Sweep
  <1>3. V \subseteq Listed \ expired
    BY <1>2 DEF Reclaimed
  <1>4. doomed' \subseteq Objs
    BY <1>2, <1>3, ListedFinite DEF Standing
  <1>5. \A k \in Keys : table'[k] = table[k] \/ table'[k] = None
    BY <1>2
  <1> QED BY <1>1, <1>4, <1>5, StandingStep DEF Standing

\* A worker, the sweeper or whoever closes a session.
LEMMA AsideStanding ==
  ASSUME Inv, Standing, Created, NEW o \in Objs,
         Worker(o) \/ Close(o) \/ ReadTargetFails(o) \/ Tick(o) \/ ExpireFragments(o)
  PROVE  Standing'
  <1>1. reader' = reader /\ doomed' \subseteq doomed
    BY DEF Worker, Close, TakeToken, TakePacket, DropStale, Write, WriteFails, WriteFailed, WorkerEnds,
           CloseQueue, CloseFragments, RemoveSession, CloseDoomed, ReadTargetFails, Tick, ExpireFragments
  <1>2. \A k \in Keys : table'[k] = table[k] \/ table'[k] = None
    <2>1. CASE RemoveSession(o)
      BY <2>1 DEF RemoveSession, Inv, Typed
    <2>2. CASE ~RemoveSession(o)
      BY <2>2 DEF Worker, Close, TakeToken, TakePacket, DropStale, Write, WriteFails, WriteFailed,
           WorkerEnds, CloseQueue, CloseFragments, CloseDoomed, ReadTargetFails, Tick, ExpireFragments
    <2> QED BY <2>1, <2>2
  <1>3. left \in [reads: Nat, ticks: Nat, failures: Nat]
    BY DEF Standing
  <1>4. left' \in [reads: Nat, ticks: Nat, failures: Nat]
    <2>1. CASE left.failures > 0 /\ left' = [left EXCEPT !.failures = @ - 1]
      <3>1. PICK n \in Nat : n = left.failures - 1
        BY <1>3, <2>1
      <3>2. left' = [left EXCEPT !.failures = n]
        BY <2>1, <3>1
      <3> QED BY <1>3, <3>2
    <2>2. CASE left.ticks > 0 /\ left' = [left EXCEPT !.ticks = @ - 1]
      <3>1. PICK n \in Nat : n = left.ticks - 1
        BY <1>3, <2>2
      <3>2. left' = [left EXCEPT !.ticks = n]
        BY <2>2, <3>1
      <3> QED BY <1>3, <3>2
    <2>3. CASE left' = left
      BY <1>3, <2>3
    <2> QED BY <2>1, <2>2, <2>3 DEF Worker, Close, TakeToken, TakePacket, DropStale, Write, WriteFails,
            WriteFailed, WorkerEnds, CloseQueue, CloseFragments, RemoveSession, CloseDoomed,
            ReadTargetFails, Tick, ExpireFragments
  <1> QED BY <1>1, <1>2, <1>4, StandingStep DEF Standing

-----------------------------------------------------------------------------

ChargeInv == Charges /\ Standing

LEMMA InitCharges ==
  ASSUME Init, Inv
  PROVE  ChargeInv
  <1>1. \A o \in Objs : ses[o] = Unused
    BY DEF Init
  <1>2. Unused.queue = <<>> /\ Unused.pending = <<>> /\ Unused.lease = 0 /\ Unused.seen = {}
        /\ Unused.st = "unused"
    BY DEF Unused
  <1>3. Held(Unused) = 0 /\ \A q : Share(Unused, q) = 0
    BY <1>2, BytesNone DEF Held, Share
  <1>4. Fitting(Unused)
    BY <1>2, BytesNone, EmptySeq, Limits DEF Fitting
  <1>5. budget \in Budgets /\ Within(budget)
        /\ (\A q \in Rules : budget.rule[q] = 0) /\ budget.process = 0
    <2>1. PICK f \in [Rules -> Nat] : f = [q \in Rules |-> 0]
      OBVIOUS
    <2>2. budget = [rule |-> f, process |-> 0]
      BY <2>1 DEF Init
    <2>3. budget \in Budgets
      BY <2>2 DEF Budgets
    <2>4. (\A q \in Rules : budget.rule[q] = 0) /\ budget.process = 0
      BY <2>1, <2>2
    <2> QED BY <2>3, <2>4, Limits DEF Within
  <1>6. ASSUME NEW f, \A i \in Objs : f[i] = 0 PROVE SumTo(f, MaxSessions) = 0
    <2> DEFINE S == {n \in Nat : n <= MaxSessions => SumTo(f, n) = 0}
    <2>1. 0 \in S
      BY SumToStep
    <2>2. ASSUME NEW n \in Nat, n \in S PROVE n + 1 \in S
      <3>1. n + 1 <= MaxSessions => n + 1 \in Objs /\ n <= MaxSessions
        BY Bounds DEF Objs
      <3> QED BY <1>6, <2>2, <3>1, SumToStep
    <2> HIDE DEF S
    <2>3. \A n \in Nat : n \in S
      BY <2>1, <2>2, NatSet
    <2>4. MaxSessions \in Nat /\ MaxSessions <= MaxSessions
      BY Bounds
    <2> QED BY <2>3, <2>4 DEF S
  <1>7. Exact
    <2>1. ASSUME NEW q \in Rules PROVE SumTo([o \in Objs |-> Share(ses[o], q)], MaxSessions) = 0
      <3> DEFINE f == [o \in Objs |-> Share(ses[o], q)]
      <3>1. \A i \in Objs : f[i] = 0
        BY <1>1, <1>3
      <3> HIDE DEF f
      <3>2. SumTo(f, MaxSessions) = 0
        BY <1>6, <3>1
      <3> QED BY <3>2 DEF f
    <2>2. SumTo([o \in Objs |-> Held(ses[o])], MaxSessions) = 0
      <3> DEFINE f == [o \in Objs |-> Held(ses[o])]
      <3>1. \A i \in Objs : f[i] = 0
        BY <1>1, <1>3
      <3> HIDE DEF f
      <3>2. SumTo(f, MaxSessions) = 0
        BY <1>6, <3>1
      <3> QED BY <3>2 DEF f
    <2> QED BY <1>5, <2>1, <2>2 DEF Exact
  <1>8. Charges
    BY <1>1, <1>4, <1>5, <1>7 DEF Charges
  <1>9. Alive
    BY ListeningTyped DEF Init, Alive, Handling
  <1>10. Cardinality(Listed) <= HardSessions
    <2>1. Listed = {}
      BY Bounds DEF Listed, Init
    <2> QED BY <2>1, FS_EmptySet, Limits
  <1>11. left \in [reads: Nat, ticks: Nat, failures: Nat]
    <2>1. MaxReads \in Nat /\ MaxTicks \in Nat /\ MaxFailures \in Nat
      BY ExitAssumption
    <2> QED BY <2>1 DEF Init
  <1>12. doomed \subseteq Objs
    BY DEF Init
  <1> QED BY <1>8, <1>9, <1>10, <1>11, <1>12 DEF ChargeInv, Standing

LEMMA NextCharges ==
  ASSUME Inv, ChargeInv, [Next]_vars
  PROVE  ChargeInv'
  <1>1. Charges /\ Standing /\ Alive
    BY DEF ChargeInv, Standing
  <1>2. ASSUME NEW p \in Packets, ReadKnown(p) PROVE ChargeInv'
    BY <1>1, <1>2, ReadKnownCharged, ReadKnownStanding DEF ChargeInv
  <1>3. ASSUME NEW p \in Packets, ReadNew(p) PROVE ChargeInv'
    BY <1>1, <1>3, ReadNewCharged, ReadNewStanding DEF ChargeInv
  <1>4. CASE ReaderStep
    <2>1. Charges' /\ Created
      BY <1>1, <1>4, CheckCharged, AcceptClosedCharged, AcceptWholeCharged, AcceptFragmentCharged,
         ForwardCharged, EnqueueCharged DEF ReaderStep
    <2> QED BY <1>1, <1>4, <2>1, ReaderStanding DEF ChargeInv
  <1>5. CASE Shutdown
    <2>1. Charges' /\ Created
      BY <1>1, <1>5, UntouchedCharged DEF Shutdown
    <2> QED BY <1>1, <1>5, <2>1, ShutdownStanding DEF ChargeInv
  <1>6. CASE Sweep
    <2>1. Charges' /\ Created
      BY <1>1, <1>6, UntouchedCharged DEF Sweep
    <2> QED BY <1>1, <1>6, <2>1, SweepStanding DEF ChargeInv
  <1>7. ASSUME NEW o \in Objs, Worker(o) PROVE ChargeInv'
    <2>1. Charges' /\ Created
      BY <1>1, <1>7, TakeTokenCharged, TakePacketCharged, DoneCharged, WriteCharged, WriteFailsCharged,
         WorkerEndsCharged DEF Worker
    <2> QED BY <1>1, <1>7, <2>1, AsideStanding DEF ChargeInv
  <1>8. ASSUME NEW o \in Objs, Close(o) PROVE ChargeInv'
    <2>1. Charges' /\ Created
      BY <1>1, <1>8, CloseQueueCharged, CloseFragmentsCharged, RemoveSessionCharged, ClosingCharged
         DEF Close
    <2> QED BY <1>1, <1>8, <2>1, AsideStanding DEF ChargeInv
  <1>9. ASSUME NEW o \in Objs, ReadTargetFails(o) \/ Tick(o) \/ ExpireFragments(o) PROVE ChargeInv'
    <2>1. Charges' /\ Created
      BY <1>1, <1>9, ClosingCharged, TickCharged, ExpireFragmentsCharged
    <2> QED BY <1>1, <1>9, <2>1, AsideStanding DEF ChargeInv
  <1>10. CASE UNCHANGED vars
    <2>1. UNCHANGED <<table, ses, budget, reader, doomed, left>>
      BY <1>10 DEF vars
    <2>2. Charges' /\ Created
      BY <1>1, <2>1, UntouchedCharged
    <2>3. Standing'
      BY <1>1, <2>1, <2>2, StandingStep DEF Standing
    <2> QED BY <2>2, <2>3 DEF ChargeInv
  <1> QED BY <1>2, <1>3, <1>4, <1>5, <1>6, <1>7, <1>8, <1>9, <1>10 DEF Next

LEMMA ChargesGiveExact ==
  ASSUME Inv, ChargeInv
  PROVE  BudgetExact
  <1>1. \A k \in Keys : table[k] \in {None} \/ table[k] \in Objs
    BY DEF Inv, Typed
  <1>2. ASSUME NEW o \in Objs
        PROVE  /\ ses[o].st \in {"unused", "open", "done", "drained", "swept", "closed"}
               /\ ses[o].inFlight \in 0 .. 2
    <2>1. ses[o].st \in Stages
      BY DEF Inv, Typed, Sessions
    <2>2. ses[o].inFlight = ByWorker(ses[o]) + ByReader(o)
      BY DEF Inv, InFlightExact
    <2>3. ByWorker(ses[o]) \in 0 .. 1 /\ ByReader(o) \in 0 .. 1
      BY DEF ByWorker, ByReader
    <2> QED BY <2>1, <2>2, <2>3 DEF Stages
  <1>3. \A o \in Objs : /\ Len(ses[o].queue) <= QueueSize /\ Bytes(ses[o].queue) <= QueueBytes
                        /\ Len(ses[o].pending) <= MaxPending
                        /\ ses[o].seen \subseteq 0 .. ReplayBits - 1
    BY DEF ChargeInv, Charges, Fitting
  <1>4. budget \in Budgets /\ Within(budget) /\ RuleLimit \in Nat /\ ProcessLimit \in Nat
    BY Limits DEF ChargeInv, Charges
  <1>5. budget.rule \in [Rules -> Nat] /\ budget.process \in Nat
    BY <1>4 DEF Budgets
  <1>6. \A q \in Rules : budget.rule[q] \in 0 .. RuleLimit
    BY <1>4, <1>5 DEF Within
  <1>7. budget.rule \in [Rules -> 0 .. RuleLimit]
    BY <1>5, <1>6
  <1>8. budget.process \in 0 .. ProcessLimit
    BY <1>4, <1>5 DEF Within
  <1>9. TypeOK
    BY <1>1, <1>2, <1>3, <1>7, <1>8 DEF TypeOK, ChargeInv, Standing
  <1> QED BY <1>9 DEF BudgetExact, ChargeInv, Charges, Exact

\* The budgets of every rule and of the process are exact and within their
\* limits, and so are the queues, the assemblies, the replay windows and the
\* table.
THEOREM ChargesExact == Spec => []BudgetExact
  <1>1. Init /\ Inv => ChargeInv
    BY InitCharges
  <1>2. Inv /\ ChargeInv /\ [Next]_vars => ChargeInv'
    BY NextCharges
  <1>3. Inv /\ ChargeInv => BudgetExact
    BY ChargesGiveExact
  <1> QED BY <1>1, <1>2, <1>3, ExitInvariance, PTL DEF Spec
=============================================================================
