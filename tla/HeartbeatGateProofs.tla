-------------------------- MODULE HeartbeatGateProofs --------------------------
(***************************************************************************)
(* The safety of HeartbeatGate for every set of hosts and number of slots. *)
(*                                                                         *)
(* SlotsExact counts, and a count is not inductive: that as many           *)
(* reconciliations are under way as there are slots taken does not say     *)
(* that the one that ends gives back its own slot.  The invariant says it  *)
(* host by host: every reconciliation has a slot, every slot a             *)
(* reconciliation, no host has two (OneEach), and no host stands in two    *)
(* places of the queue (Distinct); the counts follow at the end from the   *)
(* bijections.  Each operation of the gate is shown to keep a gate sound   *)
(* on its own, before the actions that use it.                             *)
(***************************************************************************)
EXTENDS HeartbeatGate, FiniteSetTheorems, SequenceTheorems, TLAPS

Gates == [active : SUBSET Hosts, recent : SUBSET Hosts, waiting : Seq(Hosts), stale : SUBSET Hosts]

\* Nobody waits twice.
Distinct(q) == \A i, j \in 1 .. Len(q) : q[i] = q[j] => i = j

\* A gate on its own: no slot too many, and one place for a host.
Sound(g) ==
  /\ g \in Gates
  /\ IsFiniteSet(g.active) /\ Cardinality(g.active) <= MaxConcurrent
  /\ Distinct(g.waiting)
  /\ \A h \in g.active : ~Waits(g, h)
  /\ \A h \in g.stale : Waits(g, h)

\* The panel's work is one reconciliation for every slot.
OneEach ==
  /\ \A w \in work : w.host \in gate.active
  /\ \A h \in gate.active : \E w \in work : w.host = h
  /\ \A v, w \in work : v.host = w.host => v = w

Typed ==
  /\ plan \in [Hosts -> SUBSET Plan]
  /\ work \subseteq Work
  /\ config \in [Hosts -> Configs] /\ running \in [Hosts -> Configs]
  /\ dirty \subseteq Hosts /\ wake \subseteq Hosts
  /\ awaits \subseteq Hosts /\ online \subseteq Hosts
  /\ faults \in 0 .. MaxFaults

Inv == Typed /\ Sound(gate) /\ OneEach

-----------------------------------------------------------------------------
(* The gate. *)

LEMMA Bounds ==
  /\ MaxConcurrent \in Nat \ {0} /\ MaxChanges \in Nat /\ MaxFaults \in Nat
  /\ Edited \subseteq Hosts /\ 0 \in Configs
  BY GateAssumption DEF Configs

LEMMA WaitsAt ==
  ASSUME NEW g, NEW h
  PROVE  Waits(g, h) <=> \E i \in DOMAIN g.waiting : g.waiting[i] = h
  BY DEF Waits, ToSet

\* What is left of a queue is some end of it.
LEMMA PrunedSound ==
  ASSUME NEW g, Sound(g)
  PROVE  /\ Sound(Pruned(g)) /\ Pruned(g).active = g.active
         /\ Pruned(g).recent = g.recent
  <1>1. PICK q \in Seq(Hosts) : q = g.waiting
    BY DEF Sound, Gates
  <1>2. Len(q) \in Nat /\ DOMAIN q = 1 .. Len(q)
    BY LenProperties
  <1>3. PICK dropped \in SUBSET (1 .. Len(q)) :
          dropped = {i \in DOMAIN g.waiting : \A j \in 1 .. i : g.waiting[j] \in g.stale}
    BY <1>1, <1>2
  <1>4. PICK n \in Nat : n = Cardinality(dropped) /\ n <= Len(q)
    <2>1. IsFiniteSet(1 .. Len(q)) /\ Cardinality(1 .. Len(q)) = Len(q)
      <3>1. 1 \in Int /\ Len(q) \in Int
        BY <1>2
      <3>2. /\ IsFiniteSet(1 .. Len(q))
            /\ Cardinality(1 .. Len(q)) = IF 1 > Len(q) THEN 0 ELSE Len(q) - 1 + 1
        BY <3>1, FS_Interval
      <3> QED BY <1>2, <3>2
    <2>2. IsFiniteSet(dropped) /\ Cardinality(dropped) <= Len(q)
      BY <2>1, FS_Subset
    <2> QED BY <2>2, FS_CardinalityType
  <1>5. PICK m \in 1 .. Len(q) + 1 : m = n + 1
    BY <1>2, <1>4
  <1>6. PICK left : left = SubSeq(q, m, Len(q))
    OBVIOUS
  <1>7. /\ left \in Seq(Hosts)
        /\ Len(left) = Len(q) - n
        /\ \A i \in 1 .. Len(left) : left[i] = q[i + n] /\ i + n \in 1 .. Len(q)
    <2>1. \A i \in m .. Len(q) : q[i] \in Hosts
      BY <1>2, <1>5, ElementOfSeq
    <2>2. /\ left \in Seq(Hosts)
          /\ Len(left) = IF m <= Len(q) THEN Len(q) - m + 1 ELSE 0
          /\ \A i \in 1 .. Len(q) - m + 1 : left[i] = q[m + i - 1]
      BY <1>2, <1>5, <1>6, <2>1, SubSeqProperties
    <2>3. Len(left) = Len(q) - n
      BY <1>2, <1>4, <1>5, <2>2
    <2>4. ASSUME NEW i \in 1 .. Len(left)
          PROVE  left[i] = q[i + n] /\ i + n \in 1 .. Len(q)
      <3>1. i \in 1 .. Len(q) - m + 1 /\ m + i - 1 = i + n /\ i + n \in 1 .. Len(q)
        BY <1>2, <1>4, <1>5, <2>3
      <3> QED BY <2>2, <3>1
    <2> QED BY <2>2, <2>3, <2>4
  <1>8. DOMAIN left = 1 .. Len(left)
    BY <1>7, LenProperties
  <1>9. PICK st \in SUBSET Hosts : st = g.stale \cap ToSet(left)
    BY DEF Sound, Gates
  <1>10. PICK x : x = [g EXCEPT !.waiting = left, !.stale = st]
    OBVIOUS
  <1>11. Pruned(g) = x
    BY <1>1, <1>3, <1>4, <1>5, <1>6, <1>9, <1>10 DEF Pruned
  <1>12. /\ x \in Gates /\ x.active = g.active /\ x.recent = g.recent
         /\ x.waiting = left /\ x.stale = st
    BY <1>7, <1>10 DEF Sound, Gates
  <1>13. Distinct(left)
    <2> SUFFICES ASSUME NEW i \in 1 .. Len(left), NEW j \in 1 .. Len(left), left[i] = left[j]
                 PROVE  i = j
      BY DEF Distinct
    <2>1. q[i + n] = q[j + n] /\ i + n \in 1 .. Len(q) /\ j + n \in 1 .. Len(q)
      BY <1>7
    <2>2. i + n = j + n
      BY <1>1, <2>1 DEF Sound, Distinct
    <2> QED BY <1>4, <1>7, <2>2
  <1>14. \A h : Waits(x, h) => Waits(g, h)
    BY <1>1, <1>2, <1>7, <1>8, <1>12, WaitsAt
  <1>15. \A h \in st : Waits(x, h)
    BY <1>9, <1>12 DEF Waits
  <1> QED BY <1>11, <1>12, <1>13, <1>14, <1>15 DEF Sound

LEMMA EnqueuedSound ==
  ASSUME NEW g, Sound(g), NEW h \in Hosts, h \notin g.active
  PROVE  Sound(Enqueued(g, h)) /\ Enqueued(g, h).active = g.active
  <1>1. PICK q \in Seq(Hosts) : q = g.waiting
    BY DEF Sound, Gates
  <1>2. PICK p \in Seq(Hosts) : p = IF Waits(g, h) THEN q ELSE Append(q, h)
    BY AppendProperties
  <1>3. PICK st \in SUBSET Hosts : st = g.stale \ {h}
    BY DEF Sound, Gates
  <1>4. PICK x : x = [g EXCEPT !.waiting = p, !.stale = st]
    OBVIOUS
  <1>5. Enqueued(g, h) = x
    BY <1>1, <1>2, <1>3, <1>4 DEF Enqueued
  <1>6. x \in Gates /\ x.active = g.active /\ x.waiting = p /\ x.stale = st
    BY <1>4 DEF Sound, Gates
  <1>7. Len(q) \in Nat /\ DOMAIN q = 1 .. Len(q) /\ Len(p) \in Nat /\ DOMAIN p = 1 .. Len(p)
    BY LenProperties
  <1>8. CASE Waits(g, h)
    <2>1. p = q
      BY <1>2, <1>8
    <2>2. \A k : Waits(x, k) <=> Waits(g, k)
      BY <1>1, <1>6, <2>1 DEF Waits
    <2> QED BY <1>1, <1>3, <1>5, <1>6, <2>1, <2>2 DEF Sound
  <1>9. CASE ~Waits(g, h)
    <2>1. /\ Len(p) = Len(q) + 1 /\ p[Len(q) + 1] = h
          /\ \A i \in 1 .. Len(q) : p[i] = q[i]
      BY <1>2, <1>9, AppendProperties
    <2>2. \A i \in 1 .. Len(q) : q[i] # h
      BY <1>1, <1>7, <1>9, WaitsAt
    <2>3. Distinct(p)
      <3> SUFFICES ASSUME NEW i \in 1 .. Len(p), NEW j \in 1 .. Len(p), p[i] = p[j]
                   PROVE  i = j
        BY DEF Distinct
      <3>1. Distinct(q)
        BY <1>1 DEF Sound
      <3>2. i \in 1 .. Len(q) \/ i = Len(q) + 1
        BY <1>7, <2>1
      <3>3. j \in 1 .. Len(q) \/ j = Len(q) + 1
        BY <1>7, <2>1
      <3> QED BY <2>1, <2>2, <3>1, <3>2, <3>3 DEF Distinct
    <2>4. \A k : Waits(x, k) => Waits(g, k) \/ k = h
      <3> SUFFICES ASSUME NEW k, NEW i \in 1 .. Len(p), p[i] = k PROVE Waits(g, k) \/ k = h
        BY <1>6, <1>7, WaitsAt
      <3>1. i \in 1 .. Len(q) \/ i = Len(q) + 1
        BY <1>7, <2>1
      <3> QED BY <1>1, <1>7, <2>1, <3>1, WaitsAt
    <2>5. \A k : Waits(g, k) => Waits(x, k)
      <3> SUFFICES ASSUME NEW k, NEW i \in 1 .. Len(q), q[i] = k PROVE Waits(x, k)
        BY <1>1, <1>7, WaitsAt
      <3>1. i \in 1 .. Len(p) /\ p[i] = k
        BY <1>7, <2>1
      <3> QED BY <1>6, <1>7, <3>1, WaitsAt
    <2> QED BY <1>3, <1>5, <1>6, <2>3, <2>4, <2>5 DEF Sound
  <1> QED BY <1>8, <1>9

LEMMA EnteredSound ==
  ASSUME NEW g, Sound(g), NEW h \in Hosts, h \notin g.active, MayEnter(g, h)
  PROVE  Sound(Entered(g, h)) /\ Entered(g, h).active = g.active \cup {h}
  <1>1. PICK q \in Seq(Hosts) : q = g.waiting
    BY DEF Sound, Gates
  <1>2. PICK p \in Seq(Hosts) : p = IF q = << >> THEN q ELSE Tail(q)
    BY HeadTailProperties
  <1>3. PICK st \in SUBSET Hosts : st = g.stale \ {h}
    BY DEF Sound, Gates
  <1>4. PICK ac \in SUBSET Hosts : ac = g.active \cup {h}
    BY DEF Sound, Gates
  <1>5. PICK x : x = [g EXCEPT !.active = ac, !.waiting = p, !.stale = st]
    OBVIOUS
  <1>6. Entered(g, h) = x
    BY <1>1, <1>2, <1>3, <1>4, <1>5 DEF Entered
  <1>7. x \in Gates /\ x.active = ac /\ x.waiting = p /\ x.stale = st
    BY <1>5 DEF Sound, Gates
  <1>8. Len(q) \in Nat /\ DOMAIN q = 1 .. Len(q) /\ Len(p) \in Nat /\ DOMAIN p = 1 .. Len(p)
    BY LenProperties
  <1>9. IsFiniteSet(ac) /\ Cardinality(ac) <= MaxConcurrent
    <2>1. IsFiniteSet(g.active) /\ Cardinality(g.active) < MaxConcurrent
      BY DEF Sound, MayEnter
    <2>2. IsFiniteSet(ac) /\ Cardinality(ac) = Cardinality(g.active) + 1
      BY <1>4, <2>1, FS_AddElement
    <2>3. Cardinality(g.active) \in Nat
      BY <2>1, FS_CardinalityType
    <2> QED BY <2>1, <2>2, <2>3, Bounds
  <1>10. Distinct(p) /\ ~Waits(x, h) /\ \A k : k # h => (Waits(x, k) <=> Waits(g, k))
    <2>1. CASE q = << >>
      <3>1. Len(q) = 0 /\ p = q
        BY <1>2, <2>1, EmptySeq
      <3>2. \A k : ~Waits(x, k) /\ ~Waits(g, k)
        BY <1>1, <1>7, <1>8, <3>1, WaitsAt
      <3>3. Distinct(p)
        BY <3>1 DEF Distinct
      <3> QED BY <3>2, <3>3
    <2>2. CASE q # << >>
      <3>1. /\ p = Tail(q) /\ Len(p) = Len(q) - 1 /\ q[1] = h
            /\ \A i \in 1 .. Len(p) : p[i] = q[i + 1]
        BY <1>1, <1>2, <2>2, HeadTailProperties DEF MayEnter
      <3>2. 1 \in 1 .. Len(q)
        BY <1>8, <3>1
      <3>3. Distinct(q)
        BY <1>1 DEF Sound
      <3>4. Distinct(p)
        <4> SUFFICES ASSUME NEW i \in 1 .. Len(p), NEW j \in 1 .. Len(p), p[i] = p[j]
                     PROVE  i = j
          BY DEF Distinct
        <4>1. i + 1 \in 1 .. Len(q) /\ j + 1 \in 1 .. Len(q) /\ q[i + 1] = q[j + 1]
          BY <1>8, <3>1
        <4>2. i + 1 = j + 1
          BY <3>3, <4>1 DEF Distinct
        <4> QED BY <1>8, <4>2
      <3>5. ~Waits(x, h)
        <4> SUFFICES ASSUME NEW i \in 1 .. Len(p), p[i] = h PROVE FALSE
          BY <1>7, <1>8, WaitsAt
        <4>1. i + 1 \in 1 .. Len(q) /\ q[i + 1] = q[1]
          BY <1>8, <3>1
        <4>2. i + 1 = 1
          BY <3>2, <3>3, <4>1 DEF Distinct
        <4> QED BY <1>8, <4>2
      <3>6. ASSUME NEW k, k # h PROVE Waits(x, k) <=> Waits(g, k)
        <4>1. ASSUME NEW i \in 1 .. Len(p), p[i] = k PROVE Waits(g, k)
          <5>1. i + 1 \in 1 .. Len(q) /\ q[i + 1] = k
            BY <1>8, <3>1, <4>1
          <5> QED BY <1>1, <1>8, <5>1, WaitsAt
        <4>2. ASSUME NEW i \in 1 .. Len(q), q[i] = k PROVE Waits(x, k)
          <5>1. PICK j \in 1 .. Len(p) : j = i - 1
            BY <1>8, <3>1, <3>6, <4>2
          <5>2. p[j] = k
            BY <1>8, <3>1, <4>2, <5>1
          <5> QED BY <1>7, <1>8, <5>2, WaitsAt
        <4> QED BY <1>1, <1>7, <1>8, <4>1, <4>2, WaitsAt
      <3> QED BY <3>4, <3>5, <3>6
    <2> QED BY <2>1, <2>2
  <1>11. \A k \in ac : ~Waits(x, k)
    BY <1>4, <1>10 DEF Sound
  <1>12. \A k \in st : Waits(x, k)
    BY <1>3, <1>10 DEF Sound
  <1> QED BY <1>4, <1>6, <1>7, <1>9, <1>10, <1>11, <1>12 DEF Sound

LEMMA ReleasedSound ==
  ASSUME NEW g, Sound(g), NEW h \in Hosts
  PROVE  Sound(Released(g, h)) /\ Released(g, h).active = g.active \ {h}
  <1>1. PICK ac \in SUBSET Hosts : ac = g.active \ {h}
    BY DEF Sound, Gates
  <1>2. PICK rc \in SUBSET Hosts : rc = g.recent \cup {h}
    BY DEF Sound, Gates
  <1>3. PICK x : x = [g EXCEPT !.active = ac, !.recent = rc]
    OBVIOUS
  <1>4. Released(g, h) = x
    BY <1>1, <1>2, <1>3 DEF Released
  <1>5. x \in Gates /\ x.active = ac /\ x.waiting = g.waiting /\ x.stale = g.stale
    BY <1>3 DEF Sound, Gates
  <1>6. IsFiniteSet(ac) /\ Cardinality(ac) <= MaxConcurrent
    <2>1. IsFiniteSet(g.active) /\ Cardinality(g.active) <= MaxConcurrent /\ ac \in SUBSET g.active
      BY <1>1 DEF Sound
    <2>2. IsFiniteSet(ac) /\ Cardinality(ac) <= Cardinality(g.active)
      BY <2>1, FS_Subset
    <2>3. Cardinality(ac) \in Nat /\ Cardinality(g.active) \in Nat
      BY <2>1, <2>2, FS_CardinalityType
    <2> QED BY <2>1, <2>2, <2>3, Bounds
  <1>7. \A k : Waits(x, k) <=> Waits(g, k)
    BY <1>5 DEF Waits
  <1> QED BY <1>1, <1>4, <1>5, <1>6, <1>7 DEF Sound

\* The next state's gate is sound as any other.
LEMMA SoundPrimed == Sound(gate') => Sound(gate)'
  BY DEF Sound

-----------------------------------------------------------------------------
(* The steps of the panel. *)

\* A host that asks.
LEMMA AskInv ==
  ASSUME Inv, NEW h \in Hosts, Ask(h)
  PROVE  Inv'
  <1>1. PICK g : g = Pruned(gate)
    OBVIOUS
  <1>2. Sound(g) /\ g.active = gate.active
    BY <1>1, PrunedSound DEF Inv
  <1>3. PICK force \in BOOLEAN : force = (h \in wake)
    <2>1. CASE h \in wake
      <3>1. TRUE = (h \in wake)
        BY <2>1
      <3> QED BY <3>1
    <2>2. CASE h \notin wake
      <3>1. FALSE = (h \in wake)
        BY <2>2
      <3> QED BY <3>1
    <2> QED BY <2>1, <2>2
  <1>4. /\ wake' = wake \ {h}
        /\ UNCHANGED <<plan, config, dirty, running, online, faults>>
    BY DEF Ask
  <1>5. \/ gate' = g /\ UNCHANGED <<work, awaits>>
        \/ /\ ~Coalesces(g, h, force) /\ gate' = Enqueued(g, h) /\ UNCHANGED <<work, awaits>>
        \/ /\ ~Coalesces(g, h, force) /\ MayEnter(g, h) /\ gate' = Entered(g, h)
           /\ work' = work \cup {[host |-> h, pc |-> "match", force |-> force,
                                  reported |-> running[h], seen |-> 0]}
           /\ awaits' = awaits \cup {h}
    BY <1>1, <1>3 DEF Ask
  <1>6. CASE gate' = g /\ UNCHANGED <<work, awaits>>
    <2>1. Sound(gate')
      BY <1>2, <1>6
    <2>2. OneEach'
      BY <1>2, <1>6 DEF Inv, OneEach
    <2> QED BY <1>4, <1>6, <2>1, <2>2, SoundPrimed DEF Inv, Typed
  <1>7. CASE ~Coalesces(g, h, force) /\ gate' = Enqueued(g, h) /\ UNCHANGED <<work, awaits>>
    <2>1. h \notin g.active
      BY <1>7 DEF Coalesces
    <2>2. Sound(gate') /\ gate'.active = gate.active
      BY <1>2, <1>7, <2>1, EnqueuedSound
    <2>3. OneEach'
      BY <1>7, <2>2 DEF Inv, OneEach
    <2> QED BY <1>4, <1>7, <2>2, <2>3, SoundPrimed DEF Inv, Typed
  <1>8. CASE /\ ~Coalesces(g, h, force) /\ MayEnter(g, h) /\ gate' = Entered(g, h)
             /\ work' = work \cup {[host |-> h, pc |-> "match", force |-> force,
                                    reported |-> running[h], seen |-> 0]}
             /\ awaits' = awaits \cup {h}
    <2>1. h \notin g.active
      BY <1>8 DEF Coalesces
    <2>2. Sound(gate') /\ gate'.active = gate.active \cup {h}
      BY <1>2, <1>8, <2>1, EnteredSound
    <2>3. PICK zero \in Configs : zero = 0
      BY Bounds
    <2>4. PICK new : new = [host |-> h, pc |-> "match", force |-> force,
                            reported |-> running[h], seen |-> zero]
      OBVIOUS
    <2>5. new \in Work /\ new.host = h
      BY <2>4 DEF Work, Inv, Typed
    <2>6. work' = work \cup {new}
      BY <1>8, <2>3, <2>4
    <2>7. \A w \in work : w.host # h
      BY <1>2, <2>1 DEF Inv, OneEach
    <2>8. OneEach'
      BY <2>2, <2>5, <2>6, <2>7 DEF Inv, OneEach
    <2>9. Typed'
      BY <1>4, <1>8, <2>5, <2>6 DEF Inv, Typed
    <2> QED BY <2>2, <2>8, <2>9, SoundPrimed DEF Inv
  <1> QED BY <1>5, <1>6, <1>7, <1>8

\* A reconciliation that ends gives its own slot back, and no other.
LEMMA EndsOne ==
  ASSUME Inv, NEW w \in work, work' = work \ {w}, gate' = Released(gate, w.host)
  PROVE  Sound(gate') /\ OneEach'
  <1>1. w.host \in Hosts
    BY DEF Inv, Typed, Work
  <1>2. Sound(gate') /\ gate'.active = gate.active \ {w.host}
    BY <1>1, ReleasedSound DEF Inv
  <1>3. \A v \in work' : v.host # w.host
    BY DEF Inv, OneEach
  <1> QED BY <1>2, <1>3 DEF Inv, OneEach

LEMMA MatchInv ==
  ASSUME Inv, NEW w \in work, Match(w)
  PROVE  Inv'
  <1>1. UNCHANGED <<plan, config, dirty, running, wake, online, faults>>
    BY DEF Match
  <1>2. CASE work' = work \ {w} /\ gate' = Released(gate, w.host) /\ awaits' = awaits \ {w.host}
    <2>1. Sound(gate') /\ OneEach'
      BY <1>2, EndsOne
    <2>2. Typed'
      BY <1>1, <1>2 DEF Inv, Typed
    <2> QED BY <2>1, <2>2, SoundPrimed DEF Inv
  <1>3. CASE /\ work' = (work \ {w}) \cup {[w EXCEPT !.pc = "finish", !.seen = config[w.host]]}
             /\ UNCHANGED <<gate, awaits>>
    <2>1. PICK u \in Work : u = w
      BY DEF Inv, Typed
    <2>2. PICK c \in Configs : c = config[u.host]
      BY DEF Inv, Typed, Work
    <2>3. PICK new : new = [u EXCEPT !.pc = "finish", !.seen = c]
      OBVIOUS
    <2>4. new \in Work /\ new.host = u.host
      BY <2>3 DEF Work
    <2>5. work' = (work \ {w}) \cup {new}
      BY <1>3, <2>1, <2>2, <2>3
    <2>6. OneEach'
      BY <1>3, <2>1, <2>4, <2>5 DEF Inv, OneEach
    <2>7. Typed'
      BY <1>1, <1>3, <2>4, <2>5 DEF Inv, Typed
    <2>8. Sound(gate')
      BY <1>3 DEF Inv
    <2> QED BY <2>6, <2>7, <2>8, SoundPrimed DEF Inv
  <1> QED BY <1>2, <1>3 DEF Match

LEMMA FinishInv ==
  ASSUME Inv, NEW w \in work, Finish(w)
  PROVE  Inv'
  <1>1. PICK h \in Hosts : h = w.host
    BY DEF Inv, Typed, Work
  <1>2. w.seen \in Configs
    BY DEF Inv, Typed, Work
  <1>3. /\ work' = work \ {w} /\ gate' = Released(gate, w.host) /\ awaits' = awaits \ {h}
        /\ UNCHANGED <<config, dirty, wake, online, faults>>
    BY <1>1 DEF Finish
  <1>4. Sound(gate') /\ OneEach'
    BY <1>3, EndsOne
  <1>5. PICK p \in SUBSET Plan : p = IF w.reported = w.seen THEN {[built |-> w.seen, aged |-> FALSE]} ELSE {}
    <2>1. PICK e \in Plan : e = [built |-> w.seen, aged |-> FALSE]
      BY <1>2 DEF Plan
    <2> QED BY <2>1
  <1>6. plan' = [plan EXCEPT ![h] = p]
    BY <1>1, <1>5 DEF Finish
  <1>7. plan' \in [Hosts -> SUBSET Plan]
    BY <1>6 DEF Inv, Typed
  <1>8. running' \in [Hosts -> Configs]
    BY <1>1, <1>2 DEF Finish, Inv, Typed
  <1>9. Typed'
    BY <1>3, <1>7, <1>8 DEF Inv, Typed
  <1> QED BY <1>4, <1>9, SoundPrimed DEF Inv

-----------------------------------------------------------------------------
(* Changes, time and faults. *)

LEMMA ChangeNotifyInv ==
  ASSUME Inv, NEW h \in Hosts, Change(h) \/ Notify(h) \/ Age(h)
  PROVE  Inv'
  <1>1. UNCHANGED <<gate, work, running, awaits, online, faults>>
    BY DEF Change, Notify, Age
  <1>2. dirty' \subseteq Hosts /\ wake' \subseteq Hosts
    BY DEF Change, Notify, Age, Inv, Typed
  <1>3. config' \in [Hosts -> Configs]
    <2>1. CASE Change(h)
      <3>1. config[h] + 1 \in Configs
        BY <2>1, Bounds DEF Change, Inv, Typed, Configs
      <3> QED BY <2>1, <3>1 DEF Change, Inv, Typed
    <2>2. CASE ~Change(h)
      BY <2>2 DEF Notify, Age, Inv, Typed
    <2> QED BY <2>1, <2>2
  <1>4. plan' \in [Hosts -> SUBSET Plan]
    <2>1. CASE Change(h)
      BY <2>1 DEF Change, Inv, Typed
    <2>2. CASE Notify(h)
      BY <2>2 DEF Notify, Inv, Typed
    <2>3. CASE Age(h)
      <3>1. PICK p \in SUBSET Plan : p = {[x EXCEPT !.aged = TRUE] : x \in plan[h]}
        <4>1. plan[h] \subseteq Plan
          BY DEF Inv, Typed
        <4>2. \A x \in Plan : [x EXCEPT !.aged = TRUE] \in Plan
          BY DEF Plan
        <4> QED BY <4>1, <4>2
      <3>2. plan' = [plan EXCEPT ![h] = p]
        BY <2>3, <3>1 DEF Age
      <3> QED BY <3>2 DEF Inv, Typed
    <2> QED BY <2>1, <2>2, <2>3
  <1>5. Typed'
    BY <1>1, <1>2, <1>3, <1>4 DEF Inv, Typed
  <1>6. Sound(gate') /\ OneEach'
    BY <1>1 DEF Inv, OneEach
  <1> QED BY <1>5, <1>6, SoundPrimed DEF Inv

LEMMA TimeInv ==
  ASSUME Inv, NEW h \in Hosts, Cool(h) \/ Stale(h)
  PROVE  Inv'
  <1>1. UNCHANGED <<plan, work, config, dirty, running, wake, awaits, online, faults>>
    BY DEF Cool, Stale
  <1>2. \E rc, st \in SUBSET Hosts :
          /\ gate' = [gate EXCEPT !.recent = rc, !.stale = st]
          /\ \A k \in st : Waits(gate, k)
    <2>1. gate \in Gates /\ \A k \in gate.stale : Waits(gate, k)
      BY DEF Inv, Sound
    <2>2. gate.recent \in SUBSET Hosts /\ gate.stale \in SUBSET Hosts
      BY <2>1 DEF Gates
    <2>3. CASE Cool(h)
      <3>1. PICK rc \in SUBSET Hosts : rc = gate.recent \ {h}
        BY <2>2
      <3>2. gate' = [gate EXCEPT !.recent = rc, !.stale = gate.stale]
        BY <2>1, <2>3, <3>1 DEF Cool, Gates
      <3> QED BY <2>1, <2>2, <3>2
    <2>4. CASE Stale(h)
      <3>1. PICK st \in SUBSET Hosts : st = gate.stale \cup {h}
        BY <2>2
      <3>2. gate' = [gate EXCEPT !.recent = gate.recent, !.stale = st]
        BY <2>1, <2>4, <3>1 DEF Stale, Gates
      <3>3. Waits(gate, h)
        BY <2>4 DEF Stale
      <3> QED BY <2>1, <2>2, <3>1, <3>2, <3>3
    <2> QED BY <2>3, <2>4
  <1>3. PICK rc \in SUBSET Hosts, st \in SUBSET Hosts :
          /\ gate' = [gate EXCEPT !.recent = rc, !.stale = st]
          /\ \A k \in st : Waits(gate, k)
    BY <1>2
  <1>4. /\ gate' \in Gates /\ gate'.active = gate.active /\ gate'.waiting = gate.waiting
        /\ gate'.stale = st
    BY <1>3 DEF Inv, Sound, Gates
  <1>5. \A k : Waits(gate', k) <=> Waits(gate, k)
    BY <1>4 DEF Waits
  <1>6. Sound(gate')
    BY <1>3, <1>4, <1>5 DEF Inv, Sound
  <1>7. OneEach' /\ Typed'
    BY <1>1, <1>4 DEF Inv, OneEach, Typed
  <1> QED BY <1>6, <1>7, SoundPrimed DEF Inv

LEMMA EmptySound == Sound(Empty) /\ Empty.active = {}
  <1>1. PICK q \in Seq(Hosts) : q = << >>
    BY EmptySeq
  <1>2. Empty = [active |-> {}, recent |-> {}, waiting |-> q, stale |-> {}]
    BY <1>1 DEF Empty
  <1>3. Empty \in Gates /\ Empty.active = {} /\ Empty.waiting = q /\ Empty.stale = {}
    BY <1>2 DEF Gates
  <1>4. Len(q) = 0
    BY <1>1, EmptySeq
  <1>5. Distinct(q)
    BY <1>4 DEF Distinct
  <1>6. IsFiniteSet({}) /\ Cardinality({}) = 0
    BY FS_EmptySet
  <1>7. Cardinality({}) <= MaxConcurrent
    BY <1>6, Bounds
  <1> QED BY <1>3, <1>5, <1>6, <1>7 DEF Sound

LEMMA FaultTyped ==
  ASSUME Inv, Fault
  PROVE  faults' \in 0 .. MaxFaults
  BY Bounds DEF Inv, Typed, Fault

LEMMA ThrowInv ==
  ASSUME Inv, NEW w \in work, Throw(w)
  PROVE  Inv'
  <1>1. Sound(gate') /\ OneEach'
    BY EndsOne DEF Throw
  <1>2. Typed'
    BY FaultTyped DEF Inv, Typed, Throw
  <1> QED BY <1>1, <1>2, SoundPrimed DEF Inv

LEMMA AgentInv ==
  ASSUME Inv, NEW h \in Hosts, Leave(h) \/ Return(h) \/ GiveUp(h)
  PROVE  Inv'
  <1>1. UNCHANGED <<gate, plan, work, config, dirty, running>>
    BY DEF Leave, Return, GiveUp
  <1>2. faults' \in 0 .. MaxFaults
    BY FaultTyped DEF Leave, Return, GiveUp, Inv, Typed
  <1>3. awaits' \subseteq Hosts /\ wake' \subseteq Hosts /\ online' \subseteq Hosts
    BY DEF Leave, Return, GiveUp, Inv, Typed
  <1>4. Typed'
    BY <1>1, <1>2, <1>3 DEF Inv, Typed
  <1>5. Sound(gate') /\ OneEach'
    BY <1>1 DEF Inv, OneEach
  <1> QED BY <1>4, <1>5, SoundPrimed DEF Inv

LEMMA RestartInv ==
  ASSUME Inv, Restart
  PROVE  Inv'
  <1>1. Sound(gate') /\ gate'.active = {}
    BY EmptySound DEF Restart
  <1>2. OneEach'
    BY <1>1 DEF OneEach, Restart
  <1>3. Typed'
    BY FaultTyped DEF Inv, Typed, Restart
  <1> QED BY <1>1, <1>2, <1>3, SoundPrimed DEF Inv

LEMMA InitInv == Init => Inv
  <1> SUFFICES ASSUME Init PROVE Inv
    OBVIOUS
  <1>1. Sound(gate) /\ gate.active = {}
    BY EmptySound DEF Init
  <1>2. OneEach
    BY <1>1 DEF OneEach, Init
  <1>3. faults \in 0 .. MaxFaults
    BY Bounds DEF Init
  <1>4. Typed
    BY <1>3, Bounds DEF Typed, Init
  <1> QED BY <1>1, <1>2, <1>4 DEF Inv

LEMMA NextInv == Inv /\ [Next]_vars => Inv'
  <1> SUFFICES ASSUME Inv, [Next]_vars PROVE Inv'
    OBVIOUS
  <1>1. ASSUME NEW h \in Hosts, \/ Ask(h) \/ Change(h) \/ Notify(h)
                                \/ Cool(h) \/ Stale(h) \/ Age(h)
                                \/ Leave(h) \/ Return(h) \/ GiveUp(h)
        PROVE  Inv'
    BY <1>1, AskInv, ChangeNotifyInv, TimeInv, AgentInv
  <1>2. ASSUME NEW w \in work, Match(w) \/ Finish(w) \/ Throw(w) PROVE Inv'
    BY <1>2, MatchInv, FinishInv, ThrowInv
  <1>3. CASE Restart
    BY <1>3, RestartInv
  <1>4. CASE UNCHANGED vars
    <2>1. Typed' /\ OneEach' /\ Sound(gate')
      BY <1>4 DEF vars, Inv, Typed, OneEach
    <2> QED BY <2>1, SoundPrimed DEF Inv
  <1> QED BY <1>1, <1>2, <1>3, <1>4 DEF Next

-----------------------------------------------------------------------------
(* The theorems. *)

\* The gate and the work of the panel stay in step, for any number of hosts
\* and slots, however Agents come, leave and give up and whenever the panel
\* starts again.
THEOREM GateInvariance == Spec => []Inv
  BY InitInv, NextInv, PTL DEF Spec

LEMMA WorkCounted ==
  ASSUME Inv
  PROVE  Cardinality(work) = Cardinality(gate.active)
  <1>1. PICK f : f = [w \in work |-> w.host]
    OBVIOUS
  <1>2. f \in Injection(work, gate.active)
    BY <1>1 DEF Inv, OneEach, Injection, IsInjective
  <1>3. f \in Surjection(work, gate.active)
    BY <1>1 DEF Inv, OneEach, Surjection
  <1>4. IsFiniteSet(gate.active)
    BY DEF Inv, Sound
  <1> QED BY <1>2, <1>3, <1>4, FS_Injection

LEMMA QueueCounted ==
  ASSUME Inv
  PROVE  Cardinality(ToSet(gate.waiting)) = Len(gate.waiting)
  <1>1. PICK q \in Seq(Hosts) : q = gate.waiting /\ Distinct(q)
    BY DEF Inv, Sound, Gates
  <1>2. Len(q) \in Nat /\ DOMAIN q = 1 .. Len(q) /\ q \in [1 .. Len(q) -> Hosts]
    BY LenProperties
  <1>3. PICK T : T = ToSet(q)
    OBVIOUS
  <1>4. T = {q[i] : i \in 1 .. Len(q)}
    BY <1>2, <1>3 DEF ToSet
  <1>5. q \in Surjection(1 .. Len(q), T)
    BY <1>2, <1>4 DEF Surjection
  <1>6. q \in Injection(1 .. Len(q), T)
    BY <1>1, <1>2, <1>4 DEF Injection, IsInjective, Distinct
  <1>7. IsFiniteSet(1 .. Len(q)) /\ Cardinality(1 .. Len(q)) = Len(q)
    <2>1. 1 \in Int /\ Len(q) \in Int
      BY <1>2
    <2>2. /\ IsFiniteSet(1 .. Len(q))
          /\ Cardinality(1 .. Len(q)) = IF 1 > Len(q) THEN 0 ELSE Len(q) - 1 + 1
      BY <2>1, FS_Interval
    <2> QED BY <1>2, <2>2
  <1>8. Cardinality(T) = Cardinality(1 .. Len(q))
    BY <1>5, <1>6, <1>7, FS_Surjection
  <1> QED BY <1>1, <1>3, <1>7, <1>8

\* tryAcquire and the closure it returns never leak a slot, never open a
\* second one for a host, and never keep two places for it in the queue.
THEOREM SlotsNeverLeak == Spec => []SlotsExact
  <1>1. Inv => SlotsExact
    <2> SUFFICES ASSUME Inv PROVE SlotsExact
      OBVIOUS
    <2>1. Typed /\ Sound(gate) /\ OneEach
      BY DEF Inv
    <2>2. TypeOK
      BY <2>1 DEF TypeOK, Typed, Sound, Gates
    <2>3. gate.active = {w.host : w \in work}
      BY <2>1 DEF OneEach
    <2>4. gate.active \cap ToSet(gate.waiting) = {} /\ gate.stale \subseteq ToSet(gate.waiting)
      BY <2>1 DEF Sound, Waits
    <2> QED BY <2>2, <2>3, <2>4, WorkCounted, QueueCounted DEF SlotsExact
  <1> QED BY <1>1, GateInvariance, PTL
=============================================================================
