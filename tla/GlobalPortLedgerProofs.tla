----------------------- MODULE GlobalPortLedgerProofs -----------------------
(***************************************************************************)
(* Proofs about GlobalPortLedger, for any number of ports, owners, keys    *)
(* and clients and any revision limit.                                     *)
(*                                                                         *)
(* The argument: whatever changes a row or its references raises the       *)
(* version of the row (StepGuard), so a transaction whose version still    *)
(* matches decided on what is still true (TxOK), so its commit keeps the   *)
(* row and its references consistent (RowOK, RefOK).                       *)
(***************************************************************************)
EXTENDS GlobalPortLedger, TLAPS

SrcOps == {"release", "cleanup", "confirm", "promote"}
DstOps == {"reserve", "reserved", "activate", "add", "alias", "promote", "adopt"}

\* Transaction t may still commit against its source row.
SrcCurrent(t) == t.op \in SrcOps /\ alloc[t.src].version = t.srcVersion
DstCurrent(t) == t.op \in DstOps /\ alloc[t.dst].version = t.dstVersion

\* What an open transaction knows of the rows it names.
TxShape(t) ==
    /\ t.op \in SrcOps => /\ t.src \in Ports
                          /\ t.drop \in Keys
                          /\ t.srcVersion <= alloc[t.src].version
    /\ t.op \in DstOps => /\ t.dst \in Ports
                          /\ t.owner \in Owners
                          /\ t.dstVersion <= alloc[t.dst].version
    /\ t.op = "activate" => t.put # {}
    /\ t.op = "alias" => \A k \in t.put : k.role # "OWNERSHIP"
    /\ t.op \in {"promote", "adopt"} => /\ t.staged \in Keys
                                        /\ t.staged \notin t.put
                                        /\ t.drop # t.staged
    /\ t.op = "adopt" => t.drop = NoKey

SrcHolds(t) ==
    SrcCurrent(t) =>
        /\ refs[t.drop].port = t.src
        /\ IF t.op = "confirm" THEN t.last ELSE alloc[t.src].status = "ACTIVE"
        /\ t.last => \A k \in Keys : refs[k].port = t.src => k = t.drop
        /\ ~t.last => \E k \in Keys : k # t.drop /\ IsOwnersRef(k, t.src)
        /\ t.op = "promote" => alloc[t.src].owner = t.owner

DstHolds(t) ==
    DstCurrent(t) =>
        /\ t.op \in {"reserved", "activate", "add", "promote", "adopt"}
              => alloc[t.dst].owner = t.owner
        /\ t.op = "alias"
              => \E k \in Keys : IsOwnersRef(k, t.dst)
        /\ t.op \in {"promote", "adopt"}
              => IsOwnersRef(t.staged, t.dst)
        /\ (t.op \in {"promote", "adopt"} /\ t.put = {})
              => \E k \in Keys : k \notin {t.drop, t.staged} /\ IsOwnersRef(k, t.dst)

TxOK == \A c \in Clients : TxShape(tx[c]) /\ SrcHolds(tx[c]) /\ DstHolds(tx[c])

\* A staged reference is never an alias.
StagedOwning == \A k \in Keys :
    (refs[k].port # NoPort /\ k.role = "OWNERSHIP") => refs[k].owning

LedgerInv == /\ TypeOK /\ RowDecodes /\ ReferencesCovered /\ OwnerHoldsRow
             /\ StagedOwning /\ TxOK

\* A step that leaves the version of a row leaves its facts.
RowKept(p) == /\ alloc'[p].status = alloc[p].status
              /\ alloc'[p].owner = alloc[p].owner
              /\ alloc'[p].token = alloc[p].token
              /\ \A k \in Keys : (refs[k].port = p \/ refs'[k].port = p) => refs'[k] = refs[k]

StepGuard == \A p \in Ports : /\ alloc'[p].version >= alloc[p].version
                              /\ alloc'[p].version = alloc[p].version => RowKept(p)
-----------------------------------------------------------------------------

\* The empty ledger satisfies the invariant.
LEMMA InitInv == Init => LedgerInv
  BY ConstantsAssumption
  DEF Init, LedgerInv, TypeOK, RowDecodes, ReferencesCovered, OwnerHoldsRow, StagedOwning, TxOK,
      TxShape, SrcHolds, DstHolds, SrcCurrent, DstCurrent, SrcOps, DstOps, NoRow, NoRef,
      Idle, Row, Ref, Tx, Ops, Statuses, Owned, Reclaimable

\* A transaction that a step leaves open stays right about its rows.
LEMMA TxKept ==
  ASSUME LedgerInv, StepGuard, TypeOK', NEW c \in Clients, tx'[c] = tx[c]
  PROVE  TxShape(tx[c])' /\ SrcHolds(tx[c])' /\ DstHolds(tx[c])'
  <1> SUFFICES ASSUME NEW t, t = tx[c]
               PROVE  TxShape(t)' /\ SrcHolds(t)' /\ DstHolds(t)'
    OBVIOUS
  <1>0. t \in Tx /\ TxShape(t) /\ SrcHolds(t) /\ DstHolds(t)
    BY DEF LedgerInv, TxOK, TypeOK
  <1>n. /\ t.srcVersion \in Nat /\ t.dstVersion \in Nat
        /\ \A p \in Ports : alloc[p].version \in Nat /\ alloc'[p].version \in Nat
    BY <1>0 DEF LedgerInv, TypeOK, Row, Tx
  <1>1. TxShape(t)'
    BY <1>0, <1>n DEF TxShape, StepGuard
  <1>2. SrcHolds(t)'
    <2> SUFFICES ASSUME SrcCurrent(t)' PROVE SrcHolds(t)'
      BY DEF SrcHolds
    <2>1. SrcCurrent(t) /\ RowKept(t.src) /\ t.src \in Ports /\ t.drop \in Keys
      BY <1>0, <1>n DEF SrcCurrent, TxShape, StepGuard
    <2> QED BY <1>0, <2>1 DEF SrcHolds, RowKept, IsOwnersRef
  <1>3. DstHolds(t)'
    <2> SUFFICES ASSUME DstCurrent(t)' PROVE DstHolds(t)'
      BY DEF DstHolds
    <2>1. DstCurrent(t) /\ RowKept(t.dst) /\ t.dst \in Ports
      BY <1>0, <1>n DEF DstCurrent, TxShape, StepGuard
    <2> QED BY <1>0, <2>1 DEF DstHolds, RowKept, IsOwnersRef, TxShape
  <1> QED BY <1>1, <1>2, <1>3
\* A step that keeps the tables consistent, raises versions and gives client c
\* a transaction n that is right about its rows preserves the invariant.
LEMMA TxStep ==
  ASSUME LedgerInv, StepGuard, RowDecodes', ReferencesCovered', OwnerHoldsRow', StagedOwning',
         alloc' \in [Ports -> Row], refs' \in [Keys -> Ref],
         NEW c \in Clients, NEW n \in Tx, tx' = [tx EXCEPT ![c] = n],
         TxShape(n)', SrcHolds(n)', DstHolds(n)'
  PROVE  LedgerInv'
  <1>1. TypeOK'
    BY DEF LedgerInv, TypeOK
  <1>2. \A d \in Clients : tx'[d] = IF d = c THEN n ELSE tx[d]
    BY DEF LedgerInv, TypeOK
  <1>3. ASSUME NEW d \in Clients
        PROVE  TxShape(tx[d])' /\ SrcHolds(tx[d])' /\ DstHolds(tx[d])'
    <2>1. CASE d = c
      BY <2>1, <1>2
    <2>2. CASE d # c
      BY <2>2, <1>1, <1>2, TxKept
    <2> QED BY <2>1, <2>2
  <1>4. TxOK'
    BY <1>3 DEF TxOK
  <1> QED BY <1>1, <1>4 DEF LedgerInv

\* Reading changes neither table.
LEMMA ReadKeepsTables ==
  ASSUME LedgerInv, UNCHANGED <<alloc, refs>>
  PROVE  /\ StepGuard /\ RowDecodes' /\ ReferencesCovered' /\ OwnerHoldsRow' /\ StagedOwning'
         /\ alloc' \in [Ports -> Row] /\ refs' \in [Keys -> Ref]
  BY DEF LedgerInv, TypeOK, StepGuard, RowKept, RowDecodes, ReferencesCovered,
         OwnerHoldsRow, StagedOwning, IsOwnersRef, RefsOf, Row

\* A transaction that has read and decided, but not written, is right.
LEMMA ReadStep ==
  ASSUME LedgerInv, UNCHANGED <<alloc, refs>>, NEW c \in Clients, NEW n \in Tx,
         tx' = [tx EXCEPT ![c] = n], TxShape(n), SrcHolds(n), DstHolds(n)
  PROVE  LedgerInv' /\ StepGuard
  <1>1. TxShape(n)' /\ SrcHolds(n)' /\ DstHolds(n)'
    BY DEF TxShape, SrcHolds, DstHolds, SrcCurrent, DstCurrent, IsOwnersRef
  <1> QED BY <1>1, ReadKeepsTables, TxStep

\* A rolled back or finished transaction claims nothing.
LEMMA IdleOK == /\ Idle \in Tx
                /\ TxShape(Idle) /\ SrcHolds(Idle) /\ DstHolds(Idle)
                /\ TxShape(Idle)' /\ SrcHolds(Idle)' /\ DstHolds(Idle)'
  BY ConstantsAssumption
  DEF Idle, Tx, Ops, TxShape, SrcHolds, DstHolds, SrcCurrent, DstCurrent, SrcOps, DstOps

-----------------------------------------------------------------------------
(* One lemma per operation.                                                *)

\* A rolled back transaction leaves both tables as they were.
LEMMA RollbackStep ==
  ASSUME LedgerInv, NEW c \in Clients, Rollback(c)
  PROVE  LedgerInv' /\ StepGuard
  BY ReadStep, IdleOK DEF Rollback

\* reserveGlobalPortAllocation reads the row it will claim.
LEMMA BeginReserveStep ==
  ASSUME LedgerInv, NEW c \in Clients, NEW p \in Ports, NEW o \in Owners, BeginReserve(c, p, o)
  PROVE  LedgerInv' /\ StepGuard
  <1> SUFFICES ASSUME NEW n, n = [Idle EXCEPT !.op = "reserve", !.owner = o, !.dst = p,
                                              !.dstVersion = alloc[p].version],
                      tx' = [tx EXCEPT ![c] = n], UNCHANGED <<alloc, refs>>
               PROVE  LedgerInv' /\ StepGuard
    BY DEF BeginReserve
  <1>1. alloc[p].version \in Nat
    BY DEF LedgerInv, TypeOK, Row
  <1>2. n \in Tx
    BY <1>1, ConstantsAssumption DEF Idle, Tx, Ops
  <1>3. TxShape(n) /\ SrcHolds(n) /\ DstHolds(n)
    BY <1>1 DEF Idle, TxShape, SrcHolds, DstHolds, SrcCurrent, DstCurrent, SrcOps, DstOps
  <1> QED BY <1>2, <1>3, ReadStep

\* addActiveGlobalPortOwningReference reads a row of the same owner.
LEMMA BeginAddStep ==
  ASSUME LedgerInv, NEW c \in Clients, NEW p \in Ports, NEW o \in Owners, NEW k \in Keys,
         BeginAdd(c, p, o, k)
  PROVE  LedgerInv' /\ StepGuard
  <1> SUFFICES ASSUME NEW n, n = [Idle EXCEPT !.op = "add", !.owner = o, !.dst = p,
                                              !.dstVersion = alloc[p].version, !.put = {k}],
                      tx' = [tx EXCEPT ![c] = n], UNCHANGED <<alloc, refs>>, alloc[p].owner = o
               PROVE  LedgerInv' /\ StepGuard
    BY DEF BeginAdd
  <1>1. alloc[p].version \in Nat
    BY DEF LedgerInv, TypeOK, Row
  <1>2. n \in Tx
    BY <1>1, ConstantsAssumption DEF Idle, Tx, Ops
  <1>3. TxShape(n) /\ SrcHolds(n) /\ DstHolds(n)
    BY <1>1 DEF Idle, TxShape, SrcHolds, DstHolds, SrcCurrent, DstCurrent, SrcOps, DstOps
  <1> QED BY <1>2, <1>3, ReadStep

\* acquireGlobalPortOwningReference only starts one of the two above.
LEMMA AcquireStep ==
  ASSUME LedgerInv, NEW c \in Clients, NEW p \in Ports, NEW k \in Keys, Acquire(c, p, k)
  PROVE  LedgerInv' /\ StepGuard
  BY BeginAddStep, BeginReserveStep, ConstantsAssumption DEF Acquire

\* attachGlobalPortTargetAlias reads the row of an Xray inbound.
LEMMA BeginAliasStep ==
  ASSUME LedgerInv, NEW c \in Clients, NEW p \in Ports, NEW k \in Keys, BeginAlias(c, p, k)
  PROVE  LedgerInv' /\ StepGuard
  <1> SUFFICES ASSUME NEW n, n = [Idle EXCEPT !.op = "alias", !.owner = k.res, !.dst = p,
                                              !.dstVersion = alloc[p].version, !.put = {k}],
                      tx' = [tx EXCEPT ![c] = n], UNCHANGED <<alloc, refs>>,
                      \E x \in Keys : IsOwnersRef(x, p), k.role # "OWNERSHIP"
               PROVE  LedgerInv' /\ StepGuard
    BY DEF BeginAlias
  <1>1. alloc[p].version \in Nat
    BY DEF LedgerInv, TypeOK, Row
  <1>2. n \in Tx
    BY <1>1, ConstantsAssumption DEF Idle, Tx, Ops
  <1>3. TxShape(n) /\ SrcHolds(n) /\ DstHolds(n)
    BY <1>1, ConstantsAssumption
    DEF Idle, TxShape, SrcHolds, DstHolds, SrcCurrent, DstCurrent, SrcOps, DstOps
  <1> QED BY <1>2, <1>3, ReadStep

\* activateReservedGlobalPortAllocation reads the client's own reservation.
LEMMA BeginActivateStep ==
  ASSUME LedgerInv, NEW c \in Clients, NEW K \in SUBSET Keys, BeginActivate(c, K)
  PROVE  LedgerInv' /\ StepGuard
  <1> SUFFICES ASSUME NEW t, t = tx[c], NEW n,
                      n = [t EXCEPT !.op = "activate", !.put = {k \in K : refs[k] = NoRef}],
                      tx' = [tx EXCEPT ![c] = n], UNCHANGED <<alloc, refs>>
               PROVE  LedgerInv' /\ StepGuard
    BY DEF BeginActivate
  <1>0. t \in Tx /\ TxShape(t) /\ SrcHolds(t) /\ DstHolds(t)
    BY DEF LedgerInv, TypeOK, TxOK
  <1>1. /\ t.op = "reserved" /\ t.dst \in Ports
        /\ alloc[t.dst].owner = t.owner /\ alloc[t.dst].status = "RESERVED"
    BY <1>0 DEF BeginActivate, TxShape, DstOps
  <1>2. \A k \in Keys : refs[k].port # t.dst
    BY <1>1, ConstantsAssumption DEF LedgerInv, ReferencesCovered
  <1>3. n.put # {}
    BY <1>0, <1>2 DEF BeginActivate, Insertable, OwningRef, Tx
  <1>4. n \in Tx
    BY <1>0 DEF Tx, Ops
  <1>5. TxShape(n) /\ SrcHolds(n) /\ DstHolds(n)
    BY <1>0, <1>1, <1>3
    DEF Tx, TxShape, SrcHolds, DstHolds, SrcCurrent, DstCurrent, SrcOps, DstOps
  <1> QED BY <1>4, <1>5, ReadStep

\* A release reads the references that would remain.
LEMMA BeginReleaseStep ==
  ASSUME LedgerInv, NEW c \in Clients, NEW k \in Keys, NEW op \in {"release", "cleanup"},
         BeginRelease(c, op, k)
  PROVE  LedgerInv' /\ StepGuard
  <1> SUFFICES ASSUME NEW p, p = refs[k].port, NEW n,
                      n = [Idle EXCEPT !.op = op, !.drop = k, !.src = p,
                                       !.srcVersion = alloc[p].version,
                                       !.last = (RefsOf(p) = {k})],
                      tx' = [tx EXCEPT ![c] = n], UNCHANGED <<alloc, refs>>, MayRelease(k)
               PROVE  LedgerInv' /\ StepGuard
    BY DEF BeginRelease
  <1>1. p \in Ports /\ alloc[p].version \in Nat /\ alloc[p].status = "ACTIVE"
    BY DEF LedgerInv, TypeOK, Row, Ref, MayRelease
  <1>2. n \in Tx
    BY <1>1, ConstantsAssumption DEF Idle, Tx, Ops
  <1>3. /\ n.last => \A x \in Keys : refs[x].port = p => x = k
        /\ ~n.last => \E x \in Keys : x # k /\ IsOwnersRef(x, p)
    BY DEF Idle, MayRelease, RefsOf
  <1>4. TxShape(n) /\ SrcHolds(n) /\ DstHolds(n)
    BY <1>1, <1>3
    DEF Idle, TxShape, SrcHolds, DstHolds, SrcCurrent, DstCurrent, SrcOps, DstOps
  <1> QED BY <1>2, <1>4, ReadStep

\* confirmGlobalPortReferenceReleased reads a RELEASING row.
LEMMA BeginConfirmStep ==
  ASSUME LedgerInv, NEW c \in Clients, NEW k \in Keys, BeginConfirm(c, k)
  PROVE  LedgerInv' /\ StepGuard
  <1> SUFFICES ASSUME NEW p, p = refs[k].port, p # NoPort, NEW n,
                      n = [Idle EXCEPT !.op = "confirm", !.drop = k, !.src = p,
                                       !.srcVersion = alloc[p].version, !.last = TRUE],
                      tx' = [tx EXCEPT ![c] = n], UNCHANGED <<alloc, refs>>,
                      RefsOf(p) = {k}
               PROVE  LedgerInv' /\ StepGuard
    BY DEF BeginConfirm
  <1>1. p \in Ports /\ alloc[p].version \in Nat
    BY DEF LedgerInv, TypeOK, Row, Ref
  <1>2. n \in Tx
    BY <1>1, ConstantsAssumption DEF Idle, Tx, Ops
  <1>3. \A x \in Keys : refs[x].port = p => x = k
    BY DEF RefsOf
  <1>4. TxShape(n) /\ SrcHolds(n) /\ DstHolds(n)
    BY <1>1, <1>3
    DEF Idle, TxShape, SrcHolds, DstHolds, SrcCurrent, DstCurrent, SrcOps, DstOps
  <1> QED BY <1>2, <1>4, ReadStep

\* promoteStagedGlobalPortOwningReference reads both rows of the move.
LEMMA BeginPromoteStep ==
  ASSUME LedgerInv, NEW c \in Clients, NEW pub \in Keys, NEW nxt \in Keys, NEW stg \in Keys,
         BeginPromote(c, pub, nxt, stg)
  PROVE  LedgerInv' /\ StepGuard
  <1> SUFFICES ASSUME NEW p, p = refs[pub].port, NEW q, q = refs[stg].port, NEW n,
                      n = [op |-> "promote", owner |-> stg.res,
                           src |-> p, srcVersion |-> alloc[p].version,
                           drop |-> pub, last |-> (RefsOf(p) = {pub}),
                           dst |-> q, dstVersion |-> alloc[q].version,
                           put |-> IF nxt # pub /\ refs[nxt] # NoRef THEN {} ELSE {nxt},
                           staged |-> stg],
                      tx' = [tx EXCEPT ![c] = n], UNCHANGED <<alloc, refs>>
               PROVE  LedgerInv' /\ StepGuard
    BY DEF BeginPromote
  <1>1. /\ p \in Ports /\ alloc[p].version \in Nat /\ alloc[p].owner = stg.res
        /\ q \in Ports /\ alloc[q].version \in Nat /\ alloc[q].owner = stg.res
        /\ MayRelease(pub) /\ Promotable(nxt, stg)
    BY DEF LedgerInv, TypeOK, Row, Ref, BeginPromote, MayRelease, Promotable
  <1>2. n \in Tx
    BY <1>1, ConstantsAssumption DEF Tx, Ops
  <1>3. pub # stg /\ nxt # stg
    BY DEF BeginPromote, Promotable, PublicRoles
  <1>4. /\ n.last => \A x \in Keys : refs[x].port = p => x = pub
        /\ ~n.last => \E x \in Keys : x # pub /\ IsOwnersRef(x, p)
    BY <1>1 DEF MayRelease, RefsOf
  <1>5. IsOwnersRef(stg, q)
    BY <1>1 DEF IsOwnersRef, Promotable, BeginPromote, LedgerInv, StagedOwning
  <1>6. n.put = {} => nxt \notin {pub, stg} /\ IsOwnersRef(nxt, q)
    BY <1>1, <1>3 DEF BeginPromote, Insertable, OwningRef, IsOwnersRef
  <1>7. TxShape(n)
    BY <1>1, <1>3, ConstantsAssumption DEF TxShape, SrcOps, DstOps
  <1>8. SrcHolds(n)
    BY <1>1, <1>4 DEF SrcHolds, SrcCurrent, MayRelease
  <1>9. DstHolds(n)
    BY <1>1, <1>5, <1>6 DEF DstHolds, DstCurrent
  <1> QED BY <1>2, <1>7, <1>8, <1>9, ReadStep

\* promoteOrphanedStagedGlobalPortOwningReference reads the staged row.
LEMMA BeginAdoptStep ==
  ASSUME LedgerInv, NEW c \in Clients, NEW nxt \in Keys, NEW stg \in Keys,
         BeginAdopt(c, nxt, stg)
  PROVE  LedgerInv' /\ StepGuard
  <1> SUFFICES ASSUME NEW q, q = refs[stg].port, NEW n,
                      n = [Idle EXCEPT !.op = "adopt", !.owner = stg.res, !.dst = q,
                                       !.dstVersion = alloc[q].version,
                                       !.put = {nxt}, !.staged = stg],
                      tx' = [tx EXCEPT ![c] = n], UNCHANGED <<alloc, refs>>,
                      Promotable(nxt, stg)
               PROVE  LedgerInv' /\ StepGuard
    BY DEF BeginAdopt
  <1>1. q \in Ports /\ alloc[q].version \in Nat /\ alloc[q].owner = stg.res
    BY DEF LedgerInv, TypeOK, Row, Ref, Promotable
  <1>2. n \in Tx
    BY <1>1, ConstantsAssumption DEF Idle, Tx, Ops
  <1>3. nxt # stg /\ IsOwnersRef(stg, q)
    BY <1>1 DEF Promotable, PublicRoles, IsOwnersRef, LedgerInv, StagedOwning
  <1>4. TxShape(n) /\ SrcHolds(n) /\ DstHolds(n)
    BY <1>1, <1>3, ConstantsAssumption
    DEF Idle, TxShape, SrcHolds, DstHolds, SrcCurrent, DstCurrent, SrcOps, DstOps
  <1> QED BY <1>2, <1>4, ReadStep

\* The reservation is written: the row was unowned, so it has no references.
LEMMA CommitReserveStep ==
  ASSUME LedgerInv, NEW c \in Clients, CommitReserve(c)
  PROVE  LedgerInv' /\ StepGuard
  <1> SUFFICES ASSUME NEW t, t = tx[c], NEW n,
                      n = [t EXCEPT !.op = "reserved", !.dstVersion = @ + 1],
                      tx' = [tx EXCEPT ![c] = n], UNCHANGED refs
               PROVE  LedgerInv' /\ StepGuard
    BY DEF CommitReserve
  <1>0. t \in Tx /\ TxShape(t)
    BY DEF LedgerInv, TypeOK, TxOK
  <1>1. /\ t.op = "reserve" /\ t.dst \in Ports /\ t.owner \in Owners /\ t.dstVersion \in Nat
        /\ alloc[t.dst].status \in {"NONE", "FREE"} /\ alloc[t.dst].version = t.dstVersion
    BY <1>0 DEF CommitReserve, TxShape, DstOps, Tx
  <1> DEFINE row == [status |-> "RESERVED", owner |-> t.owner, token |-> c,
                     live |-> TRUE, version |-> t.dstVersion + 1]
  <1>2. alloc' = [alloc EXCEPT ![t.dst] = row] /\ row \in Row
    BY <1>1 DEF CommitReserve, Row, Statuses, Owned
  <1>3. alloc \in [Ports -> Row] /\ refs \in [Keys -> Ref]
    BY DEF LedgerInv, TypeOK
  <1>4. alloc' \in [Ports -> Row] /\ refs' \in [Keys -> Ref]
    BY <1>2, <1>3
  <1>5. \A k \in Keys : refs[k].port # t.dst
    BY <1>1, ConstantsAssumption DEF LedgerInv, ReferencesCovered
  <1>6. StepGuard
    BY <1>1, <1>2, <1>3, <1>5 DEF StepGuard, RowKept, Row
  <1>7. RowDecodes'
    BY <1>1, <1>2, <1>3, ConstantsAssumption DEF LedgerInv, RowDecodes, Owned
  <1>8. ReferencesCovered' /\ StagedOwning'
    BY <1>1, <1>2, <1>3, <1>5 DEF LedgerInv, ReferencesCovered, StagedOwning, Ref
  <1>9. OwnerHoldsRow'
    BY <1>1, <1>2, <1>3, <1>5 DEF LedgerInv, OwnerHoldsRow, IsOwnersRef, RefsOf
  <1>10. n \in Tx
    <2>1. t.dstVersion + 1 \in Nat
      BY <1>1
    <2>2. \A v \in Nat : [t EXCEPT !.op = "reserved", !.dstVersion = v] \in Tx
      BY <1>0 DEF Tx, Ops
    <2>3. n = [t EXCEPT !.op = "reserved", !.dstVersion = t.dstVersion + 1]
      BY <1>0 DEF Tx
    <2> QED BY <2>1, <2>2, <2>3
  <1>11. TxShape(n)' /\ SrcHolds(n)' /\ DstHolds(n)'
    BY <1>0, <1>1, <1>2, <1>3
    DEF Tx, TxShape, SrcHolds, DstHolds, SrcCurrent, DstCurrent, SrcOps, DstOps
  <1> QED BY <1>4, <1>6, <1>7, <1>8, <1>9, <1>10, <1>11, TxStep

\* The reserved row becomes ACTIVE together with its first references.
LEMMA CommitActivateStep ==
  ASSUME LedgerInv, NEW c \in Clients, CommitActivate(c)
  PROVE  LedgerInv' /\ StepGuard
  <1> SUFFICES ASSUME NEW t, t = tx[c], tx' = [tx EXCEPT ![c] = Idle]
               PROVE  LedgerInv' /\ StepGuard
    BY DEF CommitActivate
  <1>0. t \in Tx /\ TxShape(t) /\ DstHolds(t)
    BY DEF LedgerInv, TypeOK, TxOK
  <1>1. /\ t.op = "activate" /\ t.dst \in Ports /\ t.owner \in Owners
        /\ t.put # {} /\ t.put \in SUBSET Keys
        /\ alloc[t.dst].status = "RESERVED" /\ alloc[t.dst].version = t.dstVersion
        /\ \A k \in t.put : refs[k] = NoRef
    BY <1>0 DEF CommitActivate, TxShape, DstOps, Tx
  <1>2. alloc[t.dst].owner = t.owner
    BY <1>0, <1>1 DEF DstHolds, DstCurrent, DstOps
  <1>3. alloc \in [Ports -> Row] /\ refs \in [Keys -> Ref]
    BY DEF LedgerInv, TypeOK
  <1>4. /\ alloc' \in [Ports -> Row]
        /\ \A p \in Ports \ {t.dst} : alloc'[p] = alloc[p]
        /\ alloc'[t.dst].status = "ACTIVE" /\ alloc'[t.dst].owner = t.owner
        /\ alloc'[t.dst].token = NoClient
        /\ alloc'[t.dst].version = alloc[t.dst].version + 1
    <2>1. alloc' = [alloc EXCEPT ![t.dst] =
                      [status |-> "ACTIVE", owner |-> alloc[t.dst].owner, token |-> NoClient,
                       live |-> FALSE, version |-> t.dstVersion + 1]]
      BY DEF CommitActivate
    <2>2. t.dstVersion + 1 \in Nat
      BY <1>0 DEF Tx
    <2> QED BY <1>1, <1>2, <1>3, <2>1, <2>2 DEF Row, Statuses, Owned
  <1>5. /\ refs' \in [Keys -> Ref]
        /\ \A k \in Keys : refs'[k] = IF k \in t.put THEN OwningRef(t.dst, t.owner) ELSE refs[k]
    BY <1>1, <1>3 DEF CommitActivate, OwningRef, Ref
  <1>6. \A k \in Keys : refs[k].port # t.dst
    BY <1>1, ConstantsAssumption DEF LedgerInv, ReferencesCovered
  <1>7. StepGuard
    BY <1>1, <1>3, <1>4, <1>5, <1>6, ConstantsAssumption
    DEF StepGuard, RowKept, Row, OwningRef, NoRef
  <1>8. RowDecodes'
    BY <1>1, <1>4, ConstantsAssumption DEF LedgerInv, RowDecodes, Owned
  <1>9. ReferencesCovered' /\ StagedOwning'
    BY <1>1, <1>3, <1>4, <1>5, <1>6 DEF LedgerInv, ReferencesCovered, StagedOwning, OwningRef, Ref
  <1>10. OwnerHoldsRow'
    <2>1. \E k \in Keys : IsOwnersRef(k, t.dst)'
      BY <1>1, <1>4, <1>5 DEF IsOwnersRef, OwningRef
    <2>2. \A p \in Ports \ {t.dst}, k \in Keys :
              /\ IsOwnersRef(k, p)' <=> IsOwnersRef(k, p)
              /\ refs'[k].port = p <=> refs[k].port = p
      BY <1>1, <1>4, <1>5, ConstantsAssumption DEF IsOwnersRef, OwningRef, NoRef
    <2>3. \A p \in Ports \ {t.dst} : RefsOf(p)' = RefsOf(p)
      BY <2>2 DEF RefsOf
    <2> QED BY <1>4, <2>1, <2>2, <2>3 DEF LedgerInv, OwnerHoldsRow
  <1> QED BY <1>4, <1>5, <1>7, <1>8, <1>9, <1>10, IdleOK, TxStep

\* A reference is added to a row that is still ACTIVE at the version read.
LEMMA CommitAddStep ==
  ASSUME LedgerInv, NEW c \in Clients, CommitAdd(c)
  PROVE  LedgerInv' /\ StepGuard
  <1> SUFFICES ASSUME NEW t, t = tx[c], tx' = [tx EXCEPT ![c] = Idle]
               PROVE  LedgerInv' /\ StepGuard
    BY DEF CommitAdd
  <1>0. t \in Tx /\ TxShape(t) /\ DstHolds(t)
    BY DEF LedgerInv, TypeOK, TxOK
  <1>1. /\ t.op \in {"add", "alias"} /\ t.dst \in Ports /\ t.owner \in Owners
        /\ t.put \in SUBSET Keys
        /\ alloc[t.dst].status = "ACTIVE" /\ alloc[t.dst].version = t.dstVersion
        /\ \A k \in t.put : refs[k] = NoRef
        /\ t.op = "alias" => \A k \in t.put : k.role # "OWNERSHIP"
    BY <1>0 DEF CommitAdd, TxShape, DstOps, Tx
  <1>2. t.op = "add" => alloc[t.dst].owner = t.owner
    BY <1>0, <1>1 DEF DstHolds, DstCurrent, DstOps
  <1>3. alloc \in [Ports -> Row] /\ refs \in [Keys -> Ref]
    BY DEF LedgerInv, TypeOK
  <1>4. /\ alloc' \in [Ports -> Row]
        /\ \A p \in Ports \ {t.dst} : alloc'[p] = alloc[p]
        /\ alloc'[t.dst].status = "ACTIVE" /\ alloc'[t.dst].owner = alloc[t.dst].owner
        /\ alloc'[t.dst].token = alloc[t.dst].token
        /\ alloc'[t.dst].version = alloc[t.dst].version + 1
    <2>1. alloc' = [alloc EXCEPT ![t.dst] = Bumped(t.dst, 1)]
      BY DEF CommitAdd
    <2>2. alloc[t.dst] \in Row
      BY <1>1, <1>3
    <2> QED BY <1>1, <1>3, <2>1, <2>2 DEF Bumped, Row
  <1>5. \A k \in Keys : refs'[k] = IF k \in t.put
                                   THEN [port |-> t.dst, owner |-> t.owner, owning |-> (t.op = "add")]
                                   ELSE refs[k]
    BY <1>1 DEF CommitAdd, OwningRef
  <1>6. refs' \in [Keys -> Ref]
    <2>1. refs' = [k \in Keys |-> refs'[k]]
      BY DEF CommitAdd
    <2>2. [port |-> t.dst, owner |-> t.owner, owning |-> (t.op = "add")] \in Ref
      BY <1>1 DEF Ref
    <2> QED BY <1>3, <1>5, <2>1, <2>2
  <1>7. StepGuard
    BY <1>1, <1>3, <1>4, <1>5, ConstantsAssumption DEF StepGuard, RowKept, Row, NoRef
  <1>8. RowDecodes'
    BY <1>1, <1>4 DEF LedgerInv, RowDecodes, Owned
  <1>9. ReferencesCovered' /\ StagedOwning'
    <2> SUFFICES ASSUME NEW k \in Keys, refs'[k].port # NoPort
                 PROVE  /\ alloc'[refs'[k].port].status \in {"ACTIVE", "RELEASING"}
                        /\ refs'[k].owning => refs'[k].owner = alloc'[refs'[k].port].owner
                        /\ k.role = "OWNERSHIP" => refs'[k].owning
      BY DEF ReferencesCovered, StagedOwning
    <2>1. CASE k \in t.put
      <3>1. refs'[k] = [port |-> t.dst, owner |-> t.owner, owning |-> (t.op = "add")]
        BY <1>5, <2>1
      <3>2. t.op = "add" => refs'[k] = [port |-> t.dst, owner |-> t.owner, owning |-> TRUE]
        BY <3>1
      <3>3. t.op = "alias" => refs'[k] = [port |-> t.dst, owner |-> t.owner, owning |-> FALSE]
        BY <3>1
      <3> QED BY <1>1, <1>2, <1>4, <2>1, <3>2, <3>3
    <2>2. CASE k \notin t.put
      BY <1>1, <1>3, <1>4, <1>5, <2>2 DEF LedgerInv, ReferencesCovered, StagedOwning, Ref
    <2> QED BY <2>1, <2>2
  <1>10. OwnerHoldsRow'
    <2>1. PICK x \in Keys : IsOwnersRef(x, t.dst)
      BY <1>1 DEF LedgerInv, OwnerHoldsRow
    <2>2. IsOwnersRef(x, t.dst)'
      BY <1>1, <1>4, <1>5, <2>1, ConstantsAssumption DEF IsOwnersRef, NoRef
    <2>3. \A p \in Ports \ {t.dst}, k \in Keys :
              /\ IsOwnersRef(k, p)' <=> IsOwnersRef(k, p)
              /\ refs'[k].port = p <=> refs[k].port = p
      BY <1>1, <1>4, <1>5, ConstantsAssumption DEF IsOwnersRef, NoRef
    <2>4. \A p \in Ports \ {t.dst} : RefsOf(p)' = RefsOf(p)
      BY <2>3 DEF RefsOf
    <2> QED BY <1>4, <2>2, <2>3, <2>4 DEF LedgerInv, OwnerHoldsRow
  <1> QED BY <1>4, <1>6, <1>7, <1>8, <1>9, <1>10, IdleOK, TxStep

\* What a release, a confirmation or the first half of a promotion knows.
LEMMA ReleaseFacts ==
  ASSUME LedgerInv, NEW c \in Clients, NEW t, t = tx[c], SrcCurrent(t)
  PROVE  /\ t \in Tx /\ t.src \in Ports /\ t.drop \in Keys
         /\ alloc[t.src] \in Row /\ alloc[t.src].version \in Nat
         /\ refs[t.drop].port = t.src
         /\ t.last => \A k \in Keys : refs[k].port = t.src => k = t.drop
         /\ ~t.last => \E k \in Keys : k # t.drop /\ IsOwnersRef(k, t.src)
  BY DEF LedgerInv, TypeOK, Row, TxOK, TxShape, SrcHolds, SrcCurrent

\* The last reference of a row goes and the row is retired.
LEMMA RetireTables ==
  ASSUME LedgerInv, NEW p \in Ports, NEW d \in Keys, NEW by \in {1, 2},
         alloc' = [alloc EXCEPT ![p] = Retired(p, by)],
         refs' = [refs EXCEPT ![d] = NoRef],
         refs[d].port = p, \A k \in Keys : refs[k].port = p => k = d
  PROVE  /\ StepGuard /\ RowDecodes' /\ ReferencesCovered' /\ OwnerHoldsRow' /\ StagedOwning'
         /\ alloc' \in [Ports -> Row] /\ refs' \in [Keys -> Ref]
  <1>1. alloc \in [Ports -> Row] /\ refs \in [Keys -> Ref] /\ alloc[p].version \in Nat
    BY DEF LedgerInv, TypeOK, Row
  <1>2. Retired(p, by) \in Row
    BY <1>1 DEF Retired, Row, Statuses, Reclaimable
  <1>3. /\ alloc' \in [Ports -> Row]
        /\ \A x \in Ports \ {p} : alloc'[x] = alloc[x]
        /\ alloc'[p].status = "PENDING_SCAN" /\ alloc'[p].owner = NoOwner
        /\ alloc'[p].token = NoClient
        /\ alloc'[p].version > alloc[p].version
    BY <1>1, <1>2 DEF Retired
  <1>4. /\ refs' \in [Keys -> Ref]
        /\ \A k \in Keys : refs'[k] = IF k = d THEN NoRef ELSE refs[k]
        /\ \A k \in Keys : refs'[k].port # p
    BY <1>1, ConstantsAssumption DEF NoRef, Ref
  <1>5. StepGuard
    BY <1>1, <1>3, <1>4, ConstantsAssumption DEF StepGuard, RowKept, Row, NoRef
  <1>6. RowDecodes'
    BY <1>3 DEF LedgerInv, RowDecodes, Owned
  <1>7. ReferencesCovered' /\ StagedOwning'
    BY <1>1, <1>3, <1>4 DEF LedgerInv, ReferencesCovered, StagedOwning, NoRef, Ref
  <1>8. OwnerHoldsRow'
    <2>1. \A x \in Ports \ {p}, k \in Keys :
              /\ IsOwnersRef(k, x)' <=> IsOwnersRef(k, x)
              /\ refs'[k].port = x <=> refs[k].port = x
      BY <1>1, <1>3, <1>4, ConstantsAssumption DEF IsOwnersRef, NoRef
    <2>2. \A x \in Ports \ {p} : RefsOf(x)' = RefsOf(x)
      BY <2>1 DEF RefsOf
    <2> QED BY <1>3, <2>1, <2>2 DEF LedgerInv, OwnerHoldsRow
  <1> QED BY <1>3, <1>4, <1>5, <1>6, <1>7, <1>8

\* One reference of several goes and another of the primary owner stays.
LEMMA DropTables ==
  ASSUME LedgerInv, NEW p \in Ports, NEW d \in Keys, alloc[p].status = "ACTIVE",
         alloc' = [alloc EXCEPT ![p] = Bumped(p, 1)],
         refs' = [refs EXCEPT ![d] = NoRef],
         refs[d].port = p, \E k \in Keys : k # d /\ IsOwnersRef(k, p)
  PROVE  /\ StepGuard /\ RowDecodes' /\ ReferencesCovered' /\ OwnerHoldsRow' /\ StagedOwning'
         /\ alloc' \in [Ports -> Row] /\ refs' \in [Keys -> Ref]
  <1>1. alloc \in [Ports -> Row] /\ refs \in [Keys -> Ref] /\ alloc[p] \in Row
    BY DEF LedgerInv, TypeOK
  <1>2. Bumped(p, 1) \in Row /\ Bumped(p, 1) = [alloc[p] EXCEPT !.version = alloc[p].version + 1]
    BY <1>1 DEF Bumped, Row
  <1>3. /\ alloc' \in [Ports -> Row]
        /\ \A x \in Ports \ {p} : alloc'[x] = alloc[x]
        /\ alloc'[p].status = "ACTIVE" /\ alloc'[p].owner = alloc[p].owner
        /\ alloc'[p].token = alloc[p].token
        /\ alloc'[p].version > alloc[p].version
    BY <1>1, <1>2 DEF Row
  <1>4. /\ refs' \in [Keys -> Ref]
        /\ \A k \in Keys : refs'[k] = IF k = d THEN NoRef ELSE refs[k]
    BY <1>1, ConstantsAssumption DEF NoRef, Ref
  <1>5. StepGuard
    BY <1>1, <1>3, <1>4, ConstantsAssumption DEF StepGuard, RowKept, Row, NoRef
  <1>6. RowDecodes'
    BY <1>3 DEF LedgerInv, RowDecodes, Owned
  <1>7. ReferencesCovered' /\ StagedOwning'
    BY <1>1, <1>3, <1>4 DEF LedgerInv, ReferencesCovered, StagedOwning, NoRef, Ref
  <1>8. OwnerHoldsRow'
    <2>1. PICK w \in Keys : w # d /\ IsOwnersRef(w, p)
      OBVIOUS
    <2>2. IsOwnersRef(w, p)'
      BY <1>3, <1>4, <2>1 DEF IsOwnersRef
    <2>3. \A x \in Ports \ {p}, k \in Keys :
              /\ IsOwnersRef(k, x)' <=> IsOwnersRef(k, x)
              /\ refs'[k].port = x <=> refs[k].port = x
      BY <1>1, <1>3, <1>4, ConstantsAssumption DEF IsOwnersRef, NoRef
    <2>4. \A x \in Ports \ {p} : RefsOf(x)' = RefsOf(x)
      BY <2>3 DEF RefsOf
    <2> QED BY <1>3, <2>2, <2>3, <2>4 DEF LedgerInv, OwnerHoldsRow
  <1> QED BY <1>3, <1>4, <1>5, <1>6, <1>7, <1>8

\* The last reference of a RELEASING row goes and the row is retired.
LEMMA CommitConfirmStep ==
  ASSUME LedgerInv, NEW c \in Clients, CommitConfirm(c)
  PROVE  LedgerInv' /\ StepGuard
  <1> SUFFICES ASSUME NEW t, t = tx[c], tx' = [tx EXCEPT ![c] = Idle], SrcCurrent(t)
               PROVE  LedgerInv' /\ StepGuard
    BY DEF CommitConfirm, SrcCurrent, SrcOps
  <1>1. t.last
    BY DEF CommitConfirm, LedgerInv, TxOK, SrcHolds
  <1>2. /\ t.src \in Ports /\ t.drop \in Keys /\ refs[t.drop].port = t.src
        /\ \A k \in Keys : refs[k].port = t.src => k = t.drop
    BY <1>1, ReleaseFacts
  <1>3. alloc' = [alloc EXCEPT ![t.src] = Retired(t.src, 1)] /\ refs' = [refs EXCEPT ![t.drop] = NoRef]
    BY DEF CommitConfirm
  <1>4. /\ StepGuard /\ RowDecodes' /\ ReferencesCovered' /\ OwnerHoldsRow' /\ StagedOwning'
        /\ alloc' \in [Ports -> Row] /\ refs' \in [Keys -> Ref]
    BY <1>2, <1>3, RetireTables
  <1> QED BY <1>4, IdleOK, TxStep

\* A release drops one of several references, or begins to retire the row.
LEMMA CommitReleaseStep ==
  ASSUME LedgerInv, NEW c \in Clients, CommitRelease(c)
  PROVE  LedgerInv' /\ StepGuard
  <1> SUFFICES ASSUME NEW t, t = tx[c], tx' = [tx EXCEPT ![c] = Idle], SrcCurrent(t),
                      t.op \in {"release", "cleanup"}, alloc[t.src].status = "ACTIVE"
               PROVE  LedgerInv' /\ StepGuard
    BY DEF CommitRelease, SrcCurrent, SrcOps
  <1>0. /\ t \in Tx /\ t.src \in Ports /\ t.drop \in Keys
        /\ alloc[t.src] \in Row /\ alloc[t.src].version \in Nat
        /\ refs[t.drop].port = t.src
        /\ t.last => \A k \in Keys : refs[k].port = t.src => k = t.drop
        /\ ~t.last => \E k \in Keys : k # t.drop /\ IsOwnersRef(k, t.src)
    BY ReleaseFacts
  <1>1. CASE ~t.last
    <2>1. alloc' = [alloc EXCEPT ![t.src] = Bumped(t.src, 1)] /\ refs' = [refs EXCEPT ![t.drop] = NoRef]
      BY <1>1 DEF CommitRelease
    <2>2. /\ StepGuard /\ RowDecodes' /\ ReferencesCovered' /\ OwnerHoldsRow' /\ StagedOwning'
          /\ alloc' \in [Ports -> Row] /\ refs' \in [Keys -> Ref]
      BY <1>0, <1>1, <2>1, DropTables
    <2> QED BY <2>2, IdleOK, TxStep
  <1>2. CASE t.last /\ t.op = "cleanup"
    <2>1. alloc' = [alloc EXCEPT ![t.src] = Retired(t.src, 2)] /\ refs' = [refs EXCEPT ![t.drop] = NoRef]
      BY <1>2 DEF CommitRelease
    <2>2. t.src \in Ports /\ t.drop \in Keys /\ refs[t.drop].port = t.src
      BY <1>0
    <2>3. \A k \in Keys : refs[k].port = t.src => k = t.drop
      BY <1>0, <1>2
    <2>4. /\ StepGuard /\ RowDecodes' /\ ReferencesCovered' /\ OwnerHoldsRow' /\ StagedOwning'
          /\ alloc' \in [Ports -> Row] /\ refs' \in [Keys -> Ref]
      BY <2>1, <2>2, <2>3, RetireTables
    <2> QED BY <2>4, IdleOK, TxStep
  <1>3. CASE t.last /\ t.op = "release"
    <2> DEFINE row == [alloc[t.src] EXCEPT !.status = "RELEASING", !.version = alloc[t.src].version + 1]
    <2>1. alloc' = [alloc EXCEPT ![t.src] = row] /\ UNCHANGED refs
      BY <1>0, <1>3 DEF CommitRelease, Bumped, Row
    <2>2. row \in Row
      <3>1. \A v \in Nat : [alloc[t.src] EXCEPT !.status = "RELEASING", !.version = v] \in Row
        BY <1>0 DEF Row, Statuses, Owned
      <3>2. alloc[t.src].version + 1 \in Nat
        BY <1>0
      <3> QED BY <3>1, <3>2
    <2>3. alloc \in [Ports -> Row] /\ refs \in [Keys -> Ref]
      BY DEF LedgerInv, TypeOK
    <2>4. /\ alloc' \in [Ports -> Row] /\ refs' \in [Keys -> Ref]
          /\ \A x \in Ports \ {t.src} : alloc'[x] = alloc[x]
          /\ alloc'[t.src].status = "RELEASING" /\ alloc'[t.src].owner = alloc[t.src].owner
          /\ alloc'[t.src].token = alloc[t.src].token
          /\ alloc'[t.src].version > alloc[t.src].version
      BY <1>0, <2>1, <2>2, <2>3 DEF Row
    <2>5. StepGuard
      BY <1>0, <2>1, <2>3, <2>4 DEF StepGuard, RowKept, Row
    <2>6. RowDecodes'
      BY <1>0, <2>4 DEF LedgerInv, RowDecodes, Owned
    <2>7. ReferencesCovered' /\ StagedOwning'
      BY <2>1, <2>3, <2>4 DEF LedgerInv, ReferencesCovered, StagedOwning, Ref
    <2>8. OwnerHoldsRow'
      <3>1. RefsOf(t.src)' = {t.drop} /\ IsOwnersRef(t.drop, t.src)'
        BY <1>0, <1>3, <2>1, <2>4 DEF RefsOf, IsOwnersRef, LedgerInv, OwnerHoldsRow
      <3>2. \A x \in Ports \ {t.src}, k \in Keys : IsOwnersRef(k, x)' <=> IsOwnersRef(k, x)
        BY <2>1, <2>4 DEF IsOwnersRef
      <3>3. \A x \in Ports : RefsOf(x)' = RefsOf(x)
        BY <2>1 DEF RefsOf
      <3> QED BY <1>0, <2>4, <3>1, <3>2, <3>3 DEF LedgerInv, OwnerHoldsRow
    <2> QED BY <2>4, <2>5, <2>6, <2>7, <2>8, IdleOK, TxStep
  <1> QED BY <1>0, <1>1, <1>2, <1>3

\* A promotion moves the public reference and consumes the staged one; the
\* two rows may be the same one.
LEMMA CommitPromoteStep ==
  ASSUME LedgerInv, NEW c \in Clients, CommitPromote(c)
  PROVE  LedgerInv' /\ StepGuard
  <1> SUFFICES ASSUME NEW t, t = tx[c], tx' = [tx EXCEPT ![c] = Idle], DstCurrent(t),
                      t.op \in {"promote", "adopt"}, alloc[t.dst].status = "ACTIVE",
                      t.op = "promote" => SrcCurrent(t) /\ alloc[t.src].status = "ACTIVE"
               PROVE  LedgerInv' /\ StepGuard
    BY DEF CommitPromote, SrcCurrent, DstCurrent, SrcOps, DstOps
  <1>0. /\ t \in Tx /\ TxShape(t) /\ DstHolds(t)
        /\ alloc \in [Ports -> Row] /\ refs \in [Keys -> Ref]
    BY DEF LedgerInv, TypeOK, TxOK
  <1>1. /\ t.dst \in Ports /\ t.owner \in Owners /\ t.staged \in Keys
        /\ t.staged \notin t.put /\ t.drop # t.staged /\ t.put \in SUBSET Keys
        /\ alloc[t.dst].owner = t.owner /\ IsOwnersRef(t.staged, t.dst)
        /\ t.put = {} => \E k \in Keys : k \notin {t.drop, t.staged} /\ IsOwnersRef(k, t.dst)
        /\ \A k \in t.put : k = t.drop \/ refs[k] = NoRef
    BY <1>0 DEF TxShape, DstHolds, DstCurrent, DstOps, Tx, CommitPromote
  <1>2. /\ t.op = "promote" =>
             /\ t.src \in Ports /\ t.drop \in Keys /\ refs[t.drop].port = t.src
             /\ t.last => \A k \in Keys : refs[k].port = t.src => k = t.drop
             /\ ~t.last => \E k \in Keys : k # t.drop /\ IsOwnersRef(k, t.src)
        /\ t.op = "adopt" => t.drop \notin Keys
    BY <1>0, ReleaseFacts, ConstantsAssumption DEF TxShape
  <1> DEFINE moved == t.op = "promote" /\ t.src # t.dst
             added == IF t.put = {} THEN 1 ELSE 2
             by == IF t.op = "promote" /\ ~moved THEN added + 1 ELSE added
             dstRow == Bumped(t.dst, by)
             srcRow == IF t.last THEN Retired(t.src, 2) ELSE Bumped(t.src, 1)
  <1>3. /\ alloc' = [p \in Ports |-> CASE p = t.dst -> dstRow
                                       [] moved /\ p = t.src -> srcRow
                                       [] OTHER -> alloc[p]]
        /\ refs' = [k \in Keys |-> CASE k \in t.put -> OwningRef(t.dst, t.owner)
                                     [] k \in {t.drop, t.staged} \ t.put -> NoRef
                                     [] OTHER -> refs[k]]
    BY DEF CommitPromote
  <1>4. by \in {1, 2, 3}
    OBVIOUS
  <1>5. \A p \in Ports, n \in {1, 2, 3} :
           /\ Bumped(p, n) \in Row
           /\ Bumped(p, n).status = alloc[p].status /\ Bumped(p, n).owner = alloc[p].owner
           /\ Bumped(p, n).token = alloc[p].token /\ Bumped(p, n).version > alloc[p].version
    <2> SUFFICES ASSUME NEW p \in Ports, NEW n \in {1, 2, 3}
                 PROVE  /\ Bumped(p, n) \in Row
                        /\ Bumped(p, n).status = alloc[p].status
                        /\ Bumped(p, n).owner = alloc[p].owner
                        /\ Bumped(p, n).token = alloc[p].token
                        /\ Bumped(p, n).version > alloc[p].version
      OBVIOUS
    <2>1. alloc[p] \in Row /\ alloc[p].version \in Nat /\ alloc[p].version + n \in Nat
      BY <1>0 DEF Row
    <2>2. Bumped(p, n) = [alloc[p] EXCEPT !.version = alloc[p].version + n]
      BY DEF Bumped
    <2>3. \A v \in Nat : [alloc[p] EXCEPT !.version = v] \in Row
      BY <2>1 DEF Row
    <2>4. [alloc[p] EXCEPT !.version = alloc[p].version + n] \in Row
      BY <2>1, <2>3
    <2> QED BY <2>1, <2>2, <2>4 DEF Row
  <1>6. \A p \in Ports : /\ Retired(p, 2) \in Row /\ Retired(p, 2).version > alloc[p].version
                         /\ Retired(p, 2).status = "PENDING_SCAN"
                         /\ Retired(p, 2).owner = NoOwner /\ Retired(p, 2).token = NoClient
    BY <1>0 DEF Retired, Row, Statuses, Reclaimable
  <1> HIDE DEF by
  <1>7. /\ alloc'[t.dst] \in Row /\ alloc'[t.dst].status = "ACTIVE"
        /\ alloc'[t.dst].owner = t.owner /\ alloc'[t.dst].token = alloc[t.dst].token
        /\ alloc'[t.dst].version > alloc[t.dst].version
    BY <1>1, <1>3, <1>4, <1>5
  <1>8. ASSUME moved, t.last
        PROVE  /\ alloc'[t.src] \in Row /\ alloc'[t.src].status = "PENDING_SCAN"
               /\ alloc'[t.src].owner = NoOwner /\ alloc'[t.src].token = NoClient
               /\ alloc'[t.src].version > alloc[t.src].version
    BY <1>2, <1>3, <1>6, <1>8
  <1>9. ASSUME moved, ~t.last
        PROVE  /\ alloc'[t.src] \in Row /\ alloc'[t.src].status = "ACTIVE"
               /\ alloc'[t.src].owner = alloc[t.src].owner
               /\ alloc'[t.src].token = alloc[t.src].token
               /\ alloc'[t.src].version > alloc[t.src].version
    BY <1>2, <1>3, <1>5, <1>9
  <1>10. \A p \in Ports : p # t.dst /\ ~(moved /\ p = t.src) => alloc'[p] = alloc[p]
    BY <1>3
  <1>11. alloc' \in [Ports -> Row]
    <2>1. \A p \in Ports : alloc'[p] \in Row
      BY <1>0, <1>7, <1>8, <1>9, <1>10
    <2> QED BY <1>3, <2>1
  <1>12. /\ \A k \in t.put : refs'[k] = OwningRef(t.dst, t.owner)
         /\ \A k \in Keys : k \in {t.drop, t.staged} /\ k \notin t.put => refs'[k] = NoRef
         /\ \A k \in Keys : k \notin t.put /\ k \notin {t.drop, t.staged} => refs'[k] = refs[k]
    BY <1>1, <1>3
  <1>13. refs' \in [Keys -> Ref]
    <2>1. OwningRef(t.dst, t.owner) \in Ref /\ NoRef \in Ref
      BY <1>1, ConstantsAssumption DEF OwningRef, NoRef, Ref
    <2>2. \A k \in Keys : refs'[k] \in Ref
      BY <1>0, <1>12, <2>1
    <2> QED BY <1>3, <2>2
  <1> HIDE DEF moved
  <1>14. \A p \in Ports : p # t.dst /\ ~(moved /\ p = t.src) =>
            \A k \in Keys : (refs[k].port = p \/ refs'[k].port = p) => refs'[k] = refs[k]
    BY <1>1, <1>2, <1>12, ConstantsAssumption DEF moved, IsOwnersRef, OwningRef, NoRef
  <1>15. StepGuard
    <2> SUFFICES ASSUME NEW p \in Ports
                 PROVE  /\ alloc'[p].version >= alloc[p].version
                        /\ alloc'[p].version = alloc[p].version => RowKept(p)
      BY DEF StepGuard
    <2>1. alloc[p].version \in Nat /\ alloc'[p].version \in Nat
      BY <1>0, <1>11 DEF Row
    <2>2. CASE p = t.dst
      BY <1>7, <2>1, <2>2
    <2>3. CASE moved /\ p = t.src
      BY <1>8, <1>9, <2>1, <2>3
    <2>4. CASE p # t.dst /\ ~(moved /\ p = t.src)
      BY <1>10, <1>14, <2>1, <2>4 DEF RowKept
    <2> QED BY <2>2, <2>3, <2>4
  <1>16. RowDecodes'
    <2> SUFFICES ASSUME NEW p \in Ports
                 PROVE  /\ alloc'[p].status \in Owned <=> alloc'[p].owner # NoOwner
                        /\ alloc'[p].status = "RESERVED" <=> alloc'[p].token # NoClient
      BY DEF RowDecodes
    <2>0. /\ alloc[p].status \in Owned <=> alloc[p].owner # NoOwner
          /\ alloc[p].status = "RESERVED" <=> alloc[p].token # NoClient
      BY DEF LedgerInv, RowDecodes
    <2>1. CASE p = t.dst
      BY <1>1, <1>7, <2>0, <2>1 DEF Owned
    <2>2. CASE moved /\ p = t.src /\ p # t.dst
      BY <1>8, <1>9, <2>0, <2>2 DEF Owned, moved
    <2>3. CASE p # t.dst /\ ~(moved /\ p = t.src)
      BY <1>10, <2>0, <2>3
    <2> QED BY <2>1, <2>2, <2>3
  <1>17. ReferencesCovered' /\ StagedOwning'
    <2> SUFFICES ASSUME NEW k \in Keys, refs'[k].port # NoPort
                 PROVE  /\ alloc'[refs'[k].port].status \in {"ACTIVE", "RELEASING"}
                        /\ refs'[k].owning => refs'[k].owner = alloc'[refs'[k].port].owner
                        /\ k.role = "OWNERSHIP" => refs'[k].owning
      BY DEF ReferencesCovered, StagedOwning
    <2>1. CASE k \in t.put
      BY <1>7, <1>12, <2>1 DEF OwningRef
    <2>2. CASE k \notin t.put
      <3>1. refs'[k] = refs[k] /\ k # t.drop
        BY <1>12, <2>2 DEF NoRef
      <3>2. /\ refs[k].port \in Ports
            /\ alloc[refs[k].port].status \in {"ACTIVE", "RELEASING"}
            /\ refs[k].owning => refs[k].owner = alloc[refs[k].port].owner
            /\ k.role = "OWNERSHIP" => refs[k].owning
        BY <1>0, <3>1 DEF LedgerInv, ReferencesCovered, StagedOwning, Ref
      <3>3. moved /\ refs[k].port = t.src => ~t.last
        BY <1>2, <3>1 DEF moved
      <3> QED BY <1>1, <1>7, <1>9, <1>10, <3>1, <3>2, <3>3
    <2> QED BY <2>1, <2>2
  <1>18. OwnerHoldsRow'
    <2>1. \E k \in Keys : IsOwnersRef(k, t.dst)'
      <3>1. CASE t.put = {}
        BY <1>1, <1>7, <1>12, <3>1 DEF IsOwnersRef
      <3>2. CASE t.put # {}
        BY <1>1, <1>7, <1>12, <3>2 DEF IsOwnersRef, OwningRef
      <3> QED BY <3>1, <3>2
    <2>2. ASSUME moved, ~t.last
          PROVE  \E k \in Keys : IsOwnersRef(k, t.src)'
      <3>1. PICK k \in Keys : k # t.drop /\ IsOwnersRef(k, t.src)
        BY <1>2, <2>2 DEF moved
      <3>2. k \notin t.put /\ k # t.staged
        BY <1>1, <1>2, <2>2, <3>1, ConstantsAssumption DEF moved, IsOwnersRef, NoRef
      <3> QED BY <1>9, <1>12, <2>2, <3>1, <3>2 DEF IsOwnersRef
    <2>3. \A p \in Ports : p # t.dst /\ ~(moved /\ p = t.src) =>
             /\ \A k \in Keys : IsOwnersRef(k, p)' <=> IsOwnersRef(k, p)
             /\ RefsOf(p)' = RefsOf(p)
      BY <1>10, <1>14 DEF IsOwnersRef, RefsOf
    <2> SUFFICES ASSUME NEW p \in Ports
                 PROVE  /\ alloc'[p].status = "ACTIVE" => \E k \in Keys : IsOwnersRef(k, p)'
                        /\ alloc'[p].status = "RELEASING" =>
                              \E k \in Keys : RefsOf(p)' = {k} /\ IsOwnersRef(k, p)'
      BY DEF OwnerHoldsRow
    <2>4. CASE p = t.dst
      BY <1>7, <2>1, <2>4
    <2>5. CASE moved /\ p = t.src
      BY <1>8, <1>9, <2>2, <2>5
    <2>6. CASE p # t.dst /\ ~(moved /\ p = t.src)
      BY <1>10, <2>3, <2>6 DEF LedgerInv, OwnerHoldsRow
    <2> QED BY <2>4, <2>5, <2>6
  <1> QED BY <1>11, <1>13, <1>15, <1>16, <1>17, <1>18, IdleOK, TxStep

\* A step of no client: every transaction stays open.
LEMMA TableStep ==
  ASSUME LedgerInv, StepGuard, RowDecodes', ReferencesCovered', OwnerHoldsRow', StagedOwning',
         alloc' \in [Ports -> Row], UNCHANGED <<refs, tx>>
  PROVE  LedgerInv'
  <1>1. TypeOK'
    BY DEF LedgerInv, TypeOK
  <1>2. TxOK'
    BY <1>1, TxKept DEF TxOK
  <1> QED BY <1>1, <1>2 DEF LedgerInv

\* The end of a reservation's lifetime changes no fact about the row.
LEMMA ExpireStep ==
  ASSUME LedgerInv, NEW p \in Ports, Expire(p)
  PROVE  LedgerInv' /\ StepGuard
  <1>1. /\ alloc \in [Ports -> Row] /\ refs \in [Keys -> Ref] /\ UNCHANGED <<refs, tx>>
        /\ alloc' = [alloc EXCEPT ![p].live = FALSE]
    BY DEF Expire, LedgerInv, TypeOK
  <1>2. /\ alloc' \in [Ports -> Row]
        /\ \A x \in Ports : /\ alloc'[x].status = alloc[x].status
                            /\ alloc'[x].owner = alloc[x].owner
                            /\ alloc'[x].token = alloc[x].token
                            /\ alloc'[x].version = alloc[x].version
                            /\ alloc[x].version \in Nat
    BY <1>1 DEF Row
  <1>3. StepGuard
    BY <1>1, <1>2 DEF StepGuard, RowKept
  <1>4. RowDecodes' /\ ReferencesCovered' /\ StagedOwning'
    BY <1>1, <1>2 DEF LedgerInv, RowDecodes, ReferencesCovered, StagedOwning, Ref
  <1>5. OwnerHoldsRow'
    BY <1>1, <1>2 DEF LedgerInv, OwnerHoldsRow, IsOwnersRef, RefsOf
  <1> QED BY <1>1, <1>2, <1>3, <1>4, <1>5, TableStep

\* Recovered reservations had no references, so retiring them orphans none.
LEMMA RecoverExpiredStep ==
  ASSUME LedgerInv, RecoverExpired
  PROVE  LedgerInv' /\ StepGuard
  <1> DEFINE E == {p \in Ports : /\ alloc[p].status = "RESERVED" /\ ~alloc[p].live
                                 /\ alloc[p].version < MaxVersion /\ RefsOf(p) = {}}
  <1>1. /\ alloc \in [Ports -> Row] /\ refs \in [Keys -> Ref] /\ UNCHANGED <<refs, tx>>
        /\ alloc' = [p \in Ports |-> IF p \in E THEN Retired(p, 1) ELSE alloc[p]]
    BY DEF RecoverExpired, LedgerInv, TypeOK
  <1>2. \A p \in Ports : /\ Retired(p, 1) \in Row /\ Retired(p, 1).version > alloc[p].version
                         /\ Retired(p, 1).status = "PENDING_SCAN"
                         /\ Retired(p, 1).owner = NoOwner /\ Retired(p, 1).token = NoClient
    BY <1>1 DEF Retired, Row, Statuses, Reclaimable
  <1>3. \A p \in E, k \in Keys : refs[k].port # p
    BY DEF RefsOf
  <1> HIDE DEF E
  <1>4. alloc' \in [Ports -> Row]
    BY <1>1, <1>2
  <1>5. StepGuard
    BY <1>1, <1>2, <1>4 DEF StepGuard, RowKept, Row
  <1>6. RowDecodes'
    BY <1>1, <1>2 DEF LedgerInv, RowDecodes, Owned
  <1>7. ReferencesCovered' /\ StagedOwning'
    BY <1>1, <1>3 DEF LedgerInv, ReferencesCovered, StagedOwning, Ref
  <1>8. OwnerHoldsRow'
    <2>1. \A p \in Ports \ E : alloc'[p] = alloc[p]
      BY <1>1
    <2>2. \A p \in Ports \cap E : alloc'[p].status = "PENDING_SCAN"
      BY <1>1, <1>2
    <2> QED BY <1>1, <2>1, <2>2 DEF LedgerInv, OwnerHoldsRow, IsOwnersRef, RefsOf
  <1> QED BY <1>1, <1>4, <1>5, <1>6, <1>7, <1>8, TableStep

\* A reclaim verdict only touches rows nobody refers to.
LEMMA VerdictStep ==
  ASSUME LedgerInv, NEW p \in Ports, NEW s \in Statuses, Verdict(p, s)
  PROVE  LedgerInv' /\ StepGuard
  <1> DEFINE row == [alloc[p] EXCEPT !.status = s, !.version = alloc[p].version + 1]
  <1>1. /\ alloc \in [Ports -> Row] /\ refs \in [Keys -> Ref] /\ UNCHANGED <<refs, tx>>
        /\ alloc[p] \in Row
    BY DEF Verdict, LedgerInv, TypeOK
  <1>2. alloc' = [alloc EXCEPT ![p] = row]
    BY <1>1 DEF Verdict, Bumped, Row
  <1>3. row \in Row
    <2>1. \A v \in Nat : [alloc[p] EXCEPT !.status = s, !.version = v] \in Row
      BY <1>1 DEF Row
    <2>2. alloc[p].version + 1 \in Nat
      BY <1>1 DEF Row
    <2> QED BY <2>1, <2>2
  <1>4. /\ alloc' \in [Ports -> Row]
        /\ \A x \in Ports \ {p} : alloc'[x] = alloc[x]
        /\ alloc'[p].status = s /\ alloc'[p].owner = alloc[p].owner
        /\ alloc'[p].token = alloc[p].token
        /\ alloc'[p].version > alloc[p].version
    BY <1>1, <1>2, <1>3 DEF Row
  <1>5. s \in {"FREE", "PENDING_SCAN", "EXTERNAL_OCCUPIED"} /\ alloc[p].status \in Reclaimable
    BY DEF Verdict, Reclaimable
  <1>6. \A k \in Keys : refs[k].port # p
    BY <1>5, ConstantsAssumption DEF LedgerInv, ReferencesCovered, Reclaimable
  <1>7. StepGuard
    BY <1>1, <1>4 DEF StepGuard, RowKept, Row
  <1>8. RowDecodes'
    BY <1>4, <1>5 DEF LedgerInv, RowDecodes, Owned, Reclaimable
  <1>9. ReferencesCovered' /\ StagedOwning'
    BY <1>1, <1>4, <1>6 DEF LedgerInv, ReferencesCovered, StagedOwning, Ref
  <1>10. OwnerHoldsRow'
    BY <1>1, <1>4, <1>5 DEF LedgerInv, OwnerHoldsRow, IsOwnersRef, RefsOf
  <1> QED BY <1>1, <1>4, <1>7, <1>8, <1>9, <1>10, TableStep

-----------------------------------------------------------------------------

\* The inductive step: the invariant is kept and changed rows get new versions.
LEMMA NextInv == LedgerInv /\ [Next]_vars => LedgerInv' /\ StepGuard
  <1> SUFFICES ASSUME LedgerInv, [Next]_vars PROVE LedgerInv' /\ StepGuard
    OBVIOUS
  <1>1. CASE UNCHANGED vars
    <2>1. UNCHANGED <<alloc, refs>> /\ UNCHANGED tx
      BY <1>1 DEF vars
    <2> QED BY <2>1, ReadKeepsTables, TableStep
  <1>2. ASSUME NEW c \in Clients, NEW p \in Ports, NEW o \in Owners, BeginReserve(c, p, o)
        PROVE  LedgerInv' /\ StepGuard
    BY <1>2, BeginReserveStep
  <1>3. ASSUME NEW c \in Clients, CommitReserve(c) PROVE LedgerInv' /\ StepGuard
    BY <1>3, CommitReserveStep
  <1>4. ASSUME NEW c \in Clients, NEW K \in SUBSET Keys, BeginActivate(c, K) PROVE LedgerInv' /\ StepGuard
    BY <1>4, BeginActivateStep
  <1>5. ASSUME NEW c \in Clients, CommitActivate(c) PROVE LedgerInv' /\ StepGuard
    BY <1>5, CommitActivateStep
  <1>6. ASSUME NEW c \in Clients, NEW p \in Ports, NEW k \in Keys,
               Acquire(c, p, k) \/ BeginAlias(c, p, k)
        PROVE  LedgerInv' /\ StepGuard
    BY <1>6, AcquireStep, BeginAliasStep
  <1>7. ASSUME NEW c \in Clients, CommitAdd(c) PROVE LedgerInv' /\ StepGuard
    BY <1>7, CommitAddStep
  <1>8. ASSUME NEW c \in Clients, NEW k \in Keys, NEW op \in {"release", "cleanup"},
               BeginRelease(c, op, k)
        PROVE  LedgerInv' /\ StepGuard
    BY <1>8, BeginReleaseStep
  <1>9. ASSUME NEW c \in Clients, CommitRelease(c) PROVE LedgerInv' /\ StepGuard
    BY <1>9, CommitReleaseStep
  <1>10. ASSUME NEW c \in Clients, NEW k \in Keys, BeginConfirm(c, k) PROVE LedgerInv' /\ StepGuard
    BY <1>10, BeginConfirmStep
  <1>11. ASSUME NEW c \in Clients, CommitConfirm(c) PROVE LedgerInv' /\ StepGuard
    BY <1>11, CommitConfirmStep
  <1>12. ASSUME NEW c \in Clients, NEW pub \in Keys, NEW nxt \in Keys, NEW stg \in Keys,
                BeginPromote(c, pub, nxt, stg)
         PROVE  LedgerInv' /\ StepGuard
    BY <1>12, BeginPromoteStep
  <1>13. ASSUME NEW c \in Clients, NEW nxt \in Keys, NEW stg \in Keys, BeginAdopt(c, nxt, stg)
         PROVE  LedgerInv' /\ StepGuard
    BY <1>13, BeginAdoptStep
  <1>14. ASSUME NEW c \in Clients, CommitPromote(c) PROVE LedgerInv' /\ StepGuard
    BY <1>14, CommitPromoteStep
  <1>15. ASSUME NEW c \in Clients, Rollback(c) PROVE LedgerInv' /\ StepGuard
    BY <1>15, RollbackStep
  <1>16. ASSUME NEW p \in Ports, Expire(p) PROVE LedgerInv' /\ StepGuard
    BY <1>16, ExpireStep
  <1>17. ASSUME RecoverExpired PROVE LedgerInv' /\ StepGuard
    BY <1>17, RecoverExpiredStep
  <1>18. ASSUME NEW p \in Ports, NEW s \in Statuses, Verdict(p, s) PROVE LedgerInv' /\ StepGuard
    BY <1>18, VerdictStep
  <1> QED
    BY <1>1, <1>2, <1>3, <1>4, <1>5, <1>6, <1>7, <1>8, <1>9, <1>10, <1>11, <1>12, <1>13,
       <1>14, <1>15, <1>16, <1>17, <1>18 DEF Next

\* The invariant holds in every reachable state.
THEOREM LedgerInvariance == Spec => []LedgerInv
  BY InitInv, NextInv, PTL DEF Spec

\* Rows, references and open transactions keep their shape.
THEOREM LedgerTypes == Spec => []TypeOK
  <1>1. LedgerInv => TypeOK
    BY DEF LedgerInv
  <1> QED BY <1>1, LedgerInvariance, PTL

\* allocationDto can read every row that any interleaving leaves behind.
THEOREM LedgerRowsDecode == Spec => []RowDecodes
  <1>1. LedgerInv => RowDecodes
    BY DEF LedgerInv
  <1> QED BY <1>1, LedgerInvariance, PTL

\* Every reference points at an owned row, an owning one at a row of its owner.
THEOREM LedgerReferences == Spec => []ReferencesCovered
  <1>1. LedgerInv => ReferencesCovered
    BY DEF LedgerInv
  <1> QED BY <1>1, LedgerInvariance, PTL

\* Every ACTIVE or RELEASING row is held by a reference of its owner, so that
\* the runtime clean-up can release it.
THEOREM LedgerRowsHeld == Spec => []OwnerHoldsRow
  <1>1. LedgerInv => OwnerHoldsRow
    BY DEF LedgerInv
  <1> QED BY <1>1, LedgerInvariance, PTL

\* An open transaction whose version still matches decided on current facts.
THEOREM LedgerDecisions == Spec => []DecisionsHold
  <1>1. LedgerInv => DecisionsHold
    <2> SUFFICES ASSUME LedgerInv, NEW c \in Clients, NEW t, t = tx[c]
                 PROVE
        /\ (t.op \in {"release", "cleanup", "promote"} /\ alloc[t.src].version = t.srcVersion)
              => /\ refs[t.drop].port = t.src
                 /\ MayRelease(t.drop)
                 /\ t.last <=> RefsOf(t.src) = {t.drop}
        /\ (t.op = "confirm" /\ alloc[t.src].version = t.srcVersion)
              => RefsOf(t.src) = {t.drop}
        /\ (t.op \in {"promote", "adopt"} /\ alloc[t.dst].version = t.dstVersion)
              => IsOwnersRef(t.staged, t.dst)
        /\ (t.op \in {"activate", "add"} /\ alloc[t.dst].version = t.dstVersion)
              => alloc[t.dst].owner = t.owner
      BY DEF DecisionsHold
    <2>0. TxShape(t) /\ SrcHolds(t) /\ DstHolds(t)
      BY DEF LedgerInv, TxOK
    <2>1. (t.op \in {"promote", "adopt"} /\ alloc[t.dst].version = t.dstVersion)
              => IsOwnersRef(t.staged, t.dst)
      BY <2>0 DEF DstHolds, DstCurrent, DstOps
    <2>2. (t.op \in {"activate", "add"} /\ alloc[t.dst].version = t.dstVersion)
              => alloc[t.dst].owner = t.owner
      BY <2>0 DEF DstHolds, DstCurrent, DstOps
    <2>3. ASSUME SrcCurrent(t)
          PROVE  /\ t.src \in Ports /\ t.drop \in Keys /\ refs[t.drop].port = t.src
                 /\ t.op = "confirm" => t.last
                 /\ t.last => RefsOf(t.src) = {t.drop}
                 /\ ~t.last => \E x \in RefsOf(t.src) \ {t.drop} : IsOwnersRef(x, t.src)
      BY <2>0, <2>3 DEF SrcHolds, SrcCurrent, TxShape, RefsOf, IsOwnersRef
    <2>4. ASSUME SrcCurrent(t), t.op # "confirm"
          PROVE  MayRelease(t.drop) /\ (t.last <=> RefsOf(t.src) = {t.drop})
      <3>1. alloc[t.src].status = "ACTIVE"
        BY <2>0, <2>4 DEF SrcHolds
      <3> QED BY <2>3, <2>4, <3>1, ConstantsAssumption DEF MayRelease
    <2> QED BY <2>1, <2>2, <2>3, <2>4 DEF SrcCurrent, SrcOps
  <1> QED BY <1>1, LedgerInvariance, PTL

\* Whatever changes what a row or its references say raises its version.
THEOREM LedgerVersions == Spec => VersionGuardsFacts
  <1>1. ASSUME LedgerInv, StepGuard, LedgerInv', NEW p \in Ports
        PROVE  /\ alloc'[p].version >= alloc[p].version
               /\ Facts(p)' # Facts(p) => alloc'[p].version > alloc[p].version
    <2>1. alloc[p].version \in Nat /\ alloc'[p].version \in Nat
      BY <1>1 DEF LedgerInv, TypeOK, Row
    <2>2. CASE alloc'[p].version = alloc[p].version
      <3>1. RowKept(p)
        BY <1>1, <2>2 DEF StepGuard
      <3>2. RefsOf(p)' = RefsOf(p)
        BY <3>1 DEF RowKept, RefsOf
      <3>3. \A k \in RefsOf(p) : refs'[k] = refs[k]
        BY <3>1 DEF RowKept, RefsOf
      <3>4. [k \in RefsOf(p)' |-> refs'[k]] = [k \in RefsOf(p) |-> refs[k]]
        BY <3>2, <3>3
      <3>5. Facts(p)' = Facts(p)
        BY <3>1, <3>4 DEF Facts, RowKept
      <3> QED BY <2>1, <2>2, <3>5
    <2>3. CASE alloc'[p].version # alloc[p].version
      BY <1>1, <2>1, <2>3 DEF StepGuard
    <2> QED BY <2>2, <2>3
  <1>2. LedgerInv /\ [Next]_vars
          => \A p \in Ports : /\ alloc'[p].version >= alloc[p].version
                              /\ Facts(p)' # Facts(p) => alloc'[p].version > alloc[p].version
    BY <1>1, NextInv
  <1> QED BY <1>2, LedgerInvariance, PTL DEF Spec, VersionGuardsFacts
-----------------------------------------------------------------------------
(* The ledger implements PortOwnership.                                    *)

\* What the refinement mapping says of a row.
Holds(row) == CASE row.status \in {"NONE", "FREE"} -> Available
                [] row.status \in Owned -> row.owner
                [] OTHER -> Quarantined

\* The refinement mapping, row by row, in this state and in the next.
LEMMA HolderIs == /\ holder = [p \in Ports |-> Holds(alloc[p])]
                  /\ holder' = [p \in Ports |-> Holds(alloc'[p])]
  BY DEF holder, Holds

\* Rows that keep their status and owner keep their holder.
LEMMA SameHolder ==
  ASSUME \A p \in Ports : Holds(alloc'[p]) = Holds(alloc[p])
  PROVE  UNCHANGED holder
  BY HolderIs

\* Retiring the rows of S is an abstract Retire step.
LEMMA RetireRefines ==
  ASSUME NEW S \in SUBSET Ports,
         \A p \in S : Holds(alloc[p]) \in Owners /\ Holds(alloc'[p]) = Quarantined,
         \A p \in Ports \ S : Holds(alloc'[p]) = Holds(alloc[p])
  PROVE  Ownership!Next
  <1>1. Ownership!Retire(S)
    BY HolderIs DEF Ownership!Retire
  <1> QED BY <1>1 DEF Ownership!Next

\* Retiring a single row is an abstract Retire step.
LEMMA RetireOneRefines ==
  ASSUME NEW p \in Ports, Holds(alloc[p]) \in Owners, Holds(alloc'[p]) = Quarantined,
         \A x \in Ports \ {p} : Holds(alloc'[x]) = Holds(alloc[x])
  PROVE  Ownership!Next
  <1>1. {p} \in SUBSET Ports
    OBVIOUS
  <1> QED BY <1>1, RetireRefines

\* An owned row is held by its owner.
LEMMA OwnedHolds ==
  ASSUME LedgerInv, NEW p \in Ports, alloc[p].status \in Owned
  PROVE  Holds(alloc[p]) = alloc[p].owner /\ alloc[p].owner \in Owners
  BY DEF LedgerInv, TypeOK, Row, RowDecodes, Holds, Owned

\* Every ledger step is an abstract step or leaves the holders alone.
LEMMA RefineStep == LedgerInv /\ [Next]_vars => [Ownership!Next]_holder
  <1> SUFFICES ASSUME LedgerInv, [Next]_vars, ~UNCHANGED holder
               PROVE  Ownership!Next
    OBVIOUS
  <1>0. alloc \in [Ports -> Row]
    BY DEF LedgerInv, TypeOK
  <1>1. ASSUME UNCHANGED alloc PROVE FALSE
    BY <1>1, SameHolder
  <1>2. ASSUME NEW c \in Clients, CommitReserve(c) PROVE Ownership!Next
    <2> DEFINE t == tx[c]
    <2>1. t.op = "reserve" /\ TxShape(t)
      BY <1>2 DEF CommitReserve, LedgerInv, TxOK
    <2>2. t.dst \in Ports /\ t.owner \in Owners
      BY <2>1 DEF TxShape, DstOps
    <2>3. /\ Holds(alloc[t.dst]) = Available /\ Holds(alloc'[t.dst]) = t.owner
          /\ \A p \in Ports \ {t.dst} : alloc'[p] = alloc[p]
      BY <1>0, <1>2, <2>2 DEF CommitReserve, Holds, Owned
    <2>4. Ownership!Claim(t.dst, t.owner)
      BY <2>2, <2>3, HolderIs DEF Ownership!Claim
    <2> QED BY <2>2, <2>4 DEF Ownership!Next
  <1>3. ASSUME NEW c \in Clients, CommitActivate(c) PROVE FALSE
    <2> DEFINE t == tx[c]
    <2>1. t.op = "activate" /\ TxShape(t)
      BY <1>3 DEF CommitActivate, LedgerInv, TxOK
    <2>2. t.dst \in Ports
      BY <2>1 DEF TxShape, DstOps
    <2>3. \A p \in Ports : Holds(alloc'[p]) = Holds(alloc[p])
      BY <1>0, <1>3, <2>2 DEF CommitActivate, Holds, Owned
    <2> QED BY <2>3, SameHolder
  <1>4. ASSUME NEW c \in Clients, CommitAdd(c) PROVE FALSE
    <2> DEFINE t == tx[c]
    <2>1. t.op \in {"add", "alias"} /\ TxShape(t)
      BY <1>4 DEF CommitAdd, LedgerInv, TxOK
    <2>2. t.dst \in Ports
      BY <2>1 DEF TxShape, DstOps
    <2>3. \A p \in Ports : Holds(alloc'[p]) = Holds(alloc[p])
      BY <1>0, <1>4, <2>2 DEF CommitAdd, Bumped, Row, Holds
    <2> QED BY <2>3, SameHolder
  <1>5. ASSUME NEW c \in Clients, CommitRelease(c) PROVE Ownership!Next
    <2> DEFINE t == tx[c]
    <2>1. t.op \in {"release", "cleanup"} /\ TxShape(t) /\ alloc[t.src].status = "ACTIVE"
      BY <1>5 DEF CommitRelease, LedgerInv, TxOK
    <2>2. t.src \in Ports
      BY <2>1 DEF TxShape, SrcOps
    <2>3. Holds(alloc[t.src]) = alloc[t.src].owner /\ alloc[t.src].owner \in Owners
      BY <2>1, <2>2, OwnedHolds DEF Owned
    <2>4. \A p \in Ports \ {t.src} : alloc'[p] = alloc[p]
      BY <1>0, <1>5 DEF CommitRelease
    <2>5. CASE t.last /\ t.op = "cleanup"
      <3>1. alloc'[t.src] = Retired(t.src, 2)
        BY <1>0, <1>5, <2>2, <2>5 DEF CommitRelease
      <3>2. Holds(alloc'[t.src]) = Quarantined
        BY <3>1 DEF Retired, Holds, Owned
      <3> QED BY <2>2, <2>3, <2>4, <3>2, RetireOneRefines
    <2>6. CASE ~(t.last /\ t.op = "cleanup")
      <3>1. alloc'[t.src].owner = alloc[t.src].owner /\ alloc'[t.src].status \in {"ACTIVE", "RELEASING"}
        BY <1>0, <1>5, <2>1, <2>2, <2>6 DEF CommitRelease, Bumped, Row
      <3>2. Holds(alloc'[t.src]) = Holds(alloc[t.src])
        BY <2>3, <3>1 DEF Holds, Owned
      <3> QED BY <2>4, <3>2, SameHolder
    <2> QED BY <2>5, <2>6
  <1>6. ASSUME NEW c \in Clients, CommitConfirm(c) PROVE Ownership!Next
    <2> DEFINE t == tx[c]
    <2>1. t.op = "confirm" /\ TxShape(t) /\ alloc[t.src].status = "RELEASING"
      BY <1>6 DEF CommitConfirm, LedgerInv, TxOK
    <2>2. t.src \in Ports
      BY <2>1 DEF TxShape, SrcOps
    <2>3. Holds(alloc[t.src]) \in Owners
      BY <2>1, <2>2, OwnedHolds DEF Owned
    <2>4. /\ \A p \in Ports \ {t.src} : alloc'[p] = alloc[p]
          /\ alloc'[t.src] = Retired(t.src, 1)
      BY <1>0, <1>6, <2>2 DEF CommitConfirm
    <2>5. Holds(alloc'[t.src]) = Quarantined
      BY <2>4 DEF Retired, Holds, Owned
    <2> QED BY <2>2, <2>3, <2>4, <2>5, RetireOneRefines
  <1>7. ASSUME NEW c \in Clients, CommitPromote(c) PROVE Ownership!Next
    <2> DEFINE t == tx[c]
               moved == t.op = "promote" /\ t.src # t.dst
               added == IF t.put = {} THEN 1 ELSE 2
               by == IF t.op = "promote" /\ ~moved THEN added + 1 ELSE added
    <2>1. /\ t.op \in {"promote", "adopt"} /\ TxShape(t) /\ alloc[t.dst].status = "ACTIVE"
          /\ t.op = "promote" => alloc[t.src].status = "ACTIVE"
      BY <1>7 DEF CommitPromote, LedgerInv, TxOK
    <2>2. t.dst \in Ports /\ (t.op = "promote" => t.src \in Ports)
      BY <2>1 DEF TxShape, SrcOps, DstOps
    <2>3. alloc' = [p \in Ports |-> CASE p = t.dst -> Bumped(t.dst, by)
                     [] moved /\ p = t.src -> IF t.last THEN Retired(t.src, 2) ELSE Bumped(t.src, 1)
                     [] OTHER -> alloc[p]]
      BY <1>7 DEF CommitPromote
    <2> HIDE DEF by
    <2>4. \A n : \A p \in Ports : Holds(Bumped(p, n)) = Holds(alloc[p])
      BY <1>0 DEF Bumped, Row, Holds
    <2>5. CASE moved /\ t.last
      <3>1. Holds(alloc'[t.src]) = Quarantined
        <4>1. alloc'[t.src] = Retired(t.src, 2)
          BY <2>2, <2>3, <2>5
        <4> QED BY <4>1 DEF Retired, Holds, Owned
      <3>2. \A p \in Ports \ {t.src} : Holds(alloc'[p]) = Holds(alloc[p])
        BY <2>2, <2>3, <2>4, <2>5
      <3>3. Holds(alloc[t.src]) \in Owners
        BY <2>1, <2>2, <2>5, OwnedHolds DEF Owned
      <3> QED BY <2>2, <2>5, <3>1, <3>2, <3>3, RetireOneRefines
    <2>6. CASE ~(moved /\ t.last)
      <3>1. \A p \in Ports : Holds(alloc'[p]) = Holds(alloc[p])
        BY <2>2, <2>3, <2>4, <2>6
      <3> QED BY <3>1, SameHolder
    <2> QED BY <2>5, <2>6
  <1>8. ASSUME NEW p \in Ports, Expire(p) PROVE FALSE
    <2>1. \A x \in Ports : Holds(alloc'[x]) = Holds(alloc[x])
      BY <1>0, <1>8 DEF Expire, Row, Holds
    <2> QED BY <2>1, SameHolder
  <1>9. ASSUME RecoverExpired PROVE Ownership!Next
    <2> DEFINE E == {p \in Ports : /\ alloc[p].status = "RESERVED" /\ ~alloc[p].live
                                   /\ alloc[p].version < MaxVersion /\ RefsOf(p) = {}}
    <2>1. alloc' = [p \in Ports |-> IF p \in E THEN Retired(p, 1) ELSE alloc[p]]
      BY <1>9 DEF RecoverExpired
    <2>2. \A p \in E : Holds(alloc[p]) \in Owners
      BY OwnedHolds DEF Owned
    <2>3. \A p \in E : Holds(alloc'[p]) = Quarantined
      BY <2>1 DEF Retired, Holds, Owned
    <2>4. \A p \in Ports \ E : Holds(alloc'[p]) = Holds(alloc[p])
      BY <2>1
    <2> QED BY <2>2, <2>3, <2>4, RetireRefines
  <1>10. ASSUME NEW p \in Ports, NEW s \in Statuses, Verdict(p, s) PROVE Ownership!Next
    <2>1. /\ Holds(alloc[p]) = Quarantined
          /\ \A x \in Ports \ {p} : alloc'[x] = alloc[x]
          /\ alloc'[p].status = s /\ s \in {"FREE"} \cup Reclaimable
      BY <1>0, <1>10 DEF Verdict, Bumped, Row, Holds, Owned, Reclaimable
    <2>2. CASE s = "FREE"
      <3>1. Holds(alloc'[p]) = Available
        BY <2>1, <2>2 DEF Holds, Owned
      <3>2. Ownership!Clear(p)
        BY <2>1, <3>1, HolderIs DEF Ownership!Clear
      <3> QED BY <3>2 DEF Ownership!Next
    <2>3. CASE s # "FREE"
      <3>1. Holds(alloc'[p]) = Quarantined
        BY <2>1, <2>3 DEF Holds, Owned, Reclaimable
      <3> QED BY <2>1, <3>1, SameHolder
    <2> QED BY <2>2, <2>3
  <1>11. CASE UNCHANGED vars
    BY <1>1, <1>11 DEF vars
  <1>12. ASSUME NEW c \in Clients, Rollback(c) PROVE FALSE
    BY <1>1, <1>12 DEF Rollback
  <1>13. ASSUME NEW c \in Clients, NEW p \in Ports, NEW o \in Owners, BeginReserve(c, p, o) PROVE FALSE
    BY <1>1, <1>13 DEF BeginReserve
  <1>14. ASSUME NEW c \in Clients, NEW K \in SUBSET Keys, BeginActivate(c, K) PROVE FALSE
    BY <1>1, <1>14 DEF BeginActivate
  <1>15. ASSUME NEW c \in Clients, NEW p \in Ports, NEW k \in Keys,
                Acquire(c, p, k) \/ BeginAlias(c, p, k)
         PROVE  FALSE
    BY <1>1, <1>15 DEF Acquire, BeginAdd, BeginReserve, BeginAlias
  <1>16. ASSUME NEW c \in Clients, NEW k \in Keys, NEW op \in {"release", "cleanup"},
                BeginRelease(c, op, k) \/ BeginConfirm(c, k)
         PROVE  FALSE
    BY <1>1, <1>16 DEF BeginRelease, BeginConfirm
  <1>17. ASSUME NEW c \in Clients, NEW pub \in Keys, NEW nxt \in Keys, NEW stg \in Keys,
                BeginPromote(c, pub, nxt, stg) \/ BeginAdopt(c, nxt, stg)
         PROVE  FALSE
    BY <1>1, <1>17 DEF BeginPromote, BeginAdopt
  <1> QED
    BY <1>2, <1>3, <1>4, <1>5, <1>6, <1>7, <1>8, <1>9, <1>10, <1>11, <1>12, <1>13, <1>14,
       <1>15, <1>16, <1>17 DEF Next

\* Exclusive ownership with a quarantine between two owners, for every ledger.
THEOREM LedgerRefinement == Spec => ImplementsOwnership
  <1>1. Init => Ownership!Init
    BY HolderIs DEF Init, NoRow, Holds, Owned, Ownership!Init
  <1> QED BY <1>1, RefineStep, LedgerInvariance, PTL
          DEF Spec, ImplementsOwnership, Ownership!Spec
=============================================================================
