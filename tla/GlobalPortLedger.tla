-------------------------- MODULE GlobalPortLedger --------------------------
(***************************************************************************)
(* The global port ledger (server/globalPortAllocationService.ts): one row *)
(* per listener port in global_port_allocations and the references to it   *)
(* in global_port_allocation_references.                                   *)
(*                                                                         *)
(* Every operation is a database transaction of a client (a request, a     *)
(* heartbeat, a saga step).  withDatabaseTransaction takes no row locks on *)
(* what a transaction reads and leaves MySQL and PostgreSQL at their       *)
(* default isolation level, so an operation has two steps here: Begin...   *)
(* reads the row and its references and decides, Commit... is the write    *)
(* whose WHERE clause names the version that was read.  Other transactions *)
(* may commit in between.                                                  *)
(***************************************************************************)
EXTENDS Naturals, FiniteSets

CONSTANTS
    Ports,         \* listener ports
    Owners,        \* owner tags: inbounds, rules, tunnels, quick configs...
    XrayInbounds,  \* the owners of type XRAY_INBOUND
    QuickConfigs,  \* the owners of type QUICK_CONFIG
    Keys,          \* reference keys: [res, host, role, slot]
    Clients,       \* concurrent callers of the service
    MaxVersion,    \* MAX_SAFE_REVISION
    NoOwner, NoClient, NoPort, NoKey,
    Available, Quarantined  \* the unowned states of module PortOwnership

ASSUME ConstantsAssumption ==
    /\ XrayInbounds \subseteq Owners
    /\ QuickConfigs \subseteq Owners
    /\ XrayInbounds \cap QuickConfigs = {}
    /\ \A k \in Keys : k.res \in Owners
    /\ MaxVersion \in Nat
    /\ NoOwner \notin Owners
    /\ NoClient \notin Clients
    /\ NoPort \notin Ports
    /\ NoKey \notin Keys
    /\ Available \notin Owners
    /\ Quarantined \notin Owners \cup {Available}

VARIABLES
    alloc,   \* alloc[p]: the row of port p (status NONE: there is no row)
    refs,    \* refs[k]: the reference with key k (NoRef: there is none)
    tx       \* tx[c]: what the open transaction of client c has decided

vars == <<alloc, refs, tx>>

-----------------------------------------------------------------------------

Owned == {"RESERVED", "ACTIVE", "RELEASING"}
Reclaimable == {"PENDING_SCAN", "EXTERNAL_OCCUPIED"}
Statuses == {"NONE", "FREE"} \cup Owned \cup Reclaimable

\* live: reservedUntil lies in the future.
Row == [status: Statuses, owner: Owners \cup {NoOwner},
        token: Clients \cup {NoClient}, live: BOOLEAN, version: Nat]

NoRow == [status |-> "NONE", owner |-> NoOwner, token |-> NoClient,
          live |-> FALSE, version |-> 0]

Ref == [port: Ports \cup {NoPort}, owner: Owners \cup {NoOwner}, owning: BOOLEAN]

NoRef == [port |-> NoPort, owner |-> NoOwner, owning |-> FALSE]

Ops == {"idle", "reserve", "reserved", "activate", "add", "alias",
        "release", "confirm", "cleanup", "promote", "adopt"}

\* src, drop, last: the row a reference is released from, that reference, and
\* whether the read saw no other one.  dst, put: the row references are added
\* to and their keys.  staged: the OWNERSHIP reference a promotion consumes.
Tx == [op: Ops, owner: Owners \cup {NoOwner},
       src: Ports \cup {NoPort}, srcVersion: Nat,
       drop: Keys \cup {NoKey}, last: BOOLEAN,
       dst: Ports \cup {NoPort}, dstVersion: Nat,
       put: SUBSET Keys, staged: Keys \cup {NoKey}]

Idle == [op |-> "idle", owner |-> NoOwner, src |-> NoPort, srcVersion |-> 0,
         drop |-> NoKey, last |-> FALSE, dst |-> NoPort, dstVersion |-> 0,
         put |-> {}, staged |-> NoKey]

RefsOf(p) == {k \in Keys : refs[k].port = p}

\* k is a reference to p that the primary owner of p owns.
IsOwnersRef(k, p) ==
    refs[k].port = p /\ refs[k].owning /\ refs[k].owner = alloc[p].owner

OwningRef(p, o) == [port |-> p, owner |-> o, owning |-> TRUE]

\* Mutant: the reclaim delay is skipped.
RetiredFree(p, by) == [status |-> "FREE", owner |-> NoOwner,
                       token |-> NoClient, live |-> FALSE,
                       version |-> alloc[p].version + by]

\* Mutant: the primary owner stays behind in the row.
RetiredKeepingOwner(p, by) == [status |-> "PENDING_SCAN", owner |-> alloc[p].owner,
                               token |-> NoClient, live |-> FALSE,
                               version |-> alloc[p].version + by]

\* Mutant: a status the row decoder does not know.
RetiredUnknown(p, by) == [status |-> "RELEASED", owner |-> NoOwner,
                          token |-> NoClient, live |-> FALSE,
                          version |-> alloc[p].version + by]

\* The row of p once every owner has left it: the reclaim delay starts.
Retired(p, by) == [status |-> "PENDING_SCAN", owner |-> NoOwner,
                   token |-> NoClient, live |-> FALSE,
                   version |-> alloc[p].version + by]

\* Mutant: changing the references leaves the version of the row alone.
Unbumped(p, by) == [alloc[p] EXCEPT !.version = @ + by - 1]

Bumped(p, by) == [alloc[p] EXCEPT !.version = @ + by]

Init ==
    /\ alloc = [p \in Ports |-> NoRow]
    /\ refs = [k \in Keys |-> NoRef]
    /\ tx = [c \in Clients |-> Idle]

-----------------------------------------------------------------------------
(* reserveGlobalPortAllocation: a first row, or a FREE one.                *)

BeginReserve(c, p, o) ==
    /\ tx[c].op = "idle"
    /\ alloc[p].status \in {"NONE", "FREE"}
    /\ tx' = [tx EXCEPT ![c] = [Idle EXCEPT !.op = "reserve", !.owner = o,
                                !.dst = p, !.dstVersion = alloc[p].version]]
    /\ UNCHANGED <<alloc, refs>>

\* The unique index on port and the version in the WHERE clause; on success
\* the client keeps the token and the version of its reservation.
CommitReserve(c) ==
    LET t == tx[c] IN
    /\ t.op = "reserve"
    /\ alloc[t.dst].status \in {"NONE", "FREE"}
    /\ alloc[t.dst].version = t.dstVersion
    /\ t.dstVersion + 1 < MaxVersion
    /\ alloc' = [alloc EXCEPT ![t.dst] =
                    [status |-> "RESERVED", owner |-> t.owner, token |-> c,
                     live |-> TRUE, version |-> t.dstVersion + 1]]
    /\ tx' = [tx EXCEPT ![c] = [t EXCEPT !.op = "reserved", !.dstVersion = @ + 1]]
    /\ UNCHANGED refs

\* The clock passes reservedUntil.
Expire(p) ==
    /\ alloc[p].status = "RESERVED"
    /\ alloc[p].live
    /\ alloc' = [alloc EXCEPT ![p].live = FALSE]
    /\ UNCHANGED <<refs, tx>>

-----------------------------------------------------------------------------
(* activateReservedGlobalPortAllocation with a set K of owning references. *)

\* insertReference: the key is new, or it names exactly this reference.
Insertable(k, ref) == refs[k] \in {NoRef, ref}

BeginActivate(c, K) ==
    LET t == tx[c] IN
    /\ t.op = "reserved"
    /\ K # {}
    /\ alloc[t.dst].version = t.dstVersion
    /\ alloc[t.dst].status = "RESERVED"
    /\ alloc[t.dst].owner = t.owner
    /\ alloc[t.dst].live
    /\ alloc[t.dst].token = c
    /\ \A k \in K : k.res = t.owner /\ Insertable(k, OwningRef(t.dst, t.owner))
    /\ tx' = [tx EXCEPT ![c] = [t EXCEPT !.op = "activate",
                                !.put = {k \in K : refs[k] = NoRef}]]
    /\ UNCHANGED <<alloc, refs>>

CommitActivate(c) ==
    LET t == tx[c] IN
    /\ t.op = "activate"
    /\ alloc[t.dst].version = t.dstVersion
    /\ alloc[t.dst].status = "RESERVED"
    /\ t.dstVersion + 1 < MaxVersion
    /\ \A k \in t.put : refs[k] = NoRef
    /\ refs' = [k \in Keys |-> IF k \in t.put THEN OwningRef(t.dst, t.owner)
                               ELSE refs[k]]
    /\ alloc' = [alloc EXCEPT ![t.dst] =
                    [status |-> "ACTIVE", owner |-> alloc[t.dst].owner, token |-> NoClient,
                     live |-> FALSE, version |-> t.dstVersion + 1]]
    /\ tx' = [tx EXCEPT ![c] = Idle]

-----------------------------------------------------------------------------
(* addActiveGlobalPortOwningReference and attachGlobalPortTargetAlias.     *)
(* An identical reference leaves everything unchanged.                     *)

\* Mutant: anybody may add an owning reference to an active row.
BeginAddAnyOwner(c, p, o, k) ==
    /\ alloc[p].status = "ACTIVE"
    /\ refs[k] = NoRef
    /\ tx' = [tx EXCEPT ![c] = [Idle EXCEPT !.op = "add", !.owner = o, !.dst = p,
                                !.dstVersion = alloc[p].version, !.put = {k}]]
    /\ UNCHANGED <<alloc, refs>>

BeginAdd(c, p, o, k) ==
    /\ alloc[p].status = "ACTIVE"
    /\ alloc[p].owner = o
    /\ refs[k] = NoRef
    /\ tx' = [tx EXCEPT ![c] = [Idle EXCEPT !.op = "add", !.owner = o, !.dst = p,
                                !.dstVersion = alloc[p].version, !.put = {k}]]
    /\ UNCHANGED <<alloc, refs>>

\* acquireGlobalPortOwningReference for a reference that does not exist yet.
Acquire(c, p, k) ==
    /\ tx[c].op = "idle"
    /\ refs[k] = NoRef
    /\ \/ BeginAdd(c, p, k.res, k)
       \/ alloc[p].status # "ACTIVE" /\ BeginReserve(c, p, k.res)

\* The quick config k.res points at the inbound that owns p.
BeginAlias(c, p, k) ==
    /\ tx[c].op = "idle"
    /\ alloc[p].status = "ACTIVE"
    /\ alloc[p].owner \in XrayInbounds
    /\ k.res \in QuickConfigs
    /\ k.role \in {"TARGET", "PUBLIC_LISTENER"}
    /\ \E x \in Keys : IsOwnersRef(x, p)
    /\ refs[k] = NoRef
    /\ tx' = [tx EXCEPT ![c] = [Idle EXCEPT !.op = "alias", !.owner = k.res, !.dst = p,
                                !.dstVersion = alloc[p].version, !.put = {k}]]
    /\ UNCHANGED <<alloc, refs>>

\* Mutant: an alias is written as an owning reference.
CommitAddOwning(c) ==
    LET t == tx[c] IN
    /\ t.op \in {"add", "alias"}
    /\ alloc[t.dst].version = t.dstVersion
    /\ alloc[t.dst].status = "ACTIVE"
    /\ t.dstVersion + 1 < MaxVersion
    /\ \A k \in t.put : refs[k] = NoRef
    /\ refs' = [k \in Keys |-> IF k \in t.put THEN OwningRef(t.dst, t.owner) ELSE refs[k]]
    /\ alloc' = [alloc EXCEPT ![t.dst] = Bumped(t.dst, 1)]
    /\ tx' = [tx EXCEPT ![c] = Idle]

CommitAdd(c) ==
    LET t == tx[c] IN
    /\ t.op \in {"add", "alias"}
    /\ alloc[t.dst].version = t.dstVersion
    /\ alloc[t.dst].status = "ACTIVE"
    /\ t.dstVersion + 1 < MaxVersion
    /\ \A k \in t.put : refs[k] = NoRef
    /\ refs' = [k \in Keys |->
                  IF k \in t.put
                  THEN [OwningRef(t.dst, t.owner) EXCEPT !.owning = (t.op = "add")]
                  ELSE refs[k]]
    /\ alloc' = [alloc EXCEPT ![t.dst] = Bumped(t.dst, 1)]
    /\ tx' = [tx EXCEPT ![c] = Idle]

-----------------------------------------------------------------------------
(* beginGlobalPortReferenceRelease, confirmGlobalPortReferenceReleased and *)
(* releaseGlobalPortReferenceAfterRuntimeCleanup (both in one transaction). *)

\* Mutant: the owner's last reference may go while aliases remain.
MayReleaseAny(k) ==
    LET p == refs[k].port IN p # NoPort /\ alloc[p].status = "ACTIVE"

\* The references that would remain still contain one of the primary owner.
MayRelease(k) ==
    LET p == refs[k].port
        others == RefsOf(p) \ {k}
    IN  /\ p # NoPort
        /\ alloc[p].status = "ACTIVE"
        /\ others = {} \/ \E x \in others : IsOwnersRef(x, p)

BeginRelease(c, op, k) ==
    LET p == refs[k].port IN
    /\ tx[c].op = "idle"
    /\ op \in {"release", "cleanup"}
    /\ MayRelease(k)
    /\ tx' = [tx EXCEPT ![c] = [Idle EXCEPT !.op = op, !.drop = k, !.src = p,
                                !.srcVersion = alloc[p].version,
                                !.last = (RefsOf(p) = {k})]]
    /\ UNCHANGED <<alloc, refs>>

\* The last reference stays in place while the row is RELEASING.
CommitRelease(c) ==
    LET t == tx[c]
        keep == t.last /\ t.op = "release"
        row == CASE ~t.last -> Bumped(t.src, 1)
                 [] keep -> [Bumped(t.src, 1) EXCEPT !.status = "RELEASING"]
                 [] OTHER -> Retired(t.src, 2)
    IN
    /\ t.op \in {"release", "cleanup"}
    /\ alloc[t.src].version = t.srcVersion
    /\ alloc[t.src].status = "ACTIVE"
    /\ row.version < MaxVersion
    /\ alloc' = [alloc EXCEPT ![t.src] = row]
    /\ refs' = IF keep THEN refs ELSE [refs EXCEPT ![t.drop] = NoRef]
    /\ tx' = [tx EXCEPT ![c] = Idle]

BeginConfirm(c, k) ==
    LET p == refs[k].port IN
    /\ tx[c].op = "idle"
    /\ p # NoPort
    /\ alloc[p].status = "RELEASING"
    /\ RefsOf(p) = {k}
    /\ tx' = [tx EXCEPT ![c] = [Idle EXCEPT !.op = "confirm", !.drop = k, !.src = p,
                                !.srcVersion = alloc[p].version, !.last = TRUE]]
    /\ UNCHANGED <<alloc, refs>>

CommitConfirm(c) ==
    LET t == tx[c] IN
    /\ t.op = "confirm"
    /\ alloc[t.src].version = t.srcVersion
    /\ alloc[t.src].status = "RELEASING"
    /\ t.srcVersion + 1 < MaxVersion
    /\ alloc' = [alloc EXCEPT ![t.src] = Retired(t.src, 1)]
    /\ refs' = [refs EXCEPT ![t.drop] = NoRef]
    /\ tx' = [tx EXCEPT ![c] = Idle]

-----------------------------------------------------------------------------
(* promoteStagedGlobalPortOwningReference: in one transaction the public   *)
(* reference pub leaves its row, nxt is added to the row of the staged     *)
(* reference stg, and stg is released.                                     *)
(* promoteOrphanedStagedGlobalPortOwningReference ("adopt") is the same    *)
(* without pub, which another host's snapshot has already released.        *)

PublicRoles == {"PUBLIC_LISTENER", "MIMIC"}

Promotable(nxt, stg) ==
    LET p == refs[stg].port IN
    /\ nxt.role \in PublicRoles
    /\ stg.role = "OWNERSHIP"
    /\ nxt.res = stg.res
    /\ nxt.host = stg.host
    /\ p # NoPort
    /\ alloc[p].status = "ACTIVE"
    /\ alloc[p].owner = stg.res
    /\ refs[stg].owner = stg.res

BeginPromote(c, pub, nxt, stg) ==
    LET p == refs[pub].port
        q == refs[stg].port
    IN
    /\ tx[c].op = "idle"
    /\ pub.role = nxt.role
    /\ pub.res = stg.res
    /\ Promotable(nxt, stg)
    /\ MayRelease(pub)
    /\ alloc[p].owner = stg.res
    /\ refs[pub].owner = stg.res
    /\ nxt = pub \/ Insertable(nxt, OwningRef(q, stg.res))
    /\ tx' = [tx EXCEPT ![c] =
                [op |-> "promote", owner |-> stg.res,
                 src |-> p, srcVersion |-> alloc[p].version,
                 drop |-> pub, last |-> (RefsOf(p) = {pub}),
                 dst |-> q, dstVersion |-> alloc[q].version,
                 put |-> IF nxt # pub /\ refs[nxt] # NoRef THEN {} ELSE {nxt},
                 staged |-> stg]]
    /\ UNCHANGED <<alloc, refs>>

\* No public reference of the same listener slot exists anywhere.
BeginAdopt(c, nxt, stg) ==
    LET q == refs[stg].port IN
    /\ tx[c].op = "idle"
    /\ Promotable(nxt, stg)
    /\ \A k \in Keys : (k.res = nxt.res /\ k.role = nxt.role /\ k.slot = nxt.slot)
                          => refs[k] = NoRef
    /\ tx' = [tx EXCEPT ![c] =
                [Idle EXCEPT !.op = "adopt", !.owner = stg.res, !.dst = q,
                             !.dstVersion = alloc[q].version,
                             !.put = {nxt}, !.staged = stg]]
    /\ UNCHANGED <<alloc, refs>>

\* Each inserted or released reference adds one to the version of its row.
CommitPromote(c) ==
    LET t == tx[c]
        added == IF t.put = {} THEN 1 ELSE 2
        moved == t.op = "promote" /\ t.src # t.dst
        dstRow == Bumped(t.dst, IF t.op = "promote" /\ ~moved THEN added + 1 ELSE added)
        srcRow == IF t.last THEN Retired(t.src, 2) ELSE Bumped(t.src, 1)
    IN
    /\ t.op \in {"promote", "adopt"}
    /\ alloc[t.dst].version = t.dstVersion
    /\ alloc[t.dst].status = "ACTIVE"
    /\ dstRow.version < MaxVersion
    /\ t.op = "promote" => /\ alloc[t.src].version = t.srcVersion
                           /\ alloc[t.src].status = "ACTIVE"
    /\ moved => srcRow.version < MaxVersion
    /\ \A k \in t.put : k = t.drop \/ refs[k] = NoRef
    /\ alloc' = [p \in Ports |-> CASE p = t.dst -> dstRow
                                   [] moved /\ p = t.src -> srcRow
                                   [] OTHER -> alloc[p]]
    /\ refs' = [k \in Keys |-> CASE k \in t.put -> OwningRef(t.dst, t.owner)
                                 [] k \in {t.drop, t.staged} \ t.put -> NoRef
                                 [] OTHER -> refs[k]]
    /\ tx' = [tx EXCEPT ![c] = Idle]

-----------------------------------------------------------------------------

\* A conflict, a failed WHERE clause, a deadlock victim or a crashed panel:
\* the transaction is rolled back, and a reservation loses its client.
Rollback(c) ==
    /\ tx[c].op # "idle"
    /\ tx' = [tx EXCEPT ![c] = Idle]
    /\ UNCHANGED <<alloc, refs>>

\* recoverExpiredGlobalPortReservations: one UPDATE over all such rows.
RecoverExpired ==
    LET E == {p \in Ports : /\ alloc[p].status = "RESERVED"
                            /\ ~alloc[p].live
                            /\ alloc[p].version < MaxVersion
                            /\ RefsOf(p) = {}}
    IN
    /\ E # {}
    /\ alloc' = [p \in Ports |-> IF p \in E THEN Retired(p, 1) ELSE alloc[p]]
    /\ UNCHANGED <<refs, tx>>

\* The row a reclaim scan writes (module GlobalPortReclaim has its protocol).
Verdict(p, s) ==
    /\ alloc[p].status \in Reclaimable
    /\ s \in {"FREE", "EXTERNAL_OCCUPIED", alloc[p].status}
    /\ alloc[p].version + 1 < MaxVersion
    /\ alloc' = [alloc EXCEPT ![p] = [Bumped(p, 1) EXCEPT !.status = s]]
    /\ UNCHANGED <<refs, tx>>

Next ==
    \/ \E c \in Clients :
          \/ \E p \in Ports, o \in Owners : BeginReserve(c, p, o)
          \/ CommitReserve(c)
          \/ \E K \in SUBSET Keys : BeginActivate(c, K)
          \/ CommitActivate(c)
          \/ \E p \in Ports, k \in Keys : Acquire(c, p, k) \/ BeginAlias(c, p, k)
          \/ CommitAdd(c)
          \/ \E k \in Keys, op \in {"release", "cleanup"} : BeginRelease(c, op, k)
          \/ CommitRelease(c)
          \/ \E k \in Keys : BeginConfirm(c, k)
          \/ CommitConfirm(c)
          \/ \E pub, nxt, stg \in Keys : BeginPromote(c, pub, nxt, stg)
          \/ \E nxt, stg \in Keys : BeginAdopt(c, nxt, stg)
          \/ CommitPromote(c)
          \/ Rollback(c)
    \/ \E p \in Ports : Expire(p)
    \/ RecoverExpired
    \/ \E p \in Ports, s \in Statuses : Verdict(p, s)

Spec == Init /\ [][Next]_vars
-----------------------------------------------------------------------------
(* Properties.                                                             *)

TypeOK ==
    /\ alloc \in [Ports -> Row]
    /\ refs \in [Keys -> Ref]
    /\ tx \in [Clients -> Tx]

\* allocationDto refuses (GLOBAL_PORT_INVALID) a row whose owner or whose
\* reservation does not fit its status.  No interleaving of transactions
\* leaves such a row behind, which nothing could release any more.
RowDecodes ==
    \A p \in Ports :
        /\ alloc[p].status \in Owned <=> alloc[p].owner # NoOwner
        /\ alloc[p].status = "RESERVED" <=> alloc[p].token # NoClient

\* A reference always points at a row somebody owns (never at one that a new
\* owner may reserve), and the owning references of a row all belong to its
\* primary owner: insertReference writes owner tags and the status is checked
\* only in the UPDATE that follows.
ReferencesCovered ==
    \A k \in Keys : refs[k].port # NoPort =>
        /\ alloc[refs[k].port].status \in {"ACTIVE", "RELEASING"}
        /\ refs[k].owning => refs[k].owner = alloc[refs[k].port].owner

\* An ACTIVE row is held by an owning reference of its primary owner, however
\* releases and promotions of its references race, and a RELEASING row is down
\* to one owning reference, so the runtime clean-up can always confirm it.
OwnerHoldsRow ==
    \A p \in Ports :
        /\ alloc[p].status = "ACTIVE" => \E k \in Keys : IsOwnersRef(k, p)
        /\ alloc[p].status = "RELEASING" =>
              \E k \in Keys : RefsOf(p) = {k} /\ IsOwnersRef(k, p)

\* What the version stands for: as long as the row a transaction read keeps
\* its version, the references it read are still the references of the row
\* and its decision (is this the last one, may it go) is still right.
DecisionsHold ==
    \A c \in Clients :
        LET t == tx[c] IN
        /\ (t.op \in {"release", "cleanup", "promote"} /\ alloc[t.src].version = t.srcVersion)
              => /\ refs[t.drop].port = t.src
                 /\ MayRelease(t.drop)
                 /\ t.last <=> RefsOf(t.src) = {t.drop}
        /\ (t.op = "confirm" /\ alloc[t.src].version = t.srcVersion)
              => RefsOf(t.src) = {t.drop}
        /\ (t.op \in {"promote", "adopt"} /\ alloc[t.dst].version = t.dstVersion)
              => IsOwnersRef(t.staged, t.dst)
        /\ (t.op \in {"activate", "add"} /\ alloc[t.dst].version = t.dstVersion)
              => alloc[t.dst].owner = t.owner

\* A step that changes the status, the owner or the references of a row also
\* raises its version, so a transaction that read the row before loses.
Facts(p) == <<alloc[p].status, alloc[p].owner, alloc[p].token,
              [k \in RefsOf(p) |-> refs[k]]>>

VersionGuardsFacts ==
    [][\A p \in Ports : /\ alloc'[p].version >= alloc[p].version
                        /\ Facts(p)' # Facts(p) => alloc'[p].version > alloc[p].version]_vars

holder == [p \in Ports |-> CASE alloc[p].status \in {"NONE", "FREE"} -> Available
                             [] alloc[p].status \in Owned -> alloc[p].owner
                             [] OTHER -> Quarantined]

Ownership == INSTANCE PortOwnership
    WITH Ports <- Ports, Owners <- Owners, Available <- Available,
         Quarantined <- Quarantined, holder <- holder

\* The ledger implements exclusive port ownership with a quarantine between
\* two owners, whatever transactions are open when it changes.
ImplementsOwnership == Ownership!Spec
=============================================================================
