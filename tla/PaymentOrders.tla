---------------------------- MODULE PaymentOrders ----------------------------
(***************************************************************************)
(* The payment orders of one user (server/payment.ts and its part of       *)
(* server/repositories/billingRepository.ts): provider callbacks, the      *)
(* scheduler's maintenance and the expiry of orders, until the balance or  *)
(* the subscription that was paid for is granted.                          *)
(*                                                                         *)
(* A worker is a request or the maintenance task of a panel instance.  It  *)
(* may stop at every await, and an instance may die at any time.  Each     *)
(* UPDATE with its WHERE clause is one step; the transaction that grants   *)
(* is two, since another instance may commit between its read and its      *)
(* commit.                                                                 *)
(***************************************************************************)
EXTENDS Naturals, Sequences, FiniteSets

CONSTANTS
    Orders,       \* order numbers
    Row,          \* Row[o]: the row o is recorded in as its paymentOrderNo: a
                  \* balance transaction or a new subscription of its own, or
                  \* the subscription it renews
    Discounted,   \* the orders with the discount code
    Legacy,       \* the orders that may be pending from before codes were
                  \* consumed on creation
    MaxUses,      \* maxUses of the discount code (a code with a limit)
    Instances,    \* panel instances
    Workers,      \* requests and tasks in progress
    Maintenance,  \* the workers that run the payment maintenance
    Home,         \* Home[w]: the instance of worker w
    MaxEvents,    \* bound on callbacks the provider repeats without need,
                  \* grants that throw, instances that die and purchases
                  \* with the balance that use the code
    None

ASSUME PaymentAssumption ==
    /\ Discounted \subseteq Orders /\ Legacy \subseteq Orders
    /\ Maintenance \subseteq Workers
    /\ Home \in [Workers -> Instances]
    /\ MaxUses \in Nat \ {0} /\ MaxEvents \in Nat
    /\ None \notin Orders \cup Instances

VARIABLES
    order,   \* order[o]: status, consumed (discountConsumed), late (expiresAt
             \* has passed), old (updatedAt is PROCESSING_STALE_MS ago), and as
             \* history overtaken (a claim was given up whose owner is alive)
    tag,     \* tag[r]: the paymentOrderNo of row r
    used,    \* usedCount of the discount code
    grants,  \* history: how often an order has been granted, and by which
             \* instance the last time
    worker,  \* what each worker does
    queue,   \* queue[i]: who holds and who waits for the user's lock
    unheard, \* the orders the provider has reported and nobody has acknowledged
    events,  \* events left
    bought   \* purchases with the balance that used the code

vars == <<order, tag, used, grants, worker, queue, unheard, events, bought>>

Closed == {"expired", "failed"}
Statuses == {"none", "pending", "paid", "processing", "completed"} \cup Closed

NoOrder == [status |-> "none", consumed |-> FALSE, late |-> FALSE, old |-> FALSE,
            overtaken |-> FALSE]
Pending(consumed) == [NoOrder EXCEPT !.status = "pending", !.consumed = consumed]
Ungranted == [n |-> 0, by |-> None]
Idle == [pc |-> "idle", order |-> None, good |-> FALSE, seen |-> FALSE, consumed |-> FALSE]

Rows == {Row[o] : o \in Orders}

Init ==
    /\ \E old \in SUBSET Legacy :
         order = [o \in Orders |-> IF o \in old THEN Pending(FALSE) ELSE NoOrder]
    /\ tag = [r \in Rows |-> None]
    /\ used = 0
    /\ grants = [o \in Orders |-> Ungranted]
    /\ worker = [w \in Workers |-> Idle]
    /\ queue = [i \in Instances |-> <<>>]
    /\ unheard = {}
    /\ events = MaxEvents
    /\ bought = 0

Event == events > 0 /\ events' = events - 1

-----------------------------------------------------------------------------
(* Orders come and expire.                                                 *)

\* createOrder: the code is consumed and the order inserted in one transaction.
CreateOrder(o) ==
    /\ order[o].status = "none"
    /\ o \in Discounted => used < MaxUses
    /\ order' = [order EXCEPT ![o] = Pending(o \in Discounted)]
    /\ used' = IF o \in Discounted THEN used + 1 ELSE used
    /\ UNCHANGED <<tag, grants, worker, queue, unheard, events, bought>>

\* The order after closePaymentOrderAndReleaseDiscount, with the row locked:
\* only a pending order is closed.
Closing(o, status) ==
    IF order[o].status = "pending"
    THEN [order[o] EXCEPT !.status = status, !.consumed = FALSE]
    ELSE order[o]

\* Mutant: the use of the code is not given back.
KeepUse(o) == used

\* Mutant: whether the order holds a use is not asked.
ReleaseAlways(o) == IF order[o].status = "pending" THEN used - 1 ELSE used

\* releaseDiscountCode, for a pending order that holds a use of the code.
Release(o) ==
    IF order[o].status = "pending" /\ order[o].consumed /\ used > 0 THEN used - 1 ELSE used

\* The provider refuses the order, or reports that it failed or expired, or
\* expireStalePendingOrders meets it.
CloseOrder(o) ==
    /\ order[o].status = "pending"
    /\ \E status \in Closed : order' = [order EXCEPT ![o] = Closing(o, status)]
    /\ used' = Release(o)
    /\ UNCHANGED <<tag, grants, worker, queue, unheard, events, bought>>

\* purchasePlanWithBalance, of any user, with the discount code: a transaction
\* without an order.  A subscription it renews keeps its paymentOrderNo.
PurchaseWithBalance ==
    /\ Event
    /\ used < MaxUses
    /\ used' = used + 1
    /\ bought' = bought + 1
    /\ UNCHANGED <<order, tag, grants, worker, queue, unheard>>

\* The clock passes expiresAt, or the tenth minute of an order in processing.
TimePasses(o) ==
    /\ \/ order[o].status = "pending" /\ ~order[o].late
          /\ order' = [order EXCEPT ![o].late = TRUE]
       \/ order[o].status = "processing" /\ ~order[o].old
          /\ order' = [order EXCEPT ![o].old = TRUE]
    /\ UNCHANGED <<tag, used, grants, worker, queue, unheard, events, bought>>

-----------------------------------------------------------------------------
(* processPaidNotification.                                                *)

Goto(w, pc) == worker' = [worker EXCEPT ![w].pc = pc] /\ UNCHANGED unheard

\* The request or the task ends with an error: the provider hears of none.
Throw(w) == worker' = [worker EXCEPT ![w] = Idle] /\ UNCHANGED unheard

\* It returns, and the callback is acknowledged.
Finish(w) ==
    /\ worker' = [worker EXCEPT ![w] = Idle]
    /\ unheard' = IF worker[w].good THEN unheard \ {worker[w].order} ELSE unheard

\* The provider calls for the first time, or again since its last call failed.
Due(o) == order[o].status = "pending" \/ o \in unheard

InCallback(o) == \E w \in Workers \ Maintenance : worker[w].order = o

\* A callback with a valid signature arrives and reads the order; good: amount,
\* currency and provider are those of the order.  One for a settled order
\* changes nothing.
Notify(w, o, good) ==
    LET s == order[o].status IN
    /\ worker[w].pc = "idle" /\ w \notin Maintenance
    /\ \/ Due(o) /\ ~InCallback(o) /\ UNCHANGED events
       \/ Event
    /\ s \in {"pending", "paid", "processing"}
    /\ unheard' = IF good THEN unheard \cup {o} ELSE unheard
    /\ worker' = [worker EXCEPT ![w] =
                    [Idle EXCEPT !.order = o, !.good = good,
                                 !.pc = IF s = "processing" THEN "claim"
                                        ELSE IF s = "pending" /\ order[o].late THEN "expire"
                                        ELSE IF good THEN "mark" ELSE "reject"]]
    /\ UNCHANGED <<order, tag, used, grants, queue, bought>>

\* The callback came too late.
ExpireNotified(w) ==
    LET o == worker[w].order IN
    /\ worker[w].pc = "expire"
    /\ order' = [order EXCEPT ![o] = Closing(o, "expired")]
    /\ used' = Release(o)
    /\ Finish(w)
    /\ UNCHANGED <<tag, grants, queue, events, bought>>

\* It does not match the order; its tradeNo is kept, which refreshes updatedAt.
RejectNotified(w) ==
    LET o == worker[w].order IN
    /\ worker[w].pc = "reject"
    /\ order' = [order EXCEPT ![o] = [Closing(o, "failed") EXCEPT !.old = FALSE]]
    /\ used' = Release(o)
    /\ Finish(w)
    /\ UNCHANGED <<tag, grants, queue, events, bought>>

\* Mutant: whatever is not settled becomes paid.
MarkPaidAny(w) ==
    LET o == worker[w].order IN
    /\ worker[w].pc = "mark"
    /\ order' = [order EXCEPT ![o].status = IF @ \in {"processing", "completed"} THEN @ ELSE "paid",
                              ![o].old = FALSE]
    /\ IF order'[o].status = "paid" THEN Goto(w, "claim") ELSE Finish(w)
    /\ UNCHANGED <<tag, used, grants, queue, events, bought>>

\* markPaymentOrderPaid: only a pending order; a repeated callback still
\* refreshes updatedAt, and goes on if nobody has claimed the order.
MarkPaid(w) ==
    LET o == worker[w].order IN
    /\ worker[w].pc = "mark"
    /\ order' = [order EXCEPT ![o].status = IF @ = "pending" THEN "paid" ELSE @,
                              ![o].old = FALSE]
    /\ IF order'[o].status = "paid" THEN Goto(w, "claim") ELSE Finish(w)
    /\ UNCHANGED <<tag, used, grants, queue, events, bought>>

-----------------------------------------------------------------------------
(* finalizePaidOrder.                                                      *)

\* claimPaidPaymentOrder.  The claimed order is read once and goes to the end
\* of the queue for the user's lock; a failed claim looks for a stale one.
Claim(w) ==
    LET o == worker[w].order
        i == Home[w]
    IN
    /\ worker[w].pc \in {"claim", "reclaim"}
    /\ IF order[o].status = "paid"
       THEN /\ order' = [order EXCEPT ![o].status = "processing", ![o].old = FALSE]
            /\ worker' = [worker EXCEPT ![w].pc = "wait", ![w].consumed = order[o].consumed]
            /\ queue' = [queue EXCEPT ![i] = Append(@, w)]
            /\ UNCHANGED unheard
       ELSE /\ IF worker[w].pc = "claim" /\ order[o].status = "processing"
               THEN Goto(w, "reset") ELSE Finish(w)
            /\ UNCHANGED <<order, queue>>
    /\ UNCHANGED <<tag, used, grants, events, bought>>

\* Mutant: the maintenance looks for stale orders in paid.
IsStalePaid(o) == order[o].status = "paid" /\ order[o].old

IsStale(o) == order[o].status = "processing" /\ order[o].old

\* w works on the claimed order o.
Finalizes(w, o) == worker[w].order = o /\ worker[w].pc \in {"wait", "grant"}

\* resetStaleProcessingPaymentOrder.
Reset(o) ==
    order' = [order EXCEPT ![o].status = "paid", ![o].old = FALSE,
                           ![o].overtaken = @ \/ \E w \in Workers : Finalizes(w, o)]

ResetStale(w) ==
    LET o == worker[w].order IN
    /\ worker[w].pc = "reset"
    /\ IF IsStale(o) THEN Reset(o) /\ Goto(w, "reclaim")
                     ELSE Finish(w) /\ UNCHANGED order
    /\ UNCHANGED <<tag, used, grants, queue, events, bought>>

\* recoverStaleProcessingPaymentOrders: the maintenance does one at a time.
Recover(w, o) ==
    /\ w \in Maintenance
    /\ worker[w].pc = "idle"
    /\ IsStale(o)
    /\ Reset(o)
    /\ worker' = [worker EXCEPT ![w] = [Idle EXCEPT !.pc = "claim", !.order = o]]
    /\ UNCHANGED <<tag, used, grants, queue, unheard, events, bought>>

HoldsLock(w) == queue[Home[w]] # <<>> /\ Head(queue[Home[w]]) = w

Unlock(w) == queue' = [queue EXCEPT ![Home[w]] = Tail(@)]

\* Mutant: nobody looks whether the order has been granted.
BeginGrantBlind(w) ==
    /\ worker[w].pc = "wait"
    /\ HoldsLock(w)
    /\ worker' = [worker EXCEPT ![w].pc = "grant", ![w].seen = FALSE]
    /\ UNCHANGED <<order, tag, used, grants, queue, unheard, events, bought>>

\* The transaction begins: is there a row with this order's number?
BeginGrant(w) ==
    LET o == worker[w].order IN
    /\ worker[w].pc = "wait"
    /\ HoldsLock(w)
    /\ worker' = [worker EXCEPT ![w].pc = "grant", ![w].seen = (tag[Row[o]] = o)]
    /\ UNCHANGED <<order, tag, used, grants, queue, unheard, events, bought>>

\* The history of a grant, by the instance i.
Counted(o, i) == [grants EXCEPT ![o] = [n |-> @.n + 1, by |-> i]]

\* Mutant: the order is completed in a later statement of its own.
CommitGrantOnly(w) ==
    LET o == worker[w].order IN
    /\ worker[w].pc = "grant"
    /\ tag' = [tag EXCEPT ![Row[o]] = o]
    /\ grants' = IF worker[w].seen THEN grants ELSE Counted(o, Home[w])
    /\ Finish(w) /\ Unlock(w)
    /\ UNCHANGED <<order, used, events, bought>>

\* The code is still to be consumed, going by the order as it was claimed.
Unconsumed(w) == worker[w].order \in Discounted /\ ~worker[w].consumed

\* applySubscriptionToUser or addUserBalance: the row that is inserted or
\* renewed takes the order's number.
Granted(o) == [tag EXCEPT ![Row[o]] = o]

\* It commits: the code is consumed, the row is written and the order is
\* completed.
CommitGrant(w) ==
    LET o == worker[w].order IN
    /\ worker[w].pc = "grant"
    /\ Unconsumed(w) => used < MaxUses
    /\ used' = IF Unconsumed(w) THEN used + 1 ELSE used
    /\ tag' = IF worker[w].seen THEN tag ELSE Granted(o)
    /\ grants' = IF worker[w].seen THEN grants ELSE Counted(o, Home[w])
    /\ order' = [order EXCEPT ![o].status = "completed",
                              ![o].consumed = @ \/ Unconsumed(w), ![o].old = FALSE]
    /\ Finish(w) /\ Unlock(w)
    /\ UNCHANGED <<events, bought>>

\* It throws and is rolled back, since the code is used up or for another
\* reason (no ports, a plan that is off); the order stays as it is.
FailGrant(w) ==
    /\ worker[w].pc = "grant"
    /\ \/ Unconsumed(w) /\ used >= MaxUses /\ UNCHANGED events
       \/ Event
    /\ Throw(w) /\ Unlock(w)
    /\ UNCHANGED <<order, tag, used, grants, bought>>

\* A panel instance dies with its requests, tasks and locks.
Crash(i) ==
    /\ Event
    /\ worker' = [w \in Workers |-> IF Home[w] = i THEN Idle ELSE worker[w]]
    /\ queue' = [queue EXCEPT ![i] = <<>>]
    /\ UNCHANGED <<order, tag, used, grants, unheard, bought>>

WorkerStep(w) ==
    \/ ExpireNotified(w)
    \/ RejectNotified(w)
    \/ MarkPaid(w)
    \/ Claim(w)
    \/ ResetStale(w)
    \/ BeginGrant(w)
    \/ CommitGrant(w)
    \/ FailGrant(w)

Next ==
    \/ \E o \in Orders : CreateOrder(o) \/ CloseOrder(o) \/ TimePasses(o)
    \/ \E w \in Workers : WorkerStep(w)
    \/ \E w \in Workers, o \in Orders : Recover(w, o) \/ \E good \in BOOLEAN : Notify(w, o, good)
    \/ \E i \in Instances : Crash(i)
    \/ PurchaseWithBalance

\* The provider repeats a callback that was not acknowledged.
Repeat(o) == o \in unheard /\ \E w \in Workers : Notify(w, o, TRUE)

\* Requests go on, time passes, the scheduler keeps running the maintenance and
\* the provider does not give up, though each may take its time over any one
\* order.
Fairness ==
    /\ \A w \in Workers : WF_vars(WorkerStep(w))
    /\ WF_vars(\E o \in Orders : TimePasses(o))
    /\ SF_vars(\E w \in Workers, o \in Orders : Recover(w, o))
    /\ SF_vars(\E o \in Orders : Repeat(o))

Spec == Init /\ [][Next]_vars /\ Fairness

-----------------------------------------------------------------------------
(* Properties.                                                             *)

WorkerStates == [pc: {"idle", "expire", "reject", "mark", "claim", "reset", "reclaim", "wait", "grant"},
                 order: Orders \cup {None}, good: BOOLEAN, seen: BOOLEAN, consumed: BOOLEAN]

TypeOK ==
    /\ order \in [Orders -> [status: Statuses, consumed: BOOLEAN, late: BOOLEAN, old: BOOLEAN,
                             overtaken: BOOLEAN]]
    /\ tag \in [Rows -> Orders \cup {None}]
    /\ used \in Nat
    /\ grants \in [Orders -> [n: Nat, by: Instances \cup {None}]]
    /\ worker \in [Workers -> WorkerStates]
    /\ queue \in [Instances -> Seq(Workers)]
    /\ unheard \subseteq Orders
    /\ events \in 0 .. MaxEvents
    /\ bought \in Nat

\* Repeated callbacks, callbacks that race with the maintenance and a claim
\* that was given up and still goes through: an order is granted a second time
\* only if its claim was taken for dead while the owner was alive, and then
\* only if the number in its row had been overwritten by another renewal of the
\* subscription, or the grant before came from another instance.
GrantedOnceUnlessOvertaken ==
    [][\A o \in Orders :
         grants'[o] # grants[o] /\ grants[o].n > 0 =>
            /\ order[o].overtaken
            /\ tag[Row[o]] # o \/ grants[o].by # grants'[o].by]_vars

\* An order says completed exactly when it has been granted, at every moment.
CompletedMeansGranted == \A o \in Orders : order[o].status = "completed" <=> grants[o].n > 0

\* An order that was completed, expired or failed stays so: no late callback
\* and no recovery opens it again.
SettledStaysSettled ==
    [][\A o \in Orders : order[o].status \in Closed \cup {"completed"} =>
                            order'[o].status = order[o].status]_vars

\* The orders that hold a use of the discount code: spent by a granted one,
\* reserved by an open one.  PAYMENT_CN.md says a code is consumed only after
\* the grant; createOrder charges it at once and a closed order gives it back.
Users == {o \in Orders : order[o].consumed}

\* usedCount is the number of orders that hold a use of the code and of the
\* purchases with the balance that took one, and never above the limit; a
\* closed order holds none, and one that was granted with the code holds one.
\* Only an order from before codes were consumed on creation may be charged
\* more than once, by two workers that both claimed it before either had
\* consumed the code.
DiscountAccounted ==
    /\ Cardinality(Users) + bought <= used /\ used <= MaxUses
    /\ \/ used = Cardinality(Users) + bought
       \/ \E o \in Legacy \cap Discounted : order[o].status = "completed"
    /\ \A o \in Orders : /\ order[o].status \in Closed => ~order[o].consumed
                         /\ order[o].status = "completed" /\ o \in Discounted => order[o].consumed

\* Nobody is left to move a paid order on, not even the provider.
Stranded(o) ==
    /\ order[o].status = "paid"
    /\ o \notin unheard
    /\ \A w \in Workers : worker[w].order # o

\* A legacy order whose code others have used up: every grant throws.
UsedUp(o) == o \in Discounted /\ ~order[o].consumed /\ used = MaxUses

\* An order whose money has arrived is granted in the end, whatever fails or
\* crashes a bounded number of times, unless it is stranded in paid or its
\* legacy code is used up.
PaidOrderServed ==
    \A o \in Orders : order[o].status \in {"paid", "processing"} ~>
        (order[o].status = "completed" \/ Stranded(o) \/ UsedUp(o))
=============================================================================
