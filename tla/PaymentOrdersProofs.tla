------------------------- MODULE PaymentOrdersProofs -------------------------
(***************************************************************************)
(* Theorems about PaymentOrders, for any number of orders, workers, panel  *)
(* instances, callbacks, failures, crashes and purchases.                  *)
(*                                                                         *)
(* A grant reads whether its order was granted before and commits later.   *)
(* GrantInv says what the read is still worth at the commit: whoever is    *)
(* between the two holds the lock of its instance, and if it has seen the  *)
(* order's number, the order has been granted.  That it has *not* seen the *)
(* number is worth less: OnceInv says that the number is then not there,   *)
(* or the last grant came from another instance, whose lock is another     *)
(* one, and that an order whose claim was never overtaken has one worker.  *)
(* UseInv says the same of the discount code: a worker goes by the order   *)
(* as it was claimed, which is out of date only for an order from before   *)
(* codes were consumed on creation.                                        *)
(***************************************************************************)
EXTENDS PaymentOrders, FiniteSetTheorems, TLAPS

\* The record types of TypeOK.
OrderStates == [status: Statuses, consumed: BOOLEAN, late: BOOLEAN, old: BOOLEAN, overtaken: BOOLEAN]

GrantStates == [n: Nat, by: Instances \cup {None}]

\* The counters of TypeOK.
CountersOK == events \in 0 .. MaxEvents /\ bought \in Nat

\* A worker that is busy has an order.
WorkerOK == \A w \in Workers : worker[w].pc # "idle" => worker[w].order \in Orders

\* Whoever is inside the transaction is first in its instance's queue.
LockOK == \A w \in Workers : worker[w].pc = "grant" => HoldsLock(w)

\* A row that names an order was written by its grant.
TagOK == \A o \in Orders : tag[Row[o]] = o => grants[o].n > 0

\* Who has read the tag of its order commits to one that was granted.
SeenOK == \A w \in Workers :
    (worker[w].pc = "grant" /\ worker[w].seen) => grants[worker[w].order].n > 0

\* The part of the invariant that quiet steps keep for themselves.
GrantInv == TypeOK /\ WorkerOK /\ LockOK /\ TagOK /\ SeenOK /\ CompletedMeansGranted

\* A worker stays where it is or gets to a place outside the transaction.
WorkersKept == \A w \in Workers :
    \/ worker'[w] = worker[w]
    \/ worker'[w].pc # "grant" /\ (worker'[w].pc # "idle" => worker'[w].order \in Orders)

\* A step that grants nothing and completes nothing.
Quiet == /\ UNCHANGED <<tag, grants>>
         /\ \A o \in Orders : (order'[o].status = "completed") <=> (order[o].status = "completed")
         /\ WorkersKept
         /\ LockOK'

\* What a step may do to settled orders.
SettledKept == \A o \in Orders : order[o].status \in Closed \cup {"completed"} =>
                                     order'[o].status = order[o].status

\* A quiet step keeps the invariant.
LEMMA QuietStep ==
  ASSUME GrantInv, TypeOK', Quiet
  PROVE  GrantInv'
  <1>1. WorkerOK'
    BY DEF GrantInv, WorkerOK, Quiet, WorkersKept
  <1>2. TagOK'
    BY DEF GrantInv, TagOK, Quiet
  <1>3. SeenOK'
    BY DEF GrantInv, SeenOK, Quiet, WorkersKept
  <1>4. CompletedMeansGranted'
    BY DEF GrantInv, CompletedMeansGranted, Quiet
  <1> QED BY <1>1, <1>2, <1>3, <1>4 DEF GrantInv, Quiet

\* The queue keeps its heads when nobody leaves it.
LEMMA LockKept ==
  ASSUME GrantInv, WorkersKept, UNCHANGED queue
  PROVE  LockOK'
  BY DEF GrantInv, LockOK, WorkersKept, HoldsLock

\* The invariant holds when the panel starts.
LEMMA InitInv == Init => GrantInv
  <1> SUFFICES ASSUME Init PROVE GrantInv
    OBVIOUS
  <1>1. \A o \in Orders : /\ order[o] \in OrderStates
                          /\ order[o].status # "completed"
    <2>1. NoOrder \in OrderStates /\ NoOrder.status = "none"
      BY DEF NoOrder, OrderStates, Statuses
    <2>2. Pending(FALSE) \in OrderStates /\ Pending(FALSE).status = "pending"
      BY DEF NoOrder, Pending, OrderStates, Statuses
    <2> QED BY <2>1, <2>2 DEF Init
  <1>2. Idle \in WorkerStates /\ Idle.pc = "idle"
    BY DEF Idle, WorkerStates
  <1>3. TypeOK
    <2>1. order \in [Orders -> OrderStates]
      BY <1>1 DEF Init
    <2>2. worker \in [Workers -> WorkerStates]
      BY <1>2 DEF Init
    <2>3. CountersOK
      BY PaymentAssumption DEF Init, CountersOK
    <2>4. tag \in [Rows -> Orders \cup {None}] /\ grants \in [Orders -> GrantStates]
          /\ used \in Nat /\ unheard \subseteq Orders /\ queue \in [Instances -> Seq(Workers)]
      BY DEF Init, Ungranted, GrantStates
    <2> QED BY <2>1, <2>2, <2>3, <2>4 DEF TypeOK, OrderStates, GrantStates, CountersOK
  <1>4. WorkerOK /\ LockOK /\ SeenOK
    BY <1>2 DEF Init, WorkerOK, LockOK, SeenOK
  <1>5. TagOK
    BY PaymentAssumption DEF Init, TagOK, Rows
  <1>6. CompletedMeansGranted
    <2>1. \A o \in Orders : ~(grants[o].n > 0)
      BY DEF Init, Ungranted
    <2> QED BY <1>1, <2>1 DEF CompletedMeansGranted
  <1> QED BY <1>3, <1>4, <1>5, <1>6 DEF GrantInv

-----------------------------------------------------------------------------
(* How the helpers of the actions change one component.                    *)

\* One order is written: not completed by it, and not reopened.
LEMMA OrderSet ==
  ASSUME TypeOK, NEW o \in Orders, NEW r \in OrderStates, order' = [order EXCEPT ![o] = r],
         r.status = "completed" <=> order[o].status = "completed",
         order[o].status \in Closed \cup {"completed"} => r.status = order[o].status
  PROVE  /\ order' \in [Orders -> OrderStates]
         /\ \A p \in Orders : (order'[p].status = "completed") <=> (order[p].status = "completed")
         /\ SettledKept
  BY DEF TypeOK, OrderStates, SettledKept

\* No order is written.
LEMMA OrderKept ==
  ASSUME TypeOK, UNCHANGED order
  PROVE  /\ order' \in [Orders -> OrderStates]
         /\ \A p \in Orders : (order'[p].status = "completed") <=> (order[p].status = "completed")
         /\ SettledKept
  BY DEF TypeOK, OrderStates, SettledKept

\* One worker goes to a place outside the transaction.
LEMMA WorkerSet ==
  ASSUME TypeOK, NEW w \in Workers, NEW r \in WorkerStates, worker' = [worker EXCEPT ![w] = r],
         r.pc # "grant", r.pc # "idle" => r.order \in Orders
  PROVE  worker' \in [Workers -> WorkerStates] /\ WorkersKept
  BY DEF TypeOK, WorkersKept

\* What a worker is before it does anything.
LEMMA IdleState == Idle \in WorkerStates /\ Idle.pc = "idle"
  BY DEF Idle, WorkerStates

\* Where a worker can be that is not in the transaction.
Outside == {"expire", "reject", "mark", "claim", "reset", "reclaim", "wait"}

\* A worker that goes on.
LEMMA GotoOK ==
  ASSUME TypeOK, WorkerOK, NEW w \in Workers, NEW pc \in Outside, worker[w].pc # "idle", Goto(w, pc)
  PROVE  worker' \in [Workers -> WorkerStates] /\ WorkersKept /\ unheard' = unheard
  <1>1. worker[w] \in WorkerStates /\ worker[w].order \in Orders
    BY DEF TypeOK, WorkerOK
  <1>2. [worker[w] EXCEPT !.pc = pc] \in WorkerStates
    BY <1>1 DEF WorkerStates, Outside
  <1>3. worker' = [worker EXCEPT ![w] = [worker[w] EXCEPT !.pc = pc]]
    BY DEF Goto
  <1>4. [worker[w] EXCEPT !.pc = pc].pc = pc /\ [worker[w] EXCEPT !.pc = pc].order \in Orders
    BY <1>1 DEF WorkerStates
  <1>5. pc # "grant"
    BY DEF Outside
  <1> QED BY <1>2, <1>3, <1>4, <1>5, WorkerSet DEF Goto

\* A worker that returns or throws.
LEMMA FinishOK ==
  ASSUME TypeOK, NEW w \in Workers, Finish(w) \/ Throw(w)
  PROVE  /\ worker' \in [Workers -> WorkerStates] /\ WorkersKept
         /\ unheard' \subseteq Orders
  <1>1. worker' = [worker EXCEPT ![w] = Idle]
    BY DEF Finish, Throw
  <1>2. worker' \in [Workers -> WorkerStates] /\ WorkersKept
    BY <1>1, IdleState, WorkerSet
  <1>3. unheard' \subseteq Orders
    BY DEF Finish, Throw, TypeOK
  <1> QED BY <1>2, <1>3

\* Quiet steps, put together.
LEMMA CombineQ ==
  ASSUME GrantInv,
         order' \in [Orders -> OrderStates],
         \A p \in Orders : (order'[p].status = "completed") <=> (order[p].status = "completed"),
         worker' \in [Workers -> WorkerStates], WorkersKept,
         used' \in Nat, unheard' \subseteq Orders, CountersOK',
         queue' \in [Instances -> Seq(Workers)], LockOK',
         UNCHANGED <<tag, grants>>
  PROVE  TypeOK' /\ Quiet
  <1>1. TypeOK'
    BY DEF GrantInv, TypeOK, OrderStates, CountersOK
  <1> QED BY <1>1 DEF Quiet

\* Those that leave the queue alone.
LEMMA Combine ==
  ASSUME GrantInv,
         order' \in [Orders -> OrderStates],
         \A p \in Orders : (order'[p].status = "completed") <=> (order[p].status = "completed"),
         worker' \in [Workers -> WorkerStates], WorkersKept,
         used' \in Nat, unheard' \subseteq Orders, CountersOK',
         UNCHANGED <<tag, grants, queue>>
  PROVE  TypeOK' /\ Quiet
  <1>1. LockOK'
    BY LockKept
  <1>2. queue' \in [Instances -> Seq(Workers)]
    BY DEF GrantInv, TypeOK
  <1> QED BY <1>1, <1>2, CombineQ

\* closePaymentOrderAndReleaseDiscount closes pending orders only.
LEMMA CloseFacts ==
  ASSUME TypeOK, NEW o \in Orders, NEW status \in Closed
  PROVE  /\ Closing(o, status) \in OrderStates
         /\ Closing(o, status).status = IF order[o].status = "pending" THEN status ELSE order[o].status
         /\ Release(o) \in Nat
  <1>1. order[o] \in OrderStates /\ status \in Statuses
    BY DEF TypeOK, OrderStates, Statuses
  <1>2. Closing(o, status) \in OrderStates
    BY <1>1 DEF Closing, OrderStates
  <1>3. Closing(o, status).status = IF order[o].status = "pending" THEN status ELSE order[o].status
    BY <1>1 DEF Closing, OrderStates
  <1>4. Release(o) \in Nat
    BY DEF TypeOK, Release
  <1> QED BY <1>2, <1>3, <1>4

-----------------------------------------------------------------------------
(* The actions outside the granting transaction are quiet.                 *)

\* All the components of a state but the three a quiet step may not touch.
LEMMA Keeps ==
  ASSUME GrantInv
  PROVE  /\ UNCHANGED worker => worker' \in [Workers -> WorkerStates] /\ WorkersKept
         /\ UNCHANGED used => used' \in Nat
         /\ UNCHANGED unheard => unheard' \subseteq Orders
         /\ UNCHANGED <<events, bought>> => CountersOK'
  BY DEF GrantInv, TypeOK, WorkersKept, CountersOK

\* One event more.
LEMMA EventOK ==
  ASSUME TypeOK, Event, UNCHANGED bought
  PROVE  CountersOK'
  BY PaymentAssumption DEF TypeOK, Event, CountersOK

\* createOrder inserts a pending order.
LEMMA CreateOrderStep ==
  ASSUME GrantInv, NEW o \in Orders, CreateOrder(o)
  PROVE  TypeOK' /\ Quiet /\ SettledKept
  <1> DEFINE r == Pending(o \in Discounted)
  <1>1. r \in OrderStates /\ r.status = "pending" /\ order[o].status = "none"
    <2>1. ASSUME NEW c \in BOOLEAN PROVE Pending(c) \in OrderStates
      BY DEF NoOrder, Pending, OrderStates, Statuses
    <2>2. (o \in Discounted) \in BOOLEAN
      BY SMT
    <2>3. r \in OrderStates
      BY <2>1, <2>2
    <2>4. r.status = "pending"
      BY DEF NoOrder, Pending
    <2> QED BY <2>3, <2>4 DEF CreateOrder
  <1>2. order' = [order EXCEPT ![o] = r] /\ TypeOK
    BY DEF CreateOrder, GrantInv
  <1> HIDE DEF r
  <1>3. /\ order' \in [Orders -> OrderStates] /\ SettledKept
        /\ \A p \in Orders : (order'[p].status = "completed") <=> (order[p].status = "completed")
    BY <1>1, <1>2, OrderSet DEF Closed
  <1>4. used' \in Nat
    BY DEF CreateOrder, GrantInv, TypeOK
  <1>5. UNCHANGED <<tag, grants, worker, queue, unheard, events, bought>>
    BY DEF CreateOrder
  <1> QED BY <1>3, <1>4, <1>5, Keeps, Combine

\* A pending order is closed.
LEMMA CloseOrderStep ==
  ASSUME GrantInv, NEW o \in Orders, CloseOrder(o)
  PROVE  TypeOK' /\ Quiet /\ SettledKept
  <1>1. PICK status \in Closed : order' = [order EXCEPT ![o] = Closing(o, status)]
    BY DEF CloseOrder
  <1>2. TypeOK /\ order[o].status = "pending" /\ status # "completed"
    BY DEF CloseOrder, GrantInv, Closed
  <1>3. /\ order' \in [Orders -> OrderStates] /\ SettledKept
        /\ \A p \in Orders : (order'[p].status = "completed") <=> (order[p].status = "completed")
    BY <1>1, <1>2, CloseFacts, OrderSet DEF Closed
  <1>4. used' \in Nat
    BY <1>2, CloseFacts DEF CloseOrder
  <1>5. UNCHANGED <<tag, grants, worker, queue, unheard, events, bought>>
    BY DEF CloseOrder
  <1> QED BY <1>3, <1>4, <1>5, Keeps, Combine

\* The clock changes no status.
LEMMA TimePassesStep ==
  ASSUME GrantInv, NEW o \in Orders, TimePasses(o)
  PROVE  TypeOK' /\ Quiet /\ SettledKept
  <1>1. TypeOK /\ order[o] \in OrderStates
    BY DEF GrantInv, TypeOK, OrderStates
  <1>2. PICK r \in OrderStates : order' = [order EXCEPT ![o] = r] /\ r.status = order[o].status
    <2>1. [order[o] EXCEPT !.late = TRUE] \in OrderStates /\ [order[o] EXCEPT !.old = TRUE] \in OrderStates
      BY <1>1 DEF OrderStates
    <2>2. /\ [order[o] EXCEPT !.late = TRUE].status = order[o].status
          /\ [order[o] EXCEPT !.old = TRUE].status = order[o].status
      BY <1>1 DEF OrderStates
    <2>3. \/ order' = [order EXCEPT ![o] = [order[o] EXCEPT !.late = TRUE]]
          \/ order' = [order EXCEPT ![o] = [order[o] EXCEPT !.old = TRUE]]
      BY DEF TimePasses
    <2> QED BY <2>1, <2>2, <2>3
  <1>3. /\ order' \in [Orders -> OrderStates] /\ SettledKept
        /\ \A p \in Orders : (order'[p].status = "completed") <=> (order[p].status = "completed")
    BY <1>1, <1>2, OrderSet
  <1>4. UNCHANGED <<tag, used, grants, worker, queue, unheard, events, bought>>
    BY DEF TimePasses
  <1> QED BY <1>3, <1>4, Keeps, Combine

\* A callback arrives.
LEMMA NotifyStep ==
  ASSUME GrantInv, NEW w \in Workers, NEW o \in Orders, NEW good \in BOOLEAN, Notify(w, o, good)
  PROVE  TypeOK' /\ Quiet /\ SettledKept
  <1>1. TypeOK
    BY DEF GrantInv
  <1>2. PICK pc \in Outside :
          worker' = [worker EXCEPT ![w] = [Idle EXCEPT !.order = o, !.good = good, !.pc = pc]]
    BY DEF Notify, Outside
  <1>3. /\ [Idle EXCEPT !.order = o, !.good = good, !.pc = pc] \in WorkerStates
        /\ [Idle EXCEPT !.order = o, !.good = good, !.pc = pc].pc # "grant"
        /\ [Idle EXCEPT !.order = o, !.good = good, !.pc = pc].order = o
    BY DEF Idle, WorkerStates, Outside
  <1>4. worker' \in [Workers -> WorkerStates] /\ WorkersKept
    BY <1>1, <1>2, <1>3, WorkerSet
  <1>5. unheard' \subseteq Orders /\ CountersOK'
    <2>1. unheard' \subseteq Orders
      BY <1>1 DEF Notify, TypeOK
    <2>2. UNCHANGED bought /\ (UNCHANGED events \/ Event)
      BY DEF Notify
    <2> QED BY <1>1, <2>1, <2>2, EventOK, Keeps
  <1>6. UNCHANGED <<order, tag, used, grants, queue>>
    BY DEF Notify
  <1> QED BY <1>1, <1>4, <1>5, <1>6, OrderKept, Keeps, Combine

\* A late callback closes its order, if it is still pending.
LEMMA ExpireNotifiedStep ==
  ASSUME GrantInv, NEW w \in Workers, ExpireNotified(w)
  PROVE  TypeOK' /\ Quiet /\ SettledKept
  <1>1. TypeOK /\ worker[w].order \in Orders
    BY DEF GrantInv, WorkerOK, ExpireNotified
  <1> DEFINE o == worker[w].order
  <1> HIDE DEF o
  <1>2. order' = [order EXCEPT ![o] = Closing(o, "expired")] /\ used' = Release(o) /\ o \in Orders
    BY <1>1 DEF ExpireNotified, o
  <1>3. /\ order' \in [Orders -> OrderStates] /\ SettledKept /\ used' \in Nat
        /\ \A p \in Orders : (order'[p].status = "completed") <=> (order[p].status = "completed")
    BY <1>1, <1>2, CloseFacts, OrderSet DEF Closed
  <1>4. Finish(w) /\ UNCHANGED <<tag, grants, queue, events, bought>>
    BY DEF ExpireNotified
  <1> QED BY <1>1, <1>3, <1>4, FinishOK, Keeps, Combine

\* A callback that does not match closes its order, if it is still pending.
LEMMA RejectNotifiedStep ==
  ASSUME GrantInv, NEW w \in Workers, RejectNotified(w)
  PROVE  TypeOK' /\ Quiet /\ SettledKept
  <1>1. TypeOK /\ worker[w].order \in Orders
    BY DEF GrantInv, WorkerOK, RejectNotified
  <1> DEFINE o == worker[w].order
             r == [Closing(o, "failed") EXCEPT !.old = FALSE]
  <1> HIDE DEF o
  <1>2. order' = [order EXCEPT ![o] = r] /\ used' = Release(o) /\ o \in Orders
    BY <1>1 DEF RejectNotified, o
  <1>3. Closing(o, "failed") \in OrderStates /\ used' \in Nat
        /\ Closing(o, "failed").status = IF order[o].status = "pending" THEN "failed" ELSE order[o].status
    BY <1>1, <1>2, CloseFacts DEF Closed
  <1>4. r \in OrderStates /\ r.status = Closing(o, "failed").status
    BY <1>3 DEF OrderStates
  <1> HIDE DEF r
  <1>5. /\ order' \in [Orders -> OrderStates] /\ SettledKept
        /\ \A p \in Orders : (order'[p].status = "completed") <=> (order[p].status = "completed")
    BY <1>1, <1>2, <1>3, <1>4, OrderSet DEF Closed
  <1>6. Finish(w) /\ UNCHANGED <<tag, grants, queue, events, bought>>
    BY DEF RejectNotified
  <1> QED BY <1>1, <1>3, <1>5, <1>6, FinishOK, Keeps, Combine

\* An order that is given another status which is not completed.
LEMMA StatusSet ==
  ASSUME TypeOK, NEW o \in Orders, NEW s \in Statuses,
         order' = [order EXCEPT ![o].status = s, ![o].old = FALSE],
         s = "completed" <=> order[o].status = "completed",
         order[o].status \in Closed \cup {"completed"} => s = order[o].status
  PROVE  /\ order' \in [Orders -> OrderStates] /\ SettledKept
         /\ \A p \in Orders : (order'[p].status = "completed") <=> (order[p].status = "completed")
         /\ order'[o].status = s
  <1> DEFINE r == [order[o] EXCEPT !.status = s, !.old = FALSE]
  <1>1. order[o] \in OrderStates
    BY DEF TypeOK, OrderStates
  <1>2. r \in OrderStates /\ r.status = s
    BY <1>1 DEF OrderStates
  <1>3. order' = [order EXCEPT ![o] = r]
    BY DEF TypeOK
  <1> HIDE DEF r
  <1>4. order'[o] = r
    BY <1>3 DEF TypeOK
  <1> QED BY <1>2, <1>3, <1>4, OrderSet

\* markPaymentOrderPaid touches no settled order.
LEMMA MarkPaidStep ==
  ASSUME GrantInv, NEW w \in Workers, MarkPaid(w)
  PROVE  TypeOK' /\ Quiet /\ SettledKept
  <1>1. TypeOK /\ WorkerOK /\ worker[w].order \in Orders /\ worker[w].pc # "idle"
    BY DEF GrantInv, WorkerOK, MarkPaid
  <1> DEFINE o == worker[w].order
             s == IF order[o].status = "pending" THEN "paid" ELSE order[o].status
  <1>2. s \in Statuses /\ order' = [order EXCEPT ![o].status = s, ![o].old = FALSE]
    BY <1>1 DEF MarkPaid, TypeOK, Statuses
  <1>3. s = "completed" <=> order[o].status = "completed"
    OBVIOUS
  <1>4. order[o].status \in Closed \cup {"completed"} => s = order[o].status
    BY DEF Closed
  <1> HIDE DEF s
  <1>5. /\ order' \in [Orders -> OrderStates] /\ SettledKept
        /\ \A p \in Orders : (order'[p].status = "completed") <=> (order[p].status = "completed")
    BY <1>1, <1>2, <1>3, <1>4, StatusSet
  <1>6. /\ Goto(w, "claim") \/ Finish(w)
        /\ UNCHANGED <<tag, used, grants, queue, events, bought>>
    BY DEF MarkPaid
  <1>7. worker' \in [Workers -> WorkerStates] /\ WorkersKept /\ unheard' \subseteq Orders
    BY <1>1, <1>6, GotoOK, FinishOK DEF Outside, TypeOK
  <1> QED BY <1>5, <1>6, <1>7, Keeps, Combine

\* resetStaleProcessingPaymentOrder writes one order, which is paid again.
LEMMA ResetShape ==
  ASSUME TypeOK, NEW o \in Orders, Reset(o)
  PROVE  \E r \in OrderStates :
           /\ order' = [order EXCEPT ![o] = r]
           /\ \A p \in Orders : order'[p] = IF p = o THEN r ELSE order[p]
           /\ r.status = "paid" /\ r.consumed = order[o].consumed
           /\ r.overtaken <=> (order[o].overtaken \/ \E w \in Workers : Finalizes(w, o))
  <1> DEFINE b == order[o].overtaken \/ \E w \in Workers : Finalizes(w, o)
             r == [order[o] EXCEPT !.status = "paid", !.old = FALSE, !.overtaken = b]
  <1>1. order[o] \in OrderStates /\ "paid" \in Statuses
    BY DEF TypeOK, OrderStates, Statuses
  <1>2. order' = [order EXCEPT ![o] = r]
    BY DEF Reset, TypeOK
  <1>3. b \in BOOLEAN
    BY SMT
  <1> HIDE DEF b
  <1>4. r \in OrderStates /\ r.status = "paid" /\ r.consumed = order[o].consumed /\ r.overtaken = b
    BY <1>1, <1>3 DEF OrderStates
  <1> HIDE DEF r
  <1>5. \A p \in Orders : order'[p] = IF p = o THEN r ELSE order[p]
    BY <1>2 DEF TypeOK
  <1> QED BY <1>2, <1>4, <1>5 DEF b

\* It leaves settled orders alone.
LEMMA ResetOK ==
  ASSUME TypeOK, NEW o \in Orders, IsStale(o), Reset(o)
  PROVE  /\ order' \in [Orders -> OrderStates] /\ SettledKept
         /\ \A p \in Orders : (order'[p].status = "completed") <=> (order[p].status = "completed")
  <1>1. PICK r \in OrderStates : order' = [order EXCEPT ![o] = r] /\ r.status = "paid"
    BY ResetShape
  <1>2. ~(order[o].status \in Closed \cup {"completed"}) /\ ~(order[o].status = "completed")
    BY DEF Closed, IsStale
  <1> QED BY <1>1, <1>2, OrderSet

\* A callback resets a stale order, or gives up.
LEMMA ResetStaleStep ==
  ASSUME GrantInv, NEW w \in Workers, ResetStale(w)
  PROVE  TypeOK' /\ Quiet /\ SettledKept
  <1>1. TypeOK /\ WorkerOK /\ worker[w].order \in Orders /\ worker[w].pc # "idle"
    BY DEF GrantInv, WorkerOK, ResetStale
  <1>2. /\ order' \in [Orders -> OrderStates] /\ SettledKept
        /\ \A p \in Orders : (order'[p].status = "completed") <=> (order[p].status = "completed")
    BY <1>1, ResetOK, OrderKept DEF ResetStale
  <1>3. /\ Goto(w, "reclaim") \/ Finish(w)
        /\ UNCHANGED <<tag, used, grants, queue, events, bought>>
    BY DEF ResetStale
  <1>4. worker' \in [Workers -> WorkerStates] /\ WorkersKept /\ unheard' \subseteq Orders
    BY <1>1, <1>3, GotoOK, FinishOK DEF Outside, TypeOK
  <1> QED BY <1>2, <1>3, <1>4, Keeps, Combine

\* The maintenance resets a stale order.
LEMMA RecoverStep ==
  ASSUME GrantInv, NEW w \in Workers, NEW o \in Orders, Recover(w, o)
  PROVE  TypeOK' /\ Quiet /\ SettledKept
  <1>1. TypeOK
    BY DEF GrantInv
  <1>2. /\ order' \in [Orders -> OrderStates] /\ SettledKept
        /\ \A p \in Orders : (order'[p].status = "completed") <=> (order[p].status = "completed")
    BY <1>1, ResetOK DEF Recover
  <1> DEFINE r == [Idle EXCEPT !.pc = "claim", !.order = o]
  <1>3. r \in WorkerStates /\ r.pc = "claim" /\ r.order = o
    BY DEF Idle, WorkerStates
  <1>4. worker' = [worker EXCEPT ![w] = r] /\ UNCHANGED <<tag, used, grants, queue, unheard, events, bought>>
    BY DEF Recover
  <1> HIDE DEF r
  <1>5. worker' \in [Workers -> WorkerStates] /\ WorkersKept
    BY <1>1, <1>3, <1>4, WorkerSet
  <1> QED BY <1>2, <1>4, <1>5, Keeps, Combine

\* A worker that joins the queue changes nobody's turn.
LEMMA AppendKeepsLock ==
  ASSUME GrantInv, WorkersKept, NEW w \in Workers,
         queue' = [queue EXCEPT ![Home[w]] = Append(@, w)]
  PROVE  LockOK' /\ queue' \in [Instances -> Seq(Workers)]
  <1>1. queue \in [Instances -> Seq(Workers)] /\ Home[w] \in Instances
    BY PaymentAssumption DEF GrantInv, TypeOK
  <1>2. queue' \in [Instances -> Seq(Workers)]
    BY <1>1
  <1>3. ASSUME NEW v \in Workers, worker'[v].pc = "grant"
        PROVE  HoldsLock(v)'
    <2>1. HoldsLock(v) /\ Home[v] \in Instances
      BY <1>3, PaymentAssumption DEF GrantInv, LockOK, WorkersKept
    <2> DEFINE q == queue[Home[v]]
    <2>2. q \in Seq(Workers) /\ q # <<>> /\ Head(q) = v
      BY <1>1, <2>1 DEF HoldsLock
    <2>3. queue'[Home[v]] = q \/ queue'[Home[v]] = Append(q, w)
      BY <1>1, <2>1
    <2> HIDE DEF q
    <2>4. Append(q, w) # <<>> /\ Head(Append(q, w)) = v
      BY <2>2
    <2> QED BY <2>2, <2>3, <2>4 DEF HoldsLock
  <1> QED BY <1>2, <1>3 DEF LockOK

\* claimPaidPaymentOrder takes a paid order and queues for the lock.
LEMMA ClaimStep ==
  ASSUME GrantInv, NEW w \in Workers, Claim(w)
  PROVE  TypeOK' /\ Quiet /\ SettledKept
  <1>1. TypeOK /\ WorkerOK /\ worker[w].order \in Orders /\ worker[w].pc # "idle"
    BY DEF GrantInv, WorkerOK, Claim
  <1> DEFINE o == worker[w].order
  <1>2. CASE order[o].status = "paid"
    <2> DEFINE r == [worker[w] EXCEPT !.pc = "wait", !.consumed = order[o].consumed]
    <2>1. /\ order' = [order EXCEPT ![o].status = "processing", ![o].old = FALSE]
          /\ worker' = [worker EXCEPT ![w] = r]
          /\ queue' = [queue EXCEPT ![Home[w]] = Append(@, w)]
          /\ UNCHANGED <<tag, used, grants, unheard, events, bought>>
      BY <1>1, <1>2 DEF Claim, TypeOK
    <2>2. worker[w] \in WorkerStates /\ order[o].consumed \in BOOLEAN
      BY <1>1 DEF TypeOK
    <2>3. r \in WorkerStates /\ r.pc = "wait" /\ r.order = o
      BY <2>2 DEF WorkerStates
    <2> HIDE DEF r
    <2>4. worker' \in [Workers -> WorkerStates] /\ WorkersKept
      BY <1>1, <2>1, <2>3, WorkerSet
    <2>5. /\ order' \in [Orders -> OrderStates] /\ SettledKept
          /\ \A p \in Orders : (order'[p].status = "completed") <=> (order[p].status = "completed")
      <3> DEFINE s == "processing"
      <3>1. s \in Statuses /\ ~(s = "completed")
        BY DEF Statuses
      <3>2. ~(order[o].status \in Closed \cup {"completed"}) /\ ~(order[o].status = "completed")
        BY <1>2 DEF Closed
      <3>3. order' = [order EXCEPT ![o].status = s, ![o].old = FALSE]
        BY <2>1
      <3> HIDE DEF s
      <3> QED BY <1>1, <3>1, <3>2, <3>3, StatusSet
    <2>6. LockOK' /\ queue' \in [Instances -> Seq(Workers)]
      BY <2>1, <2>4, AppendKeepsLock
    <2> QED BY <2>1, <2>4, <2>5, <2>6, Keeps, CombineQ
  <1>3. CASE order[o].status # "paid"
    <2>1. /\ Goto(w, "reset") \/ Finish(w)
          /\ UNCHANGED <<order, tag, used, grants, queue, events, bought>>
      BY <1>3 DEF Claim
    <2>2. worker' \in [Workers -> WorkerStates] /\ WorkersKept /\ unheard' \subseteq Orders
      BY <1>1, <2>1, GotoOK, FinishOK DEF Outside, TypeOK
    <2> QED BY <1>1, <2>1, <2>2, OrderKept, Keeps, Combine
  <1> QED BY <1>2, <1>3

\* The holder of a lock passes it on: nobody else was inside.
LEMMA UnlockKeepsLock ==
  ASSUME GrantInv, NEW w \in Workers, worker[w].pc = "grant", worker' = [worker EXCEPT ![w] = Idle], Unlock(w)
  PROVE  LockOK' /\ queue' \in [Instances -> Seq(Workers)]
  <1>1. queue \in [Instances -> Seq(Workers)] /\ Home[w] \in Instances /\ HoldsLock(w)
    BY PaymentAssumption DEF GrantInv, TypeOK, LockOK
  <1>2. queue[Home[w]] \in Seq(Workers) /\ queue[Home[w]] # <<>> /\ Head(queue[Home[w]]) = w
    BY <1>1 DEF HoldsLock
  <1>3. Tail(queue[Home[w]]) \in Seq(Workers)
    BY <1>2
  <1>4. queue' = [queue EXCEPT ![Home[w]] = Tail(queue[Home[w]])]
    BY DEF Unlock
  <1>5. queue' \in [Instances -> Seq(Workers)]
    BY <1>1, <1>3, <1>4
  <1>6. ASSUME NEW v \in Workers, worker'[v].pc = "grant"
        PROVE  HoldsLock(v)'
    <2>1. v # w /\ worker[v].pc = "grant"
      BY <1>6, IdleState DEF GrantInv, TypeOK
    <2>2. HoldsLock(v) /\ Home[v] \in Instances
      BY <2>1, PaymentAssumption DEF GrantInv, LockOK
    <2>3. Home[v] # Home[w]
      BY <1>2, <2>1, <2>2 DEF HoldsLock
    <2>4. queue'[Home[v]] = queue[Home[v]]
      BY <1>1, <1>4, <2>2, <2>3
    <2> QED BY <2>2, <2>4 DEF HoldsLock
  <1> QED BY <1>5, <1>6 DEF LockOK

\* A grant that throws leaves nothing behind but its lock, which is passed on.
LEMMA FailGrantStep ==
  ASSUME GrantInv, NEW w \in Workers, FailGrant(w)
  PROVE  TypeOK' /\ Quiet /\ SettledKept
  <1>1. TypeOK /\ worker[w].pc = "grant" /\ Throw(w) /\ Unlock(w) /\ worker' = [worker EXCEPT ![w] = Idle]
    BY DEF GrantInv, FailGrant, Throw
  <1>2. UNCHANGED <<order, tag, used, grants>>
    BY DEF FailGrant
  <1>3. CountersOK'
    <2>1. UNCHANGED bought /\ (UNCHANGED events \/ Event)
      BY DEF FailGrant
    <2> QED BY <1>1, <2>1, EventOK, Keeps
  <1>4. worker' \in [Workers -> WorkerStates] /\ WorkersKept /\ unheard' \subseteq Orders
    BY <1>1, FinishOK
  <1>5. LockOK' /\ queue' \in [Instances -> Seq(Workers)]
    BY <1>1, UnlockKeepsLock
  <1> QED BY <1>1, <1>2, <1>3, <1>4, <1>5, OrderKept, Keeps, CombineQ

\* An instance that dies releases its locks with its workers.
LEMMA CrashStep ==
  ASSUME GrantInv, NEW i \in Instances, Crash(i)
  PROVE  TypeOK' /\ Quiet /\ SettledKept
  <1>1. TypeOK
    BY DEF GrantInv
  <1>2. worker' \in [Workers -> WorkerStates] /\ WorkersKept
    BY <1>1, IdleState DEF Crash, TypeOK, WorkersKept
  <1>3. queue' \in [Instances -> Seq(Workers)]
    BY <1>1 DEF Crash, TypeOK
  <1>4. ASSUME NEW v \in Workers, worker'[v].pc = "grant"
        PROVE  HoldsLock(v)'
    <2>1. Home[v] # i /\ worker[v].pc = "grant"
      BY <1>4, IdleState DEF Crash
    <2>2. HoldsLock(v)
      BY <2>1 DEF GrantInv, LockOK
    <2>3. queue'[Home[v]] = queue[Home[v]]
      BY <1>1, <2>1, PaymentAssumption DEF Crash, TypeOK
    <2> QED BY <2>2, <2>3 DEF HoldsLock
  <1>5. CountersOK'
    <2>1. UNCHANGED bought /\ Event
      BY DEF Crash
    <2> QED BY <1>1, <2>1, EventOK
  <1>6. UNCHANGED <<order, tag, used, grants, unheard>>
    BY DEF Crash
  <1>7. LockOK'
    BY <1>4 DEF LockOK
  <1> QED BY <1>1, <1>2, <1>3, <1>5, <1>6, <1>7, OrderKept, Keeps, CombineQ

\* A purchase with the balance touches the code only.
LEMMA PurchaseStep ==
  ASSUME GrantInv, PurchaseWithBalance
  PROVE  TypeOK' /\ Quiet /\ SettledKept
  <1>1. TypeOK /\ Event /\ UNCHANGED <<order, tag, grants, worker, queue, unheard>>
    BY DEF GrantInv, PurchaseWithBalance
  <1>2. used' \in Nat
    BY <1>1 DEF PurchaseWithBalance, TypeOK
  <1>3. CountersOK'
    BY <1>1, PaymentAssumption DEF PurchaseWithBalance, TypeOK, Event, CountersOK
  <1> QED BY <1>1, <1>2, <1>3, OrderKept, Keeps, Combine

-----------------------------------------------------------------------------
(* Whoever has claimed an order works on one whose money has arrived.      *)

\* The states after the money has arrived.
Taken == {"paid", "processing", "completed"}

TakenOK == \A w \in Workers : worker[w].pc \in {"wait", "grant"} =>
                                  order[worker[w].order].status \in Taken

\* An order that was paid never goes back to a state before that.
TakenKept == \A o \in Orders : order[o].status \in Taken => order'[o].status \in Taken

\* A worker that waits or grants was there before, or has just claimed.
ClaimsKept == \A w \in Workers :
    worker'[w].pc \in {"wait", "grant"} =>
        /\ worker'[w].order = worker[w].order
        /\ worker[w].pc \in {"wait", "grant"} \/ order'[worker[w].order].status \in Taken

\* Claims stay on orders that were paid.
LEMMA TakenStep ==
  ASSUME WorkerOK, TakenOK, TakenKept, ClaimsKept
  PROVE  TakenOK'
  <1> SUFFICES ASSUME NEW w \in Workers, worker'[w].pc \in {"wait", "grant"}
               PROVE  order'[worker'[w].order].status \in Taken
    BY DEF TakenOK
  <1>1. worker'[w].order = worker[w].order
    BY DEF ClaimsKept
  <1>2. CASE worker[w].pc \in {"wait", "grant"}
    <2>1. worker[w].order \in Orders /\ order[worker[w].order].status \in Taken
      BY <1>2 DEF WorkerOK, TakenOK
    <2> QED BY <1>1, <2>1 DEF TakenKept
  <1>3. CASE ~(worker[w].pc \in {"wait", "grant"})
    BY <1>1, <1>3 DEF ClaimsKept
  <1> QED BY <1>2, <1>3

\* A worker that goes to a place before the claim, or home.
LEMMA ClaimsSet ==
  ASSUME TypeOK, NEW w \in Workers, NEW r, worker' = [worker EXCEPT ![w] = r],
         ~(r.pc \in {"wait", "grant"})
  PROVE  ClaimsKept
  BY DEF TypeOK, ClaimsKept

\* The clock writes neither the status of an order nor its use of the code.
LEMMA TimeKeeps ==
  ASSUME TypeOK, NEW o \in Orders, TimePasses(o)
  PROVE  \A p \in Orders : order'[p].status = order[p].status /\ order'[p].consumed = order[p].consumed
  <1>1. order \in [Orders -> OrderStates] /\ order[o] \in OrderStates
    BY DEF TypeOK, OrderStates
  <1>2. PICK r : order' = [order EXCEPT ![o] = r] /\ r.status = order[o].status /\ r.consumed = order[o].consumed
    <2>1. /\ [order[o] EXCEPT !.late = TRUE].status = order[o].status
          /\ [order[o] EXCEPT !.late = TRUE].consumed = order[o].consumed
          /\ [order[o] EXCEPT !.old = TRUE].status = order[o].status
          /\ [order[o] EXCEPT !.old = TRUE].consumed = order[o].consumed
      BY <1>1 DEF OrderStates
    <2>2. \/ order' = [order EXCEPT ![o] = [order[o] EXCEPT !.late = TRUE]]
          \/ order' = [order EXCEPT ![o] = [order[o] EXCEPT !.old = TRUE]]
      BY DEF TimePasses
    <2> QED BY <2>1, <2>2
  <1> QED BY <1>1, <1>2

\* Every step keeps that.
LEMMA TakenInductive ==
  ASSUME GrantInv, TakenOK, [Next]_vars
  PROVE  TakenOK'
  <1>1. TypeOK /\ WorkerOK
    BY DEF GrantInv
  <1>2. ASSUME NEW w \in Workers, Finish(w) \/ Throw(w) PROVE ClaimsKept
    <2>1. worker' = [worker EXCEPT ![w] = Idle] /\ ~(Idle.pc \in {"wait", "grant"})
      BY <1>2, IdleState DEF Finish, Throw
    <2> QED BY <1>1, <2>1, ClaimsSet
  <1>3. ASSUME NEW w \in Workers, NEW pc \in Outside \ {"wait"}, Goto(w, pc) PROVE ClaimsKept
    <2> DEFINE r == [worker[w] EXCEPT !.pc = pc]
    <2>1. worker' = [worker EXCEPT ![w] = r] /\ worker[w] \in WorkerStates
      BY <1>1, <1>3 DEF Goto, TypeOK
    <2>2. ~(r.pc \in {"wait", "grant"})
      BY <2>1 DEF WorkerStates, Outside
    <2> HIDE DEF r
    <2> QED BY <1>1, <2>1, <2>2, ClaimsSet
  <1>4. UNCHANGED worker => ClaimsKept
    BY DEF ClaimsKept
  <1>5. UNCHANGED order => TakenKept
    BY DEF TakenKept
  <1>6. ASSUME NEW o \in Orders, NEW r \in OrderStates, order' = [order EXCEPT ![o] = r],
               order[o].status \in Taken => r.status \in Taken
        PROVE  TakenKept
    BY <1>1, <1>6 DEF TypeOK, TakenKept
  <1>7. ASSUME NEW o \in Orders, NEW status \in Closed
        PROVE  /\ Closing(o, status) \in OrderStates
               /\ order[o].status \in Taken => Closing(o, status).status \in Taken
    BY <1>1, CloseFacts DEF Taken
  <1>8. ASSUME NEW o \in Orders, CreateOrder(o) \/ CloseOrder(o) \/ TimePasses(o)
        PROVE  TakenOK'
    <2>1. TakenKept
      <3>1. CASE CreateOrder(o)
        BY <1>1, <3>1 DEF CreateOrder, TypeOK, TakenKept, Taken
      <3>2. CASE CloseOrder(o)
        BY <1>6, <1>7, <3>2 DEF CloseOrder
      <3>3. CASE TimePasses(o)
        BY <1>1, <3>3, TimeKeeps DEF TakenKept
      <3> QED BY <1>8, <3>1, <3>2, <3>3
    <2>2. UNCHANGED worker
      BY <1>8 DEF CreateOrder, CloseOrder, TimePasses
    <2> QED BY <1>1, <1>4, <2>1, <2>2, TakenStep
  <1>9. ASSUME NEW w \in Workers, NEW o \in Orders,
               Recover(w, o) \/ \E good \in BOOLEAN : Notify(w, o, good)
        PROVE  TakenOK'
    <2>1. CASE Recover(w, o)
      <3> DEFINE r == [Idle EXCEPT !.pc = "claim", !.order = o]
      <3>1. TakenKept
        <4>1. Reset(o)
          BY <2>1 DEF Recover
        <4> QED BY <1>1, <4>1, ResetShape DEF TakenKept, Taken
      <3>2. worker' = [worker EXCEPT ![w] = r]
        BY <2>1 DEF Recover
      <3>3. ~(r.pc \in {"wait", "grant"})
        BY DEF Idle
      <3> HIDE DEF r
      <3> QED BY <1>1, <3>1, <3>2, <3>3, ClaimsSet, TakenStep
    <2>2. ASSUME NEW good \in BOOLEAN, Notify(w, o, good) PROVE TakenOK'
      <3>1. PICK pc \in Outside \ {"wait"} :
              worker' = [worker EXCEPT ![w] = [Idle EXCEPT !.order = o, !.good = good, !.pc = pc]]
        <4> DEFINE c == IF order[o].status = "processing" THEN "claim"
                        ELSE IF order[o].status = "pending" /\ order[o].late THEN "expire"
                        ELSE IF good THEN "mark" ELSE "reject"
        <4>1. c \in Outside \ {"wait"}
          BY DEF Outside
        <4>2. worker' = [worker EXCEPT ![w] = [Idle EXCEPT !.order = o, !.good = good, !.pc = c]]
          BY <2>2 DEF Notify
        <4> HIDE DEF c
        <4> QED BY <4>1, <4>2
      <3> DEFINE r == [Idle EXCEPT !.order = o, !.good = good, !.pc = pc]
      <3>2. ~(r.pc \in {"wait", "grant"})
        BY DEF Idle, Outside
      <3>3. worker' = [worker EXCEPT ![w] = r]
        BY <3>1
      <3>4. UNCHANGED order
        BY <2>2 DEF Notify
      <3> HIDE DEF r
      <3> QED BY <1>1, <1>5, <3>2, <3>3, <3>4, ClaimsSet, TakenStep
    <2> QED BY <1>9, <2>1, <2>2
  <1>10. ASSUME NEW w \in Workers, WorkerStep(w) PROVE TakenOK'
    <2>1. worker[w].pc # "idle"
      BY <1>10 DEF WorkerStep, ExpireNotified, RejectNotified, MarkPaid, Claim, ResetStale, BeginGrant,
                   CommitGrant, FailGrant
    <2>2. worker[w].order \in Orders
      BY <1>1, <2>1 DEF WorkerOK
    <2> DEFINE o == worker[w].order
    <2>3. CASE ExpireNotified(w)
      <3>1. order' = [order EXCEPT ![o] = Closing(o, "expired")] /\ Finish(w)
        BY <2>3 DEF ExpireNotified
      <3>2. "expired" \in Closed
        BY DEF Closed
      <3>3. TakenKept
        BY <1>6, <1>7, <2>2, <3>1, <3>2
      <3> QED BY <1>1, <1>2, <3>1, <3>3, TakenStep
    <2>4. CASE RejectNotified(w)
      <3> DEFINE r == [Closing(o, "failed") EXCEPT !.old = FALSE]
      <3>1. order' = [order EXCEPT ![o] = r] /\ Finish(w)
        BY <2>4 DEF RejectNotified
      <3>2. Closing(o, "failed") \in OrderStates
            /\ (order[o].status \in Taken => Closing(o, "failed").status \in Taken)
        BY <1>7, <2>2 DEF Closed
      <3>3. r \in OrderStates /\ r.status = Closing(o, "failed").status
        BY <3>2 DEF OrderStates
      <3> HIDE DEF r
      <3>4. TakenKept
        BY <1>6, <2>2, <3>1, <3>2, <3>3
      <3> QED BY <1>1, <1>2, <3>1, <3>4, TakenStep
    <2>5. CASE MarkPaid(w)
      <3>1. TakenKept
        BY <1>1, <2>2, <2>5 DEF MarkPaid, TypeOK, TakenKept, Taken
      <3>2. Goto(w, "claim") \/ Finish(w)
        BY <2>5 DEF MarkPaid
      <3>3. ClaimsKept
        BY <1>2, <1>3, <3>2 DEF Outside
      <3> QED BY <1>1, <3>1, <3>3, TakenStep
    <2>6. CASE Claim(w)
      <3>1. CASE order[o].status = "paid"
        <4>1. order' = [order EXCEPT ![o].status = "processing", ![o].old = FALSE]
              /\ worker' = [worker EXCEPT ![w].pc = "wait", ![w].consumed = order[o].consumed]
          BY <2>6, <3>1 DEF Claim
        <4>2. TakenKept /\ order'[o].status \in Taken
          BY <1>1, <2>2, <4>1 DEF TypeOK, TakenKept, Taken
        <4>3. ClaimsKept
          <5>1. worker'[w].order = o
            BY <1>1, <4>1 DEF TypeOK, WorkerStates
          <5>2. \A v \in Workers : v # w => worker'[v] = worker[v]
            BY <1>1, <4>1 DEF TypeOK
          <5> QED BY <4>2, <5>1, <5>2 DEF ClaimsKept
        <4> QED BY <1>1, <4>2, <4>3, TakenStep
      <3>2. CASE order[o].status # "paid"
        <4>1. (Goto(w, "reset") \/ Finish(w)) /\ UNCHANGED order
          BY <2>6, <3>2 DEF Claim
        <4>2. ClaimsKept
          BY <1>2, <1>3, <4>1 DEF Outside
        <4> QED BY <1>1, <1>5, <4>1, <4>2, TakenStep
      <3> QED BY <3>1, <3>2
    <2>7. CASE ResetStale(w)
      <3>1. TakenKept
        <4>1. CASE Reset(o)
          BY <1>1, <2>2, <4>1, ResetShape DEF TakenKept, Taken
        <4>2. Reset(o) \/ UNCHANGED order
          BY <2>7 DEF ResetStale
        <4> QED BY <1>5, <4>1, <4>2
      <3>2. Goto(w, "reclaim") \/ Finish(w)
        BY <2>7 DEF ResetStale
      <3>3. ClaimsKept
        BY <1>2, <1>3, <3>2 DEF Outside
      <3> QED BY <1>1, <3>1, <3>3, TakenStep
    <2>8. CASE BeginGrant(w)
      <3>1. UNCHANGED order /\ worker[w].pc = "wait"
        BY <2>8 DEF BeginGrant
      <3>2. \A v \in Workers : worker'[v].order = worker[v].order
                               /\ (worker'[v].pc = worker[v].pc \/ worker[v].pc = "wait")
        BY <1>1, <2>8 DEF BeginGrant, TypeOK, WorkerStates
      <3>3. ClaimsKept
        BY <3>2 DEF ClaimsKept
      <3> QED BY <1>1, <1>5, <3>1, <3>3, TakenStep
    <2>9. CASE CommitGrant(w)
      <3>1. \A p \in Orders : order'[p].status = "completed" \/ order'[p].status = order[p].status
        BY <1>1, <2>2, <2>9 DEF CommitGrant, TypeOK
      <3>2. TakenKept
        BY <3>1 DEF TakenKept, Taken
      <3> QED BY <1>1, <1>2, <2>9, <3>2, TakenStep DEF CommitGrant
    <2>10. CASE FailGrant(w)
      BY <1>1, <1>2, <1>5, <2>10, TakenStep DEF FailGrant
    <2> QED BY <1>10, <2>3, <2>4, <2>5, <2>6, <2>7, <2>8, <2>9, <2>10 DEF WorkerStep
  <1>11. ASSUME NEW i \in Instances, Crash(i) PROVE TakenOK'
    <2>1. ClaimsKept
      BY <1>11, IdleState DEF Crash, ClaimsKept
    <2> QED BY <1>1, <1>5, <1>11, <2>1, TakenStep DEF Crash
  <1>12. CASE UNCHANGED vars
    BY <1>1, <1>4, <1>5, <1>12, TakenStep DEF vars
  <1>13. CASE PurchaseWithBalance
    BY <1>1, <1>4, <1>5, <1>13, TakenStep DEF PurchaseWithBalance
  <1> QED BY <1>8, <1>9, <1>10, <1>11, <1>12, <1>13 DEF Next

-----------------------------------------------------------------------------
(* The granting transaction.                                               *)

\* The transaction reads the tag under the lock.
LEMMA BeginGrantStep ==
  ASSUME GrantInv, NEW w \in Workers, BeginGrant(w)
  PROVE  GrantInv' /\ SettledKept
  <1>1. TypeOK /\ WorkerOK /\ LockOK /\ TagOK /\ SeenOK /\ CompletedMeansGranted
    BY DEF GrantInv
  <1>2. worker[w].pc = "wait" /\ worker[w].order \in Orders /\ worker[w] \in WorkerStates /\ HoldsLock(w)
    BY <1>1 DEF BeginGrant, WorkerOK, TypeOK
  <1> DEFINE o == worker[w].order
             seen == (tag[Row[o]] = o)
             r == [worker[w] EXCEPT !.pc = "grant", !.seen = seen]
  <1>3. worker' = [worker EXCEPT ![w] = r] /\ UNCHANGED <<order, tag, used, grants, queue, unheard, events, bought>>
    BY <1>1, <1>2 DEF BeginGrant, TypeOK
  <1>4. seen => grants[o].n > 0
    BY <1>1, <1>2 DEF TagOK
  <1>5. seen \in BOOLEAN
    BY SMT
  <1> HIDE DEF seen
  <1>6. r \in WorkerStates /\ r.pc = "grant" /\ r.order = o /\ r.seen = seen
    BY <1>2, <1>5 DEF WorkerStates
  <1> HIDE DEF r
  <1>7. \A v \in Workers : worker'[v] = IF v = w THEN r ELSE worker[v]
    BY <1>1, <1>3 DEF TypeOK
  <1>8. TypeOK'
    <2>1. worker' \in [Workers -> WorkerStates]
      BY <1>1, <1>3, <1>6 DEF TypeOK
    <2> QED BY <1>1, <1>3, <2>1 DEF TypeOK
  <1>9. WorkerOK'
    BY <1>1, <1>2, <1>6, <1>7 DEF WorkerOK
  <1>10. LockOK'
    BY <1>1, <1>2, <1>3, <1>7 DEF LockOK, HoldsLock
  <1>11. TagOK' /\ CompletedMeansGranted'
    BY <1>1, <1>3 DEF TagOK, CompletedMeansGranted
  <1>12. SeenOK'
    <2>1. ASSUME NEW v \in Workers, worker'[v].pc = "grant", worker'[v].seen
          PROVE  grants[worker'[v].order].n > 0
      <3>1. CASE v = w
        BY <1>4, <1>6, <1>7, <2>1, <3>1
      <3>2. CASE v # w
        BY <1>1, <1>7, <2>1, <3>2 DEF SeenOK
      <3> QED BY <3>1, <3>2
    <2> QED BY <1>3, <2>1 DEF SeenOK
  <1>13. SettledKept
    BY <1>3 DEF SettledKept
  <1> QED BY <1>8, <1>9, <1>10, <1>11, <1>12, <1>13 DEF GrantInv

\* The commit grants and completes together.
LEMMA CommitGrantStep ==
  ASSUME GrantInv, TakenOK, NEW w \in Workers, CommitGrant(w)
  PROVE  GrantInv' /\ SettledKept
  <1>1. TypeOK /\ WorkerOK /\ LockOK /\ TagOK /\ SeenOK /\ CompletedMeansGranted
    BY DEF GrantInv
  <1>2. worker[w].pc = "grant" /\ worker[w].order \in Orders /\ worker[w] \in WorkerStates
    BY <1>1 DEF CommitGrant, WorkerOK, TypeOK
  <1> DEFINE o == worker[w].order
             seen == worker[w].seen
             unconsumed == Unconsumed(w)
             r == [order[o] EXCEPT !.status = "completed", !.consumed = order[o].consumed \/ unconsumed,
                                   !.old = FALSE]
  <1>3. order[o].status \in Taken /\ order[o] \in OrderStates
    BY <1>1, <1>2 DEF TakenOK, TypeOK, OrderStates
  <1>4. order' = [order EXCEPT ![o] = r]
    BY <1>1, <1>2 DEF CommitGrant, TypeOK
  <1>5. r \in OrderStates /\ r.status = "completed"
    <2>1. (order[o].consumed \/ unconsumed) \in BOOLEAN
      BY SMT
    <2> HIDE DEF unconsumed
    <2> QED BY <1>3, <2>1 DEF OrderStates, Statuses
  <1> HIDE DEF r
  <1>6. order' \in [Orders -> OrderStates] /\ \A p \in Orders : order'[p] = IF p = o THEN r ELSE order[p]
    BY <1>1, <1>2, <1>4, <1>5 DEF TypeOK, OrderStates
  <1>7. SettledKept
    <2>1. ~(order[o].status \in Closed)
      BY <1>3 DEF Taken, Closed
    <2> QED BY <1>5, <1>6, <2>1 DEF SettledKept
  <1>8. Finish(w) /\ Unlock(w) /\ worker' = [worker EXCEPT ![w] = Idle] /\ UNCHANGED <<events, bought>>
    BY DEF CommitGrant, Finish
  <1>9. worker' \in [Workers -> WorkerStates] /\ WorkersKept /\ unheard' \subseteq Orders
    BY <1>1, <1>8, FinishOK
  <1>10. LockOK' /\ queue' \in [Instances -> Seq(Workers)]
    BY <1>2, <1>8, UnlockKeepsLock
  <1>11. used' \in Nat
    BY <1>1 DEF CommitGrant, TypeOK
  <1>12. grants' = IF seen THEN grants ELSE [grants EXCEPT ![o] = [n |-> grants[o].n + 1, by |-> Home[w]]]
    BY <1>1, <1>2 DEF CommitGrant, Counted, TypeOK
  <1>13. /\ grants' \in [Orders -> GrantStates] /\ grants'[o].n > 0
         /\ \A p \in Orders : grants'[p].n >= grants[p].n /\ (p # o => grants'[p] = grants[p])
    <2>1. seen => grants[o].n > 0
      BY <1>1, <1>2 DEF SeenOK
    <2>2. grants \in [Orders -> GrantStates] /\ \A p \in Orders : grants[p].n \in Nat
      BY <1>1 DEF TypeOK, GrantStates
    <2>3. [n |-> grants[o].n + 1, by |-> Home[w]] \in GrantStates
      BY <1>2, <2>2, PaymentAssumption DEF GrantStates
    <2>4. CASE seen
      BY <1>12, <2>1, <2>2, <2>4
    <2>5. CASE ~seen
      <3> HIDE DEF seen, o
      <3> QED BY <1>2, <1>12, <2>2, <2>3, <2>5 DEF o
    <2> QED BY <2>4, <2>5
  <1>14. tag' \in [Rows -> Orders \cup {None}] /\ TagOK'
    <2>1. Row[o] \in Rows
      BY <1>2 DEF Rows
    <2>2. tag' = tag \/ tag' = [tag EXCEPT ![Row[o]] = o]
      BY DEF CommitGrant, Granted
    <2>3. tag' \in [Rows -> Orders \cup {None}]
      BY <1>1, <1>2, <2>1, <2>2 DEF TypeOK
    <2>4. ASSUME NEW p \in Orders, tag'[Row[p]] = p PROVE grants'[p].n > 0
      <3>1. Row[p] \in Rows
        BY DEF Rows
      <3>2. p = o \/ tag[Row[p]] = p
        BY <1>1, <1>2, <2>1, <2>2, <2>4, <3>1 DEF TypeOK
      <3>3. CASE tag[Row[p]] = p
        <4>1. grants[p].n > 0 /\ grants[p].n \in Nat /\ grants'[p].n \in Nat /\ grants'[p].n >= grants[p].n
          BY <1>1, <1>13, <3>3 DEF TagOK, TypeOK, GrantStates
        <4> QED BY <4>1
      <3> QED BY <1>13, <3>2, <3>3
    <2> QED BY <2>3, <2>4 DEF TagOK
  <1>15. TypeOK'
    BY <1>1, <1>6, <1>8, <1>9, <1>10, <1>11, <1>13, <1>14 DEF TypeOK, OrderStates, GrantStates
  <1>16. WorkerOK'
    BY <1>1, <1>9 DEF WorkerOK, WorkersKept
  <1>17. SeenOK'
    <2>1. ASSUME NEW v \in Workers, worker'[v].pc = "grant", worker'[v].seen
          PROVE  grants'[worker'[v].order].n > 0
      <3>1. worker'[v] = worker[v]
        BY <1>9, <2>1 DEF WorkersKept
      <3>2. grants[worker[v].order].n > 0 /\ worker[v].order \in Orders
        BY <1>1, <2>1, <3>1 DEF SeenOK, WorkerOK
      <3>3. grants[worker[v].order].n \in Nat /\ grants'[worker[v].order].n \in Nat
            /\ grants'[worker[v].order].n >= grants[worker[v].order].n
        BY <1>1, <1>13, <3>2 DEF TypeOK, GrantStates
      <3> QED BY <3>1, <3>2, <3>3
    <2> QED BY <2>1 DEF SeenOK
  <1>18. CompletedMeansGranted'
    <2>1. ASSUME NEW p \in Orders PROVE (order'[p].status = "completed") <=> (grants'[p].n > 0)
      <3>1. CASE p = o
        BY <1>5, <1>6, <1>13, <3>1
      <3>2. CASE p # o
        BY <1>1, <1>6, <1>13, <3>2 DEF CompletedMeansGranted
      <3> QED BY <3>1, <3>2
    <2> QED BY <2>1 DEF CompletedMeansGranted
  <1> QED BY <1>7, <1>10, <1>14, <1>15, <1>16, <1>17, <1>18 DEF GrantInv

\* Every step is quiet, or begins or commits a grant.
LEMMA NextCases ==
  ASSUME GrantInv, [Next]_vars
  PROVE  \/ TypeOK' /\ Quiet /\ SettledKept
         \/ \E w \in Workers : BeginGrant(w) \/ CommitGrant(w)
  <1>1. ASSUME NEW o \in Orders, CreateOrder(o) \/ CloseOrder(o) \/ TimePasses(o)
        PROVE  TypeOK' /\ Quiet /\ SettledKept
    BY <1>1, CreateOrderStep, CloseOrderStep, TimePassesStep
  <1>2. ASSUME NEW w \in Workers, WorkerStep(w)
        PROVE  (TypeOK' /\ Quiet /\ SettledKept) \/ BeginGrant(w) \/ CommitGrant(w)
    BY <1>2, ExpireNotifiedStep, RejectNotifiedStep, MarkPaidStep, ClaimStep, ResetStaleStep,
       FailGrantStep DEF WorkerStep
  <1>3. ASSUME NEW w \in Workers, NEW o \in Orders,
               Recover(w, o) \/ \E good \in BOOLEAN : Notify(w, o, good)
        PROVE  TypeOK' /\ Quiet /\ SettledKept
    BY <1>3, RecoverStep, NotifyStep
  <1>4. ASSUME NEW i \in Instances, Crash(i)
        PROVE  TypeOK' /\ Quiet /\ SettledKept
    BY <1>4, CrashStep
  <1>5. CASE UNCHANGED vars
    <2>1. UNCHANGED <<order, tag, used, grants, worker, queue, unheard, events, bought>>
      BY <1>5 DEF vars
    <2>2. TypeOK
      BY DEF GrantInv
    <2> QED BY <2>1, <2>2, OrderKept, Keeps, Combine
  <1> QED BY <1>1, <1>2, <1>3, <1>4, <1>5, PurchaseStep DEF Next

\* The invariant is kept, and no step reopens a settled order.
LEMMA NextInv ==
  ASSUME GrantInv, TakenOK, [Next]_vars
  PROVE  GrantInv' /\ SettledKept
  BY NextCases, QuietStep, BeginGrantStep, CommitGrantStep

\* The inductive invariant of the specification.
GrantIInv == GrantInv /\ TakenOK

\* Types, locks, tags and claims are as GrantInv and TakenOK say, always.
THEOREM GrantInvariance == Spec => []GrantIInv
  <1>1. Init => GrantIInv
    <2>1. Init => TakenOK
      BY IdleState DEF Init, TakenOK
    <2> QED BY <2>1, InitInv DEF GrantIInv
  <1>2. GrantIInv /\ [Next]_vars => GrantIInv'
    BY NextInv, TakenInductive DEF GrantIInv
  <1> QED BY <1>1, <1>2, PTL DEF Spec

\* Orders, subscriptions, codes and workers keep their shape.
THEOREM PaymentTypes == Spec => []TypeOK
  <1>1. GrantIInv => TypeOK
    BY DEF GrantIInv, GrantInv
  <1> QED BY <1>1, GrantInvariance, PTL

\* finalizePaidOrder completes an order and grants it in one commit: whoever
\* looks sees both or neither, with any number of instances and crashes.
THEOREM CompletedGranted == Spec => []CompletedMeansGranted
  <1>1. GrantIInv => CompletedMeansGranted
    BY DEF GrantIInv, GrantInv
  <1> QED BY <1>1, GrantInvariance, PTL

\* No callback, recovery or grant ever reopens an order that is completed,
\* expired or failed.
THEOREM Settled == Spec => SettledStaysSettled
  <1>1. GrantIInv /\ [Next]_vars => [SettledKept]_vars
    BY NextInv DEF GrantIInv
  <1>2. [SettledKept]_vars => [\A o \in Orders : order[o].status \in Closed \cup {"completed"} =>
                            order'[o].status = order[o].status]_vars
    BY DEF SettledKept
  <1> QED BY <1>1, <1>2, GrantInvariance, PTL DEF Spec, SettledStaysSettled

-----------------------------------------------------------------------------
(* Granted once: what the read of the tag is worth.                        *)

\* A grant that has not seen the tag still finds none when it commits, or the
\* order was last granted by another instance.
UnseenOK == \A w \in Workers :
    (worker[w].pc = "grant" /\ ~worker[w].seen) =>
        \/ tag[Row[worker[w].order]] # worker[w].order
        \/ grants[worker[w].order].by # Home[w]

\* An order whose claim was never overtaken has at most one worker, and is in
\* processing as long as it has one.
SoleOK == \A o \in Orders : ~order[o].overtaken =>
    /\ \A v, w \in Workers : Finalizes(v, o) /\ Finalizes(w, o) => v = w
    /\ \A w \in Workers : Finalizes(w, o) => order[o].status = "processing"

\* Nobody claims an order.
FinalsKept == \A w \in Workers, o \in Orders : Finalizes(w, o)' => Finalizes(w, o)

\* No claim is given up or fulfilled.
HeldKept == \A o \in Orders :
    /\ order'[o].overtaken = order[o].overtaken
    /\ order[o].status = "processing" => order'[o].status = "processing"

\* A step that neither claims, nor gives up or fulfils a claim.
LEMMA SoleStep ==
  ASSUME SoleOK, FinalsKept, HeldKept
  PROVE  SoleOK'
  <1> SUFFICES ASSUME NEW o \in Orders, ~order'[o].overtaken
               PROVE  /\ \A v, w \in Workers : Finalizes(v, o)' /\ Finalizes(w, o)' => v = w
                      /\ \A w \in Workers : Finalizes(w, o)' => order'[o].status = "processing"
    BY DEF SoleOK
  <1>1. ~order[o].overtaken /\ (order[o].status = "processing" => order'[o].status = "processing")
    BY DEF HeldKept
  <1>2. \A w \in Workers : Finalizes(w, o)' => Finalizes(w, o)
    BY DEF FinalsKept
  <1> QED BY <1>1, <1>2 DEF SoleOK

\* A worker that goes to a place before the claim, or home.
LEMMA FinalsSet ==
  ASSUME TypeOK, NEW w \in Workers, NEW r, worker' = [worker EXCEPT ![w] = r],
         ~(r.pc \in {"wait", "grant"})
  PROVE  FinalsKept
  BY DEF TypeOK, FinalsKept, Finalizes

\* One order is written that stays in processing if it was.
LEMMA HeldSet ==
  ASSUME TypeOK, NEW o \in Orders, NEW r, order' = [order EXCEPT ![o] = r],
         r.overtaken = order[o].overtaken,
         order[o].status = "processing" => r.status = "processing"
  PROVE  HeldKept
  BY DEF TypeOK, HeldKept

\* An order that is given up is marked if a worker still has it.
LEMMA SoleReset ==
  ASSUME TypeOK, SoleOK, FinalsKept, NEW o \in Orders, Reset(o)
  PROVE  SoleOK'
  <1>1. PICK r \in OrderStates :
          /\ \A p \in Orders : order'[p] = IF p = o THEN r ELSE order[p]
          /\ r.overtaken <=> (order[o].overtaken \/ \E w \in Workers : Finalizes(w, o))
    BY ResetShape
  <1> SUFFICES ASSUME NEW p \in Orders, ~order'[p].overtaken
               PROVE  /\ \A v, w \in Workers : Finalizes(v, p)' /\ Finalizes(w, p)' => v = w
                      /\ \A w \in Workers : Finalizes(w, p)' => order'[p].status = "processing"
    BY DEF SoleOK
  <1>2. \A w \in Workers : Finalizes(w, p)' => Finalizes(w, p)
    BY DEF FinalsKept
  <1>3. CASE p = o
    <2>1. \A w \in Workers : ~Finalizes(w, p)
      BY <1>1, <1>3
    <2> QED BY <1>2, <2>1
  <1>4. CASE p # o
    BY <1>1, <1>2, <1>4 DEF SoleOK
  <1> QED BY <1>3, <1>4

\* Who claims a paid order that was never overtaken is alone.
LEMMA SoleClaim ==
  ASSUME GrantInv, SoleOK, NEW w \in Workers, Claim(w), order[worker[w].order].status = "paid"
  PROVE  SoleOK'
  <1> DEFINE o == worker[w].order
  <1>1. TypeOK /\ o \in Orders
    BY DEF GrantInv, WorkerOK, Claim
  <1>2. /\ order' = [order EXCEPT ![o].status = "processing", ![o].old = FALSE]
        /\ worker' = [worker EXCEPT ![w].pc = "wait", ![w].consumed = order[o].consumed]
    BY DEF Claim
  <1>3. /\ order'[o].status = "processing" /\ order'[o].overtaken = order[o].overtaken
        /\ \A p \in Orders : p # o => order'[p] = order[p]
    BY <1>1, <1>2 DEF TypeOK
  <1>4. worker'[w].order = o /\ \A v \in Workers : v # w => worker'[v] = worker[v]
    BY <1>1, <1>2 DEF TypeOK, WorkerStates
  <1>5. \A v \in Workers, p \in Orders : v # w \/ p # o => (Finalizes(v, p)' => Finalizes(v, p))
    BY <1>4 DEF Finalizes
  <1>6. ~order[o].overtaken => \A v \in Workers : ~Finalizes(v, o)
    BY <1>1 DEF SoleOK
  <1> SUFFICES ASSUME NEW p \in Orders, ~order'[p].overtaken
               PROVE  /\ \A u, v \in Workers : Finalizes(u, p)' /\ Finalizes(v, p)' => u = v
                      /\ \A v \in Workers : Finalizes(v, p)' => order'[p].status = "processing"
    BY DEF SoleOK
  <1> HIDE DEF o
  <1>7. CASE p = o
    <2>1. \A v \in Workers : Finalizes(v, p)' => v = w
      BY <1>3, <1>5, <1>6, <1>7
    <2> QED BY <1>3, <1>7, <2>1
  <1>8. CASE p # o
    <2>1. \A v \in Workers : Finalizes(v, p)' => Finalizes(v, p)
      BY <1>5, <1>8
    <2> QED BY <1>3, <1>8, <2>1 DEF SoleOK
  <1> QED BY <1>7, <1>8

\* Who completes an order that was never overtaken was alone with it.
LEMMA SoleCommit ==
  ASSUME GrantInv, SoleOK, NEW w \in Workers, CommitGrant(w)
  PROVE  SoleOK'
  <1> DEFINE o == worker[w].order
  <1>1. TypeOK /\ o \in Orders /\ Finalizes(w, o)
    BY DEF GrantInv, WorkerOK, CommitGrant, Finalizes
  <1>2. \A p \in Orders : order'[p].overtaken = order[p].overtaken /\ (p # o => order'[p] = order[p])
    <2> DEFINE c == order[o].consumed \/ Unconsumed(w)
    <2>1. order' = [order EXCEPT ![o].status = "completed", ![o].consumed = c, ![o].old = FALSE]
      BY <1>1 DEF CommitGrant, TypeOK
    <2> HIDE DEF c
    <2> QED BY <1>1, <2>1 DEF TypeOK
  <1>3. worker' = [worker EXCEPT ![w] = Idle] /\ ~(Idle.pc \in {"wait", "grant"})
    BY IdleState DEF CommitGrant, Finish
  <1>4. \A v \in Workers, p \in Orders : Finalizes(v, p)' => v # w /\ Finalizes(v, p)
    BY <1>1, <1>3 DEF Finalizes, TypeOK
  <1> SUFFICES ASSUME NEW p \in Orders, ~order'[p].overtaken
               PROVE  /\ \A u, v \in Workers : Finalizes(u, p)' /\ Finalizes(v, p)' => u = v
                      /\ \A v \in Workers : Finalizes(v, p)' => order'[p].status = "processing"
    BY DEF SoleOK
  <1> HIDE DEF o
  <1>5. ~order[p].overtaken
    BY <1>2
  <1>6. CASE p = o
    <2>1. \A v \in Workers : ~Finalizes(v, p)'
      BY <1>1, <1>4, <1>5, <1>6 DEF SoleOK
    <2> QED BY <2>1
  <1>7. CASE p # o
    BY <1>2, <1>4, <1>5, <1>7 DEF SoleOK
  <1> QED BY <1>6, <1>7

\* An order that is new has no worker.
LEMMA SoleCreate ==
  ASSUME GrantInv, TakenOK, SoleOK, NEW o \in Orders, CreateOrder(o)
  PROVE  SoleOK'
  <1>1. order[o].status = "none" /\ UNCHANGED worker /\ \A p \in Orders : p # o => order'[p] = order[p]
    BY DEF CreateOrder, GrantInv, TypeOK
  <1>2. \A w \in Workers : ~Finalizes(w, o)
    BY <1>1 DEF TakenOK, Taken, Finalizes
  <1>3. \A w \in Workers, p \in Orders : Finalizes(w, p)' => Finalizes(w, p)
    BY <1>1 DEF Finalizes
  <1> QED BY <1>1, <1>2, <1>3 DEF SoleOK

\* Every step keeps orders with the one worker that claimed them.
LEMMA SoleInductive ==
  ASSUME GrantInv, TakenOK, SoleOK, [Next]_vars
  PROVE  SoleOK'
  <1>1. TypeOK /\ WorkerOK
    BY DEF GrantInv
  <1>2. ASSUME NEW w \in Workers, Finish(w) \/ Throw(w) PROVE FinalsKept
    <2>1. worker' = [worker EXCEPT ![w] = Idle] /\ ~(Idle.pc \in {"wait", "grant"})
      BY <1>2, IdleState DEF Finish, Throw
    <2> QED BY <1>1, <2>1, FinalsSet
  <1>3. ASSUME NEW w \in Workers, NEW pc \in Outside \ {"wait"}, Goto(w, pc) PROVE FinalsKept
    <2> DEFINE r == [worker[w] EXCEPT !.pc = pc]
    <2>1. worker' = [worker EXCEPT ![w] = r] /\ worker[w] \in WorkerStates
      BY <1>1, <1>3 DEF Goto, TypeOK
    <2>2. ~(r.pc \in {"wait", "grant"})
      BY <2>1 DEF WorkerStates, Outside
    <2> HIDE DEF r
    <2> QED BY <1>1, <2>1, <2>2, FinalsSet
  <1>4. UNCHANGED worker => FinalsKept
    BY DEF FinalsKept, Finalizes
  <1>5. UNCHANGED order => HeldKept
    BY DEF HeldKept
  <1>6. ASSUME NEW o \in Orders, NEW status
        PROVE  /\ Closing(o, status).overtaken = order[o].overtaken
               /\ order[o].status = "processing" => Closing(o, status) = order[o]
    <2>1. order[o] \in OrderStates
      BY <1>1 DEF TypeOK, OrderStates
    <2> QED BY <2>1 DEF Closing, OrderStates
  <1>7. ASSUME NEW o \in Orders, CreateOrder(o) \/ CloseOrder(o) \/ TimePasses(o)
        PROVE  SoleOK'
    <2>1. CASE CreateOrder(o)
      BY <1>1, <2>1, SoleCreate
    <2>2. CASE CloseOrder(o)
      <3>1. PICK status \in Closed : order' = [order EXCEPT ![o] = Closing(o, status)]
        BY <2>2 DEF CloseOrder
      <3>2. order[o].status = "pending" /\ UNCHANGED worker
        BY <2>2 DEF CloseOrder
      <3>3. HeldKept
        BY <1>1, <1>6, <3>1, <3>2, HeldSet
      <3> QED BY <1>4, <3>2, <3>3, SoleStep
    <2>3. CASE TimePasses(o)
      <3>1. order[o] \in OrderStates /\ UNCHANGED worker
        BY <1>1, <2>3 DEF TimePasses, TypeOK, OrderStates
      <3>2. /\ [order[o] EXCEPT !.late = TRUE].status = order[o].status
            /\ [order[o] EXCEPT !.late = TRUE].overtaken = order[o].overtaken
            /\ [order[o] EXCEPT !.old = TRUE].status = order[o].status
            /\ [order[o] EXCEPT !.old = TRUE].overtaken = order[o].overtaken
        BY <3>1 DEF OrderStates
      <3>3. PICK r : order' = [order EXCEPT ![o] = r] /\ r.status = order[o].status
                     /\ r.overtaken = order[o].overtaken
        <4>1. \/ order' = [order EXCEPT ![o] = [order[o] EXCEPT !.late = TRUE]]
              \/ order' = [order EXCEPT ![o] = [order[o] EXCEPT !.old = TRUE]]
          BY <2>3 DEF TimePasses
        <4> QED BY <3>2, <4>1
      <3>4. HeldKept
        BY <1>1, <3>3, HeldSet
      <3> QED BY <1>4, <3>1, <3>4, SoleStep
    <2> QED BY <1>7, <2>1, <2>2, <2>3
  <1>8. ASSUME NEW w \in Workers, NEW o \in Orders,
               Recover(w, o) \/ \E good \in BOOLEAN : Notify(w, o, good)
        PROVE  SoleOK'
    <2>1. CASE Recover(w, o)
      <3> DEFINE r == [Idle EXCEPT !.pc = "claim", !.order = o]
      <3>1. worker' = [worker EXCEPT ![w] = r] /\ Reset(o)
        BY <2>1 DEF Recover
      <3>2. ~(r.pc \in {"wait", "grant"})
        BY DEF Idle
      <3> HIDE DEF r
      <3> QED BY <1>1, <3>1, <3>2, FinalsSet, SoleReset
    <2>2. ASSUME NEW good \in BOOLEAN, Notify(w, o, good) PROVE SoleOK'
      <3> DEFINE c == IF order[o].status = "processing" THEN "claim"
                      ELSE IF order[o].status = "pending" /\ order[o].late THEN "expire"
                      ELSE IF good THEN "mark" ELSE "reject"
                 r == [Idle EXCEPT !.order = o, !.good = good, !.pc = c]
      <3>1. worker' = [worker EXCEPT ![w] = r] /\ UNCHANGED order
        BY <2>2 DEF Notify
      <3>2. c \in Outside \ {"wait"}
        BY DEF Outside
      <3> HIDE DEF c
      <3>3. ~(r.pc \in {"wait", "grant"})
        BY <3>2 DEF Idle, Outside
      <3> HIDE DEF r
      <3> QED BY <1>1, <1>5, <3>1, <3>3, FinalsSet, SoleStep
    <2> QED BY <1>8, <2>1, <2>2
  <1>9. ASSUME NEW w \in Workers, WorkerStep(w) PROVE SoleOK'
    <2>1. worker[w].pc # "idle"
      BY <1>9 DEF WorkerStep, ExpireNotified, RejectNotified, MarkPaid, Claim, ResetStale, BeginGrant,
                  CommitGrant, FailGrant
    <2>2. worker[w].order \in Orders
      BY <1>1, <2>1 DEF WorkerOK
    <2> DEFINE o == worker[w].order
    <2>3. CASE ExpireNotified(w)
      <3>1. order' = [order EXCEPT ![o] = Closing(o, "expired")] /\ Finish(w)
        BY <2>3 DEF ExpireNotified
      <3>2. HeldKept
        BY <1>1, <1>6, <2>2, <3>1, HeldSet
      <3> QED BY <1>2, <3>1, <3>2, SoleStep
    <2>4. CASE RejectNotified(w)
      <3> DEFINE c == Closing(o, "failed")
                 r == [c EXCEPT !.old = FALSE]
      <3>1. order' = [order EXCEPT ![o] = r] /\ Finish(w)
        BY <2>4 DEF RejectNotified
      <3>2. c \in OrderStates /\ c.overtaken = order[o].overtaken
            /\ (order[o].status = "processing" => c.status = "processing")
        BY <1>1, <1>6, <2>2, CloseFacts DEF Closed
      <3> HIDE DEF c
      <3>3. r.overtaken = c.overtaken /\ r.status = c.status
        BY <3>2 DEF OrderStates
      <3> HIDE DEF r
      <3>4. HeldKept
        BY <1>1, <2>2, <3>1, <3>2, <3>3, HeldSet
      <3> QED BY <1>2, <3>1, <3>4, SoleStep
    <2>5. CASE MarkPaid(w)
      <3>1. HeldKept
        BY <1>1, <2>2, <2>5 DEF MarkPaid, TypeOK, HeldKept
      <3>2. Goto(w, "claim") \/ Finish(w)
        BY <2>5 DEF MarkPaid
      <3>3. FinalsKept
        BY <1>2, <1>3, <3>2 DEF Outside
      <3> QED BY <3>1, <3>3, SoleStep
    <2>6. CASE Claim(w)
      <3>1. CASE order[o].status = "paid"
        BY <2>6, <3>1, SoleClaim
      <3>2. CASE order[o].status # "paid"
        <4>1. (Goto(w, "reset") \/ Finish(w)) /\ UNCHANGED order
          BY <2>6, <3>2 DEF Claim
        <4>2. FinalsKept
          BY <1>2, <1>3, <4>1 DEF Outside
        <4> QED BY <1>5, <4>1, <4>2, SoleStep
      <3> QED BY <3>1, <3>2
    <2>7. CASE ResetStale(w)
      <3>1. (Goto(w, "reclaim") \/ Finish(w)) /\ (Reset(o) \/ UNCHANGED order)
        BY <2>7 DEF ResetStale
      <3>2. FinalsKept
        BY <1>2, <1>3, <3>1 DEF Outside
      <3> QED BY <1>1, <1>5, <2>2, <3>1, <3>2, SoleStep, SoleReset
    <2>8. CASE BeginGrant(w)
      <3>1. UNCHANGED order /\ worker[w].pc = "wait"
        BY <2>8 DEF BeginGrant
      <3>2. \A v \in Workers : worker'[v].order = worker[v].order
                               /\ (worker'[v].pc = worker[v].pc \/ worker[v].pc = "wait")
        BY <1>1, <2>8 DEF BeginGrant, TypeOK, WorkerStates
      <3>3. FinalsKept
        BY <3>2 DEF FinalsKept, Finalizes
      <3> QED BY <1>5, <3>1, <3>3, SoleStep
    <2>9. CASE CommitGrant(w)
      BY <2>9, SoleCommit
    <2>10. CASE FailGrant(w)
      BY <1>2, <1>5, <2>10, SoleStep DEF FailGrant
    <2> QED BY <1>9, <2>3, <2>4, <2>5, <2>6, <2>7, <2>8, <2>9, <2>10 DEF WorkerStep
  <1>10. ASSUME NEW i \in Instances, Crash(i) PROVE SoleOK'
    <2>1. FinalsKept
      BY <1>10, IdleState DEF Crash, FinalsKept, Finalizes
    <2> QED BY <1>5, <1>10, <2>1, SoleStep DEF Crash
  <1>11. CASE PurchaseWithBalance \/ UNCHANGED vars
    BY <1>4, <1>5, <1>11, SoleStep DEF PurchaseWithBalance, vars
  <1> QED BY <1>7, <1>8, <1>9, <1>10, <1>11 DEF Next

\* What is read at the beginning is true of the row.
LEMMA UnseenBegin ==
  ASSUME GrantInv, UnseenOK, NEW w \in Workers, BeginGrant(w)
  PROVE  UnseenOK'
  <1>1. TypeOK /\ UNCHANGED <<tag, grants>>
    BY DEF GrantInv, BeginGrant
  <1>2. \A v \in Workers : v # w => worker'[v] = worker[v]
    BY <1>1 DEF BeginGrant, TypeOK
  <1>3. worker'[w].order = worker[w].order /\ worker'[w].seen = (tag[Row[worker[w].order]] = worker[w].order)
    BY <1>1 DEF BeginGrant, TypeOK, WorkerStates
  <1> QED BY <1>1, <1>2, <1>3 DEF UnseenOK

\* What a commit does to rows and to the history of grants.
LEMMA CommitShape ==
  ASSUME GrantInv, NEW w \in Workers, CommitGrant(w)
  PROVE  /\ worker[w].order \in Orders
         /\ worker[w].seen => UNCHANGED <<tag, grants>>
         /\ ~worker[w].seen =>
              /\ \A p \in Orders : grants'[p] = IF p = worker[w].order
                                               THEN [n |-> grants[p].n + 1, by |-> Home[w]] ELSE grants[p]
              /\ \A q \in Rows : tag'[q] = IF q = Row[worker[w].order] THEN worker[w].order ELSE tag[q]
  <1>1. TypeOK /\ worker[w].order \in Orders
    BY DEF GrantInv, WorkerOK, CommitGrant
  <1> QED BY <1>1 DEF CommitGrant, Counted, Granted, TypeOK

\* Whoever is inside in another instance sees that the order was granted
\* there, or that its number is gone; nobody else is inside in this one.
LEMMA UnseenCommit ==
  ASSUME GrantInv, UnseenOK, NEW w \in Workers, CommitGrant(w)
  PROVE  UnseenOK'
  <1>1. TypeOK /\ WorkerOK /\ LockOK /\ worker[w].pc = "grant" /\ worker[w].order \in Orders
    BY DEF GrantInv, WorkerOK, CommitGrant
  <1>2. worker' = [worker EXCEPT ![w] = Idle]
    BY DEF CommitGrant, Finish
  <1> SUFFICES ASSUME NEW v \in Workers, worker'[v].pc = "grant", ~worker'[v].seen
               PROVE  \/ tag'[Row[worker'[v].order]] # worker'[v].order
                      \/ grants'[worker'[v].order].by # Home[v]
    BY DEF UnseenOK
  <1>3. v # w /\ worker'[v] = worker[v]
    BY <1>1, <1>2, IdleState DEF TypeOK
  <1>4. Home[v] # Home[w]
    BY <1>1, <1>3 DEF LockOK, HoldsLock
  <1> DEFINE o == worker[w].order
             p == worker[v].order
  <1>5. p \in Orders /\ Row[p] \in Rows
    BY <1>1, <1>3 DEF WorkerOK, Rows
  <1>6. tag[Row[p]] # p \/ grants[p].by # Home[v]
    BY <1>3 DEF UnseenOK
  <1>7. CASE worker[w].seen
    BY <1>3, <1>6, <1>7, CommitShape
  <1>8. CASE ~worker[w].seen
    <2>1. /\ grants'[p] = IF p = o THEN [n |-> grants[p].n + 1, by |-> Home[w]] ELSE grants[p]
          /\ tag'[Row[p]] = IF Row[p] = Row[o] THEN o ELSE tag[Row[p]]
      BY <1>5, <1>8, CommitShape
    <2>2. CASE p = o
      BY <1>3, <1>4, <2>1, <2>2
    <2>3. CASE p # o
      BY <1>3, <1>6, <2>1, <2>3
    <2> QED BY <2>2, <2>3
  <1> QED BY <1>7, <1>8

OnceInv == UnseenOK /\ SoleOK

\* Every step keeps both.
LEMMA OnceInductive ==
  ASSUME GrantIInv, OnceInv, [Next]_vars
  PROVE  OnceInv'
  <1>1. GrantInv /\ TakenOK /\ UnseenOK /\ SoleOK
    BY DEF GrantIInv, OnceInv
  <1>2. SoleOK'
    BY <1>1, SoleInductive
  <1>3. CASE Quiet
    <2>1. UnseenOK'
      BY <1>1, <1>3 DEF Quiet, WorkersKept, UnseenOK
    <2> QED BY <1>2, <2>1 DEF OnceInv
  <1> QED BY <1>1, <1>2, <1>3, NextCases, UnseenBegin, UnseenCommit DEF OnceInv

\* finalizePaidOrder grants an order a second time only if its claim was given
\* up while the worker that had it was alive, and then only if another renewal
\* of the subscription has overwritten the order's number or the grant before
\* came from another panel instance: with any number of instances, and of
\* orders that renew the same subscription.
THEOREM GrantOnce == Spec => GrantedOnceUnlessOvertaken
  <1>1. Init => OnceInv
    BY IdleState DEF Init, OnceInv, UnseenOK, SoleOK, Finalizes
  <1>2. GrantIInv /\ OnceInv /\ [Next]_vars => OnceInv'
    BY OnceInductive
  <1>3. ASSUME GrantIInv, OnceInv, [Next]_vars, NEW o \in Orders, grants'[o] # grants[o], grants[o].n > 0
        PROVE  order[o].overtaken /\ (tag[Row[o]] # o \/ grants[o].by # grants'[o].by)
    <2>1. GrantInv /\ TakenOK /\ UnseenOK /\ SoleOK
      BY <1>3 DEF GrantIInv, OnceInv
    <2>2. PICK w \in Workers : CommitGrant(w)
      <3>1. ~Quiet
        BY <1>3 DEF Quiet
      <3>2. ASSUME NEW v \in Workers, BeginGrant(v) PROVE FALSE
        BY <1>3, <3>2 DEF BeginGrant
      <3> QED BY <1>3, <2>1, <3>1, <3>2, NextCases
    <2>3. o = worker[w].order /\ ~worker[w].seen /\ grants'[o].by = Home[w]
      <3>1. ~worker[w].seen
        BY <1>3, <2>1, <2>2, CommitShape
      <3>2. \A p \in Orders : grants'[p] = IF p = worker[w].order
                                           THEN [n |-> grants[p].n + 1, by |-> Home[w]] ELSE grants[p]
        BY <2>1, <2>2, <3>1, CommitShape
      <3>3. o = worker[w].order
        BY <1>3, <3>2
      <3>4. grants'[o] = [n |-> grants[o].n + 1, by |-> Home[w]]
        BY <3>2, <3>3
      <3> QED BY <3>1, <3>3, <3>4
    <2>4. worker[w].pc = "grant"
      BY <2>2 DEF CommitGrant
    <2>5. tag[Row[o]] # o \/ grants[o].by # Home[w]
      BY <2>1, <2>3, <2>4 DEF UnseenOK
    <2>6. order[o].status = "completed"
      BY <1>3, <2>1 DEF GrantInv, CompletedMeansGranted
    <2>7. Finalizes(w, o)
      BY <2>3, <2>4 DEF Finalizes
    <2>8. order[o].overtaken
      BY <2>1, <2>6, <2>7 DEF SoleOK
    <2> QED BY <2>3, <2>5, <2>8
  <1>4. GrantIInv /\ OnceInv /\ [Next]_vars =>
          [\A o \in Orders :
             grants'[o] # grants[o] /\ grants[o].n > 0 =>
                /\ order[o].overtaken
                /\ tag[Row[o]] # o \/ grants[o].by # grants'[o].by]_vars
    BY <1>3
  <1> QED BY <1>1, <1>2, <1>4, GrantInvariance, PTL DEF Spec, GrantedOnceUnlessOvertaken

-----------------------------------------------------------------------------
(* The discount code: UseInv says for whom it was charged.                 *)

\* An order that is not there yet, or was closed.
Dead == Closed \cup {"none"}

\* The code was charged for those that hold a use and for the purchases; more
\* only for a legacy order.
UsesOK == /\ IsFiniteSet(Users)
          /\ Cardinality(Users) + bought <= used /\ used <= MaxUses
          /\ used = Cardinality(Users) + bought
             \/ \E o \in Legacy \cap Discounted : order[o].status = "completed"

\* Dead orders hold no use; live ones do, unless they are legacy orders that
\* are not granted yet.
HoldersOK == \A o \in Orders :
    /\ order[o].status \in Dead => ~order[o].consumed
    /\ (o \in Discounted /\ o \notin Legacy /\ order[o].status \notin Dead) => order[o].consumed
    /\ (o \in Discounted /\ order[o].status = "completed") => order[o].consumed

\* A worker that has still to consume the code has a legacy order, and if
\* somebody else has consumed it, the order is completed; what a worker takes
\* for consumed is.
ClaimedOK == \A w \in Workers : worker[w].pc \in {"wait", "grant"} =>
    /\ Unconsumed(w) =>
        /\ worker[w].order \in Legacy
        /\ order[worker[w].order].consumed => order[worker[w].order].status = "completed"
    /\ worker[w].consumed => order[worker[w].order].consumed

UseInv == UsesOK /\ HoldersOK /\ ClaimedOK

\* An order that was paid keeps its use.
PaidUses == \A o \in Orders : order[o].status \in Taken => order'[o].consumed = order[o].consumed

\* A worker that waits or grants was there before, or has just read its order.
ReadsKept == \A w \in Workers :
    worker'[w].pc \in {"wait", "grant"} =>
        /\ worker'[w].order = worker[w].order
        /\ \/ worker[w].pc \in {"wait", "grant"} /\ worker'[w].consumed = worker[w].consumed
           \/ /\ worker[w].pc # "idle" /\ order[worker[w].order].status = "paid"
              /\ worker'[w].consumed = order[worker[w].order].consumed

\* What was read of an order stays true of it until it is completed.
LEMMA ClaimedStep ==
  ASSUME GrantIInv, UseInv, SettledKept, PaidUses, ReadsKept
  PROVE  ClaimedOK'
  <1> SUFFICES ASSUME NEW w \in Workers, worker'[w].pc \in {"wait", "grant"}
               PROVE  /\ worker'[w].order \in Discounted /\ ~worker'[w].consumed =>
                            /\ worker'[w].order \in Legacy
                            /\ order'[worker'[w].order].consumed => order'[worker'[w].order].status = "completed"
                      /\ worker'[w].consumed => order'[worker'[w].order].consumed
    BY DEF ClaimedOK, Unconsumed
  <1> DEFINE o == worker[w].order
  <1>1. worker'[w].order = o /\ worker[w].pc # "idle"
    BY DEF ReadsKept
  <1>2. o \in Orders
    BY <1>1 DEF GrantIInv, GrantInv, WorkerOK
  <1>3. CASE worker[w].pc \in {"wait", "grant"} /\ worker'[w].consumed = worker[w].consumed
    <2>1. /\ o \in Discounted /\ ~worker'[w].consumed =>
                o \in Legacy /\ (order[o].consumed => order[o].status = "completed")
          /\ worker'[w].consumed => order[o].consumed
      BY <1>1, <1>3 DEF UseInv, ClaimedOK, Unconsumed
    <2>2. order[o].status \in Taken
      BY <1>3 DEF GrantIInv, TakenOK
    <2>3. order'[o].consumed = order[o].consumed
      BY <1>2, <2>2 DEF PaidUses
    <2> QED BY <1>1, <1>2, <2>1, <2>3 DEF SettledKept
  <1>4. CASE order[o].status = "paid" /\ worker'[w].consumed = order[o].consumed
    <2>1. order'[o].consumed = order[o].consumed
      BY <1>2, <1>4 DEF PaidUses, Taken
    <2>2. o \in Discounted /\ ~order[o].consumed => o \in Legacy
      BY <1>1, <1>2, <1>4 DEF UseInv, HoldersOK, Dead, Closed
    <2> QED BY <1>1, <1>4, <2>1, <2>2
  <1> QED BY <1>3, <1>4 DEF ReadsKept

\* A step that neither takes nor gives back a use.
UsesKept == /\ UNCHANGED <<used, bought>>
            /\ \A o \in Orders : /\ order'[o].consumed = order[o].consumed
                                 /\ (order'[o].status \in Dead) <=> (order[o].status \in Dead)
                                 /\ (o \in Discounted /\ order'[o].status = "completed") => order[o].consumed

\* Such a step keeps the invariant.
LEMMA UsesKeptStep ==
  ASSUME GrantIInv, UseInv, SettledKept, UsesKept, ReadsKept
  PROVE  UseInv'
  <1>1. Users' = Users
    BY DEF Users, UsesKept
  <1>2. UsesOK'
    <2>1. (\E o \in Legacy \cap Discounted : order[o].status = "completed")
            => \E o \in Legacy \cap Discounted : order'[o].status = "completed"
      BY PaymentAssumption DEF SettledKept
    <2> QED BY <1>1, <2>1 DEF UseInv, UsesOK, UsesKept
  <1>3. HoldersOK'
    BY DEF UseInv, HoldersOK, UsesKept
  <1>4. PaidUses
    BY DEF UsesKept, PaidUses
  <1> QED BY <1>2, <1>3, <1>4, ClaimedStep DEF UseInv

\* createOrder takes a use of the code for a discounted order.
LEMMA CreateUses ==
  ASSUME GrantIInv, UseInv, SettledKept, NEW o \in Orders, CreateOrder(o)
  PROVE  UseInv'
  <1>1. TypeOK /\ order[o].status = "none" /\ used \in Nat /\ MaxUses \in Nat /\ bought \in Nat /\ bought' = bought
    BY PaymentAssumption DEF CreateOrder, GrantIInv, GrantInv, TypeOK
  <1>2. \A p \in Orders : order'[p] = IF p = o THEN Pending(o \in Discounted) ELSE order[p]
    BY <1>1 DEF CreateOrder, TypeOK
  <1>3. order'[o].status = "pending" /\ (order'[o].consumed <=> o \in Discounted) /\ ~order[o].consumed
    <2>1. ASSUME NEW c PROVE Pending(c).status = "pending" /\ Pending(c).consumed = c
      BY DEF NoOrder, Pending
    <2>2. order'[o].status = "pending" /\ order'[o].consumed = (o \in Discounted)
      BY <1>2, <2>1
    <2>3. ~order[o].consumed
      BY <1>1 DEF UseInv, HoldersOK, Dead
    <2> QED BY <2>2, <2>3
  <1>4. Users' = IF o \in Discounted THEN Users \cup {o} ELSE Users
    BY <1>2, <1>3 DEF Users
  <1>5. o \notin Users
    BY <1>3 DEF Users
  <1>6. UsesOK'
    <2>1. IsFiniteSet(Users) /\ Cardinality(Users) + bought <= used /\ used <= MaxUses /\ Cardinality(Users) \in Nat
      BY FS_CardinalityType DEF UseInv, UsesOK
    <2>2. /\ IsFiniteSet(Users \cup {o})
          /\ Cardinality(Users \cup {o}) = Cardinality(Users) + 1
      BY <1>5, <2>1, FS_AddElement
    <2>3. (\E p \in Legacy \cap Discounted : order[p].status = "completed")
            => \E p \in Legacy \cap Discounted : order'[p].status = "completed"
      BY PaymentAssumption DEF SettledKept
    <2>4. used' = IF o \in Discounted THEN used + 1 ELSE used
      BY DEF CreateOrder
    <2>5. o \in Discounted => used < MaxUses
      BY DEF CreateOrder
    <2>6. used = Cardinality(Users) + bought \/ \E p \in Legacy \cap Discounted : order[p].status = "completed"
      BY DEF UseInv, UsesOK
    <2>7. IsFiniteSet(Users') /\ Cardinality(Users') + bought' <= used' /\ used' <= MaxUses
      BY <1>1, <1>4, <2>1, <2>2, <2>4, <2>5
    <2>8. used = Cardinality(Users) + bought => used' = Cardinality(Users') + bought'
      BY <1>1, <1>4, <2>1, <2>2, <2>4
    <2> QED BY <2>3, <2>6, <2>7, <2>8 DEF UsesOK
  <1>7. HoldersOK'
    BY <1>2, <1>3 DEF UseInv, HoldersOK, Dead, Closed
  <1>8. PaidUses
    BY <1>1, <1>2 DEF PaidUses, Taken
  <1>9. ReadsKept
    BY DEF CreateOrder, ReadsKept
  <1> QED BY <1>6, <1>7, <1>8, <1>9, ClaimedStep DEF UseInv

\* closePaymentOrderAndReleaseDiscount gives the use of a pending order back.
LEMMA CloseUses ==
  ASSUME GrantIInv, UseInv, SettledKept, ReadsKept, NEW o \in Orders, NEW r,
         order' = [order EXCEPT ![o] = r], used' = Release(o), UNCHANGED bought,
         order[o].status = "pending" => r.status \in Closed /\ ~r.consumed,
         order[o].status # "pending" => r.status = order[o].status /\ r.consumed = order[o].consumed
  PROVE  UseInv'
  <1>1. TypeOK /\ used \in Nat /\ MaxUses \in Nat /\ bought \in Nat
    BY PaymentAssumption DEF GrantIInv, GrantInv, TypeOK
  <1>2. \A p \in Orders : order'[p] = IF p = o THEN r ELSE order[p]
    BY <1>1 DEF TypeOK
  <1>3. CASE order[o].status # "pending"
    <2>1. UsesKept
      BY <1>2, <1>3 DEF Release, UsesKept, UseInv, HoldersOK
    <2> QED BY <2>1, UsesKeptStep
  <1>4. CASE order[o].status = "pending"
    <2>1. Users' = Users \ {o}
      BY <1>2, <1>4 DEF Users
    <2>2. o \in Users <=> order[o].consumed
      BY DEF Users
    <2>3. IsFiniteSet(Users) /\ Cardinality(Users) + bought <= used /\ used <= MaxUses /\ Cardinality(Users) \in Nat
      BY FS_CardinalityType DEF UseInv, UsesOK
    <2>4. /\ IsFiniteSet(Users \ {o}) /\ Cardinality(Users \ {o}) \in Nat
          /\ Cardinality(Users \ {o}) = IF order[o].consumed THEN Cardinality(Users) - 1 ELSE Cardinality(Users)
      BY <2>2, <2>3, FS_RemoveElement, FS_CardinalityType
    <2>5. used' = IF order[o].consumed THEN used - 1 ELSE used
      <3>1. order[o].consumed => used > 0
        BY <1>1, <2>3, <2>4
      <3> QED BY <1>4, <3>1 DEF Release
    <2>6. UsesOK'
      <3>1. (\E p \in Legacy \cap Discounted : order[p].status = "completed")
              => \E p \in Legacy \cap Discounted : order'[p].status = "completed"
        BY PaymentAssumption DEF SettledKept
      <3>2. used = Cardinality(Users) + bought \/ \E p \in Legacy \cap Discounted : order[p].status = "completed"
        BY DEF UseInv, UsesOK
      <3>3. IsFiniteSet(Users') /\ Cardinality(Users') + bought' <= used' /\ used' <= MaxUses
        BY <1>1, <2>1, <2>3, <2>4, <2>5
      <3>4. used = Cardinality(Users) + bought => used' = Cardinality(Users') + bought'
        BY <1>1, <2>1, <2>3, <2>4, <2>5
      <3> QED BY <3>1, <3>2, <3>3, <3>4 DEF UsesOK
    <2>7. HoldersOK'
      BY <1>2, <1>4 DEF UseInv, HoldersOK, Dead, Closed
    <2>8. PaidUses
      BY <1>2, <1>4 DEF PaidUses, Taken
    <2> QED BY <2>6, <2>7, <2>8, ClaimedStep DEF UseInv
  <1> QED BY <1>3, <1>4

\* The commit consumes the code for a legacy order, a second time if two
\* workers have claimed it unconsumed.
LEMMA CommitUses ==
  ASSUME GrantIInv, UseInv, SettledKept, NEW w \in Workers, CommitGrant(w)
  PROVE  UseInv'
  <1>1. TypeOK /\ used \in Nat /\ MaxUses \in Nat /\ bought \in Nat
    BY PaymentAssumption DEF GrantIInv, GrantInv, TypeOK
  <1>2. worker[w].pc = "grant" /\ worker[w].order \in Orders
    BY DEF CommitGrant, GrantIInv, GrantInv, WorkerOK
  <1> DEFINE o == worker[w].order
             unconsumed == Unconsumed(w)
             r == [order[o] EXCEPT !.status = "completed", !.consumed = order[o].consumed \/ unconsumed,
                                   !.old = FALSE]
  <1>3. order[o].status \in Taken /\ order[o] \in OrderStates
    BY <1>1, <1>2 DEF GrantIInv, TakenOK, TypeOK, OrderStates
  <1>4. order' = [order EXCEPT ![o] = r]
    BY <1>1, <1>2 DEF CommitGrant, TypeOK
  <1>5. r.status = "completed" /\ (r.consumed <=> (order[o].consumed \/ unconsumed))
    <2> HIDE DEF unconsumed
    <2>1. PICK c : c = (order[o].consumed \/ unconsumed)
      OBVIOUS
    <2> QED BY <1>3, <2>1 DEF OrderStates
  <1> HIDE DEF r
  <1>6. \A p \in Orders : order'[p] = IF p = o THEN r ELSE order[p]
    BY <1>1, <1>4 DEF TypeOK
  <1>7. worker' = [worker EXCEPT ![w] = Idle]
    BY DEF CommitGrant, Finish
  <1>8. \A v \in Workers : worker'[v].pc \in {"wait", "grant"} => worker'[v] = worker[v]
    BY <1>1, <1>7, IdleState DEF TypeOK
  <1>9. ~unconsumed => UseInv'
    <2> SUFFICES ASSUME ~unconsumed PROVE UseInv'
      OBVIOUS
    <2>1. UsesKept
      <3>1. UNCHANGED <<used, bought>> /\ (o \in Discounted => order[o].consumed)
        BY <1>2 DEF CommitGrant, UseInv, ClaimedOK, Unconsumed
      <3>2. r.consumed = order[o].consumed
        <4> HIDE DEF unconsumed
        <4>1. r.consumed \in BOOLEAN /\ order[o].consumed \in BOOLEAN
          BY <1>2, <1>3, <1>4 DEF OrderStates, r
        <4> QED BY <1>5, <4>1
      <3>3. ~(order[o].status \in Dead) /\ ~(r.status \in Dead)
        BY <1>3, <1>5 DEF Dead, Closed, Taken
      <3> QED BY <1>6, <3>1, <3>2, <3>3 DEF UsesKept, UseInv, HoldersOK
    <2>2. ReadsKept
      BY <1>8 DEF ReadsKept
    <2> QED BY <2>1, <2>2, UsesKeptStep
  <1>10. unconsumed => UseInv'
    <2> SUFFICES ASSUME unconsumed PROVE UseInv'
      OBVIOUS
    <2>1. o \in Legacy \cap Discounted /\ used < MaxUses /\ used' = used + 1 /\ bought' = bought
      BY <1>2 DEF CommitGrant, UseInv, ClaimedOK, Unconsumed
    <2>2. order'[o].status = "completed" /\ order'[o].consumed
      BY <1>2, <1>5, <1>6
    <2>3. Users' = Users \cup {o}
      BY <1>2, <1>6, <2>2 DEF Users
    <2>4. IsFiniteSet(Users) /\ Cardinality(Users) + bought <= used /\ Cardinality(Users) \in Nat
      BY FS_CardinalityType DEF UseInv, UsesOK
    <2>5. IsFiniteSet(Users \cup {o}) /\ Cardinality(Users \cup {o}) <= Cardinality(Users) + 1
          /\ Cardinality(Users \cup {o}) \in Nat
      BY <2>4, FS_AddElement, FS_CardinalityType
    <2>6. UsesOK'
      <3>1. Cardinality(Users') + bought' <= used' /\ used' <= MaxUses /\ IsFiniteSet(Users')
        BY <1>1, <2>1, <2>3, <2>4, <2>5
      <3> QED BY <2>1, <2>2, <3>1 DEF UsesOK
    <2>7. HoldersOK'
      BY <1>6, <2>2 DEF UseInv, HoldersOK, Dead, Closed
    <2>8. ClaimedOK'
      <3> SUFFICES ASSUME NEW v \in Workers, worker'[v].pc \in {"wait", "grant"}
                   PROVE  /\ worker'[v].order \in Discounted /\ ~worker'[v].consumed =>
                               /\ worker'[v].order \in Legacy
                               /\ order'[worker'[v].order].consumed =>
                                      order'[worker'[v].order].status = "completed"
                          /\ worker'[v].consumed => order'[worker'[v].order].consumed
        BY DEF ClaimedOK, Unconsumed
      <3>1. worker'[v] = worker[v] /\ worker[v].order \in Orders
        BY <1>8 DEF GrantIInv, GrantInv, WorkerOK
      <3>2. /\ worker[v].order \in Discounted /\ ~worker[v].consumed =>
                 /\ worker[v].order \in Legacy
                 /\ order[worker[v].order].consumed => order[worker[v].order].status = "completed"
            /\ worker[v].consumed => order[worker[v].order].consumed
        BY <3>1 DEF UseInv, ClaimedOK, Unconsumed
      <3> QED BY <1>6, <2>2, <3>1, <3>2
    <2> QED BY <2>6, <2>7, <2>8 DEF UseInv
  <1> QED BY <1>9, <1>10

\* A purchase with the balance takes a use for itself.
LEMMA PurchaseUses ==
  ASSUME GrantIInv, UseInv, SettledKept, PurchaseWithBalance
  PROVE  UseInv'
  <1>1. /\ used \in Nat /\ MaxUses \in Nat /\ bought \in Nat /\ used < MaxUses
        /\ used' = used + 1 /\ bought' = bought + 1 /\ UNCHANGED <<order, worker>>
    BY PaymentAssumption DEF GrantIInv, GrantInv, TypeOK, PurchaseWithBalance
  <1>2. Users' = Users /\ Cardinality(Users) \in Nat
    BY <1>1, FS_CardinalityType DEF Users, UseInv, UsesOK
  <1>3. Cardinality(Users') + bought' <= used' /\ used' <= MaxUses
    BY <1>1, <1>2 DEF UseInv, UsesOK
  <1>4. used = Cardinality(Users) + bought => used' = Cardinality(Users') + bought'
    BY <1>1, <1>2
  <1>5. UsesOK'
    BY <1>1, <1>2, <1>3, <1>4 DEF UseInv, UsesOK
  <1>6. HoldersOK' /\ ClaimedOK'
    BY <1>1 DEF UseInv, HoldersOK, ClaimedOK, Unconsumed
  <1> QED BY <1>5, <1>6 DEF UseInv

\* A worker that goes to a place before the claim, or home.
LEMMA ReadsSet ==
  ASSUME TypeOK, NEW w \in Workers, NEW r, worker' = [worker EXCEPT ![w] = r],
         ~(r.pc \in {"wait", "grant"})
  PROVE  ReadsKept
  BY DEF TypeOK, ReadsKept

\* One order is written that holds a use as before, dead or alive as before.
LEMMA StatusUses ==
  ASSUME TypeOK, UseInv, NEW o \in Orders, NEW s \in Statuses, UNCHANGED <<used, bought>>,
         order' = [order EXCEPT ![o].status = s, ![o].old = FALSE],
         (s \in Dead) <=> (order[o].status \in Dead),
         s = "completed" => order[o].status = "completed"
  PROVE  UsesKept
  <1> DEFINE r == [order[o] EXCEPT !.status = s, !.old = FALSE]
  <1>1. order[o] \in OrderStates
    BY DEF TypeOK, OrderStates
  <1>2. r.status = s /\ r.consumed = order[o].consumed
    BY <1>1 DEF OrderStates
  <1>3. order' = [order EXCEPT ![o] = r]
    BY DEF TypeOK
  <1> HIDE DEF r
  <1>4. \A p \in Orders : order'[p] = IF p = o THEN r ELSE order[p]
    BY <1>3 DEF TypeOK
  <1> QED BY <1>2, <1>4 DEF UsesKept, UseInv, HoldersOK

\* Every step keeps the account of the code.
LEMMA UseInductive ==
  ASSUME GrantIInv, UseInv, [Next]_vars
  PROVE  UseInv'
  <1>1. TypeOK /\ WorkerOK /\ SettledKept
    BY NextInv DEF GrantIInv, GrantInv
  <1>2. ASSUME NEW w \in Workers, Finish(w) \/ Throw(w) PROVE ReadsKept
    <2>1. worker' = [worker EXCEPT ![w] = Idle] /\ ~(Idle.pc \in {"wait", "grant"})
      BY <1>2, IdleState DEF Finish, Throw
    <2> QED BY <1>1, <2>1, ReadsSet
  <1>3. ASSUME NEW w \in Workers, NEW pc \in Outside \ {"wait"}, Goto(w, pc) PROVE ReadsKept
    <2> DEFINE r == [worker[w] EXCEPT !.pc = pc]
    <2>1. worker' = [worker EXCEPT ![w] = r] /\ worker[w] \in WorkerStates
      BY <1>1, <1>3 DEF Goto, TypeOK
    <2>2. ~(r.pc \in {"wait", "grant"})
      BY <2>1 DEF WorkerStates, Outside
    <2> HIDE DEF r
    <2> QED BY <1>1, <2>1, <2>2, ReadsSet
  <1>4. UNCHANGED worker => ReadsKept
    BY DEF ReadsKept
  <1>5. UNCHANGED <<order, used, bought>> => UsesKept
    BY DEF UsesKept, UseInv, HoldersOK
  <1>6. ASSUME NEW o \in Orders, IsStale(o), Reset(o), UNCHANGED <<used, bought>> PROVE UsesKept
    <2>1. PICK r \in OrderStates :
            /\ \A p \in Orders : order'[p] = IF p = o THEN r ELSE order[p]
            /\ r.status = "paid" /\ r.consumed = order[o].consumed
      BY <1>1, <1>6, ResetShape
    <2>2. ~("paid" \in Dead) /\ ~(order[o].status \in Dead)
      BY <1>6 DEF Dead, Closed, IsStale
    <2> QED BY <1>6, <2>1, <2>2 DEF UsesKept, UseInv, HoldersOK
  <1>7. ASSUME NEW o \in Orders, NEW status \in Closed
        PROVE  /\ order[o].status = "pending" =>
                    Closing(o, status).status \in Closed /\ ~Closing(o, status).consumed
               /\ order[o].status # "pending" => Closing(o, status) = order[o]
    <2>1. order[o] \in OrderStates
      BY <1>1 DEF TypeOK, OrderStates
    <2> QED BY <2>1 DEF Closing, OrderStates
  <1>8. ASSUME NEW o \in Orders, CreateOrder(o) \/ CloseOrder(o) \/ TimePasses(o)
        PROVE  UseInv'
    <2>1. CASE CreateOrder(o)
      BY <1>1, <2>1, CreateUses
    <2>2. CASE CloseOrder(o)
      <3>1. PICK status \in Closed : order' = [order EXCEPT ![o] = Closing(o, status)]
        BY <2>2 DEF CloseOrder
      <3>2. used' = Release(o) /\ UNCHANGED <<worker, bought>>
        BY <2>2 DEF CloseOrder
      <3>3. PICK r : r = Closing(o, status)
        OBVIOUS
      <3>4. /\ order[o].status = "pending" => r.status \in Closed /\ ~r.consumed
            /\ order[o].status # "pending" => r.status = order[o].status /\ r.consumed = order[o].consumed
        BY <1>7, <3>3
      <3> QED BY <1>1, <1>4, <3>1, <3>2, <3>3, <3>4, CloseUses
    <2>3. CASE TimePasses(o)
      <3>1. order[o] \in OrderStates /\ UNCHANGED <<worker, used, bought>>
        BY <1>1, <2>3 DEF TimePasses, TypeOK, OrderStates
      <3>2. \A p \in Orders : order'[p].consumed = order[p].consumed /\ order'[p].status = order[p].status
        BY <1>1, <2>3, TimeKeeps
      <3>3. UsesKept
        BY <3>1, <3>2 DEF UsesKept, UseInv, HoldersOK
      <3> QED BY <1>1, <1>4, <3>1, <3>3, UsesKeptStep
    <2> QED BY <1>8, <2>1, <2>2, <2>3
  <1>9. ASSUME NEW w \in Workers, NEW o \in Orders,
               Recover(w, o) \/ \E good \in BOOLEAN : Notify(w, o, good)
        PROVE  UseInv'
    <2>1. CASE Recover(w, o)
      <3> DEFINE r == [Idle EXCEPT !.pc = "claim", !.order = o]
      <3>1. UsesKept
        BY <1>6, <2>1 DEF Recover
      <3>2. worker' = [worker EXCEPT ![w] = r]
        BY <2>1 DEF Recover
      <3>3. ~(r.pc \in {"wait", "grant"})
        BY DEF Idle
      <3> HIDE DEF r
      <3> QED BY <1>1, <3>1, <3>2, <3>3, ReadsSet, UsesKeptStep
    <2>2. ASSUME NEW good \in BOOLEAN, Notify(w, o, good) PROVE UseInv'
      <3>1. PICK pc \in Outside \ {"wait"} :
              worker' = [worker EXCEPT ![w] = [Idle EXCEPT !.order = o, !.good = good, !.pc = pc]]
        <4> DEFINE c == IF order[o].status = "processing" THEN "claim"
                        ELSE IF order[o].status = "pending" /\ order[o].late THEN "expire"
                        ELSE IF good THEN "mark" ELSE "reject"
        <4>1. c \in Outside \ {"wait"}
          BY DEF Outside
        <4>2. worker' = [worker EXCEPT ![w] = [Idle EXCEPT !.order = o, !.good = good, !.pc = c]]
          BY <2>2 DEF Notify
        <4> HIDE DEF c
        <4> QED BY <4>1, <4>2
      <3> DEFINE r == [Idle EXCEPT !.order = o, !.good = good, !.pc = pc]
      <3>2. ~(r.pc \in {"wait", "grant"})
        BY DEF Idle, Outside
      <3>3. worker' = [worker EXCEPT ![w] = r]
        BY <3>1
      <3>4. UNCHANGED <<order, used, bought>>
        BY <2>2 DEF Notify
      <3> HIDE DEF r
      <3> QED BY <1>1, <1>5, <3>2, <3>3, <3>4, ReadsSet, UsesKeptStep
    <2> QED BY <1>9, <2>1, <2>2
  <1>10. ASSUME NEW w \in Workers, WorkerStep(w) PROVE UseInv'
    <2>1. worker[w].pc # "idle"
      BY <1>10 DEF WorkerStep, ExpireNotified, RejectNotified, MarkPaid, Claim, ResetStale, BeginGrant,
                   CommitGrant, FailGrant
    <2>2. worker[w].order \in Orders
      BY <1>1, <2>1 DEF WorkerOK
    <2> DEFINE o == worker[w].order
    <2>3. CASE ExpireNotified(w)
      <3>1. PICK r : r = Closing(o, "expired")
        OBVIOUS
      <3>2. order' = [order EXCEPT ![o] = r] /\ used' = Release(o) /\ Finish(w) /\ UNCHANGED bought
        BY <2>3, <3>1 DEF ExpireNotified
      <3>3. /\ order[o].status = "pending" => r.status \in Closed /\ ~r.consumed
            /\ order[o].status # "pending" => r.status = order[o].status /\ r.consumed = order[o].consumed
        BY <1>7, <2>2, <3>1 DEF Closed
      <3> HIDE DEF o
      <3> QED BY <1>1, <1>2, <2>2, <3>2, <3>3, CloseUses DEF o
    <2>4. CASE RejectNotified(w)
      <3>1. PICK c : c = Closing(o, "failed")
        OBVIOUS
      <3>2. PICK r : r = [c EXCEPT !.old = FALSE]
        OBVIOUS
      <3>3. order' = [order EXCEPT ![o] = r] /\ used' = Release(o) /\ Finish(w) /\ UNCHANGED bought
        BY <2>4, <3>1, <3>2 DEF RejectNotified
      <3>4. c \in OrderStates
        BY <1>1, <2>2, <3>1, CloseFacts DEF Closed
      <3>5. r.status = c.status /\ r.consumed = c.consumed
        BY <3>2, <3>4 DEF OrderStates
      <3>6. /\ order[o].status = "pending" => r.status \in Closed /\ ~r.consumed
            /\ order[o].status # "pending" => r.status = order[o].status /\ r.consumed = order[o].consumed
        BY <1>7, <2>2, <3>1, <3>5 DEF Closed
      <3> HIDE DEF o
      <3> QED BY <1>1, <1>2, <2>2, <3>3, <3>6, CloseUses DEF o
    <2>5. CASE MarkPaid(w)
      <3> DEFINE s == IF order[o].status = "pending" THEN "paid" ELSE order[o].status
      <3>1. s \in Statuses /\ order' = [order EXCEPT ![o].status = s, ![o].old = FALSE] /\ UNCHANGED <<used, bought>>
        BY <1>1, <2>2, <2>5 DEF MarkPaid, TypeOK, Statuses
      <3>2. ((s \in Dead) <=> (order[o].status \in Dead)) /\ (s = "completed" => order[o].status = "completed")
        BY DEF Dead, Closed
      <3> HIDE DEF s
      <3>3. UsesKept
        BY <1>1, <2>2, <3>1, <3>2, StatusUses
      <3>4. Goto(w, "claim") \/ Finish(w)
        BY <2>5 DEF MarkPaid
      <3>5. ReadsKept
        BY <1>2, <1>3, <3>4 DEF Outside
      <3> QED BY <1>1, <3>3, <3>5, UsesKeptStep
    <2>6. CASE Claim(w)
      <3>1. CASE order[o].status = "paid"
        <4> DEFINE s == "processing"
        <4>1. order' = [order EXCEPT ![o].status = s, ![o].old = FALSE] /\ UNCHANGED <<used, bought>>
              /\ worker' = [worker EXCEPT ![w].pc = "wait", ![w].consumed = order[o].consumed]
          BY <2>6, <3>1 DEF Claim
        <4>2. s \in Statuses /\ ~(s \in Dead) /\ ~(order[o].status \in Dead) /\ s # "completed"
          BY <3>1 DEF Statuses, Dead, Closed
        <4> HIDE DEF s
        <4>3. UsesKept
          BY <1>1, <2>2, <4>1, <4>2, StatusUses
        <4>4. ReadsKept
          <5>1. worker'[w].order = o /\ worker'[w].consumed = order[o].consumed
            BY <1>1, <4>1 DEF TypeOK, WorkerStates
          <5>2. \A v \in Workers : v # w => worker'[v] = worker[v]
            BY <1>1, <4>1 DEF TypeOK
          <5> QED BY <2>1, <3>1, <5>1, <5>2 DEF ReadsKept
        <4> QED BY <1>1, <4>3, <4>4, UsesKeptStep
      <3>2. CASE order[o].status # "paid"
        <4>1. (Goto(w, "reset") \/ Finish(w)) /\ UNCHANGED <<order, used, bought>>
          BY <2>6, <3>2 DEF Claim
        <4>2. ReadsKept
          BY <1>2, <1>3, <4>1 DEF Outside
        <4> QED BY <1>1, <1>5, <4>1, <4>2, UsesKeptStep
      <3> QED BY <3>1, <3>2
    <2>7. CASE ResetStale(w)
      <3>1. UsesKept
        BY <1>5, <1>6, <2>2, <2>7 DEF ResetStale
      <3>2. Goto(w, "reclaim") \/ Finish(w)
        BY <2>7 DEF ResetStale
      <3>3. ReadsKept
        BY <1>2, <1>3, <3>2 DEF Outside
      <3> QED BY <1>1, <3>1, <3>3, UsesKeptStep
    <2>8. CASE BeginGrant(w)
      <3>1. UNCHANGED <<order, used, bought>> /\ worker[w].pc = "wait"
        BY <2>8 DEF BeginGrant
      <3>2. \A v \in Workers : /\ worker'[v].order = worker[v].order
                               /\ worker'[v].consumed = worker[v].consumed
                               /\ worker'[v].pc = worker[v].pc \/ worker[v].pc = "wait"
        BY <1>1, <2>8 DEF BeginGrant, TypeOK, WorkerStates
      <3>3. ReadsKept
        BY <3>2 DEF ReadsKept
      <3> QED BY <1>1, <1>5, <3>1, <3>3, UsesKeptStep
    <2>9. CASE CommitGrant(w)
      BY <1>1, <2>9, CommitUses
    <2>10. CASE FailGrant(w)
      BY <1>1, <1>2, <1>5, <2>10, UsesKeptStep DEF FailGrant
    <2> QED BY <1>10, <2>3, <2>4, <2>5, <2>6, <2>7, <2>8, <2>9, <2>10 DEF WorkerStep
  <1>11. ASSUME NEW i \in Instances, Crash(i) PROVE UseInv'
    <2>1. ReadsKept
      BY <1>11, IdleState DEF Crash, ReadsKept
    <2> QED BY <1>1, <1>5, <1>11, <2>1, UsesKeptStep DEF Crash
  <1>12. CASE UNCHANGED vars
    BY <1>1, <1>4, <1>5, <1>12, UsesKeptStep DEF vars
  <1>13. CASE PurchaseWithBalance
    BY <1>1, <1>13, PurchaseUses
  <1> QED BY <1>8, <1>9, <1>10, <1>11, <1>12, <1>13 DEF Next

\* createOrder, closePaymentOrderAndReleaseDiscount, the commit of a grant and
\* purchasePlanWithBalance keep usedCount at the number of orders that hold a
\* use and of purchases, within maxUses, with a use for every order granted
\* with the code; only a completed legacy order can have been charged twice.
THEOREM DiscountCharged == Spec => []DiscountAccounted
  <1>1. Init => UseInv
    <2> SUFFICES ASSUME Init PROVE UseInv
      OBVIOUS
    <2>1. PICK old \in SUBSET Legacy :
            order = [o \in Orders |-> IF o \in old THEN Pending(FALSE) ELSE NoOrder]
      BY DEF Init
    <2>2. \A o \in Orders : /\ ~order[o].consumed
                            /\ order[o].status = "none" \/ (order[o].status = "pending" /\ o \in Legacy)
      BY <2>1 DEF Pending, NoOrder
    <2>3. Users = {}
      BY <2>2 DEF Users
    <2>4. UsesOK
      <3>1. IsFiniteSet(Users) /\ Cardinality(Users) = 0
        BY <2>3, FS_EmptySet
      <3> QED BY <3>1, PaymentAssumption DEF UsesOK, Init
    <2>5. HoldersOK
      BY <2>2 DEF HoldersOK, Dead, Closed
    <2>6. ClaimedOK
      BY IdleState DEF ClaimedOK, Init
    <2> QED BY <2>4, <2>5, <2>6 DEF UseInv
  <1>2. GrantIInv /\ UseInv /\ [Next]_vars => UseInv'
    BY UseInductive
  <1>3. UseInv => DiscountAccounted
    BY DEF UseInv, UsesOK, HoldersOK, DiscountAccounted, Dead
  <1> QED BY <1>1, <1>2, <1>3, GrantInvariance, PTL DEF Spec
=============================================================================
