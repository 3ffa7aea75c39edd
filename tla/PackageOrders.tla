--------------------------- MODULE PackageOrders ---------------------------
(***************************************************************************)
(* Package orders and the entitlement of an event: the handlers of         *)
(* app/main.py and app/admin.py that create, pay, cancel and reconcile     *)
(* orders, PayFast's verified notifications (ITNs), and the catalogue and  *)
(* provider settings those handlers read.                                  *)
(*                                                                         *)
(* A handler runs in one database session (READ COMMITTED).  It is two     *)
(* steps: the first takes the event's row lock if the code does, reads,    *)
(* validates and leaves its pending writes in tx[r]; Commit(r) flushes     *)
(* them and releases the lock.  A handler that locked and then answers an  *)
(* error, or redirects without a commit, has left: its session keeps the   *)
(* lock until get_db closes it, which takes a turn of the event loop, and  *)
(* payfast_notify waits on that loop.  Abort(r) is an exception or a crash.*)
(* A refusal before the lock holds and writes nothing, and is a stutter.   *)
(***************************************************************************)
EXTENDS Naturals, FiniteSets

CONSTANTS
  Events, Orders, Codes,  \* row identifiers of events, package_orders, package_configs
  Demo,                   \* the package code "demo"
  Merchants,              \* PayFast merchant accounts an admin may configure
  Reqs,                   \* concurrent requests, each with its own session
  InitialCatalogue,       \* the seeded package_configs rows
  Users,                  \* who acts: the event's "host", an "admin" on the host's pages
  EventForms,             \* the statuses submitted by the event form and the admin's page
  Outcomes,               \* the payment statuses PayFast reports
  PackageForms,           \* [code, config] submissions of the admin package form
  MaxEdits                \* bound on catalogue and provider edits

OrderStatuses == {"absent", "pending", "awaiting_payment", "paid", "approved",
                  "failed", "cancelled", "payment_review"}
EventStatuses == {"absent", "draft", "live"}
Open          == {"pending", "awaiting_payment"}
Outstanding   == {"awaiting_payment", "paid", "payment_review"}
Closed        == {"cancelled", "failed"}
Settled       == {"approved", "payment_review"}

Config  == [active : BOOLEAN, payment_required : BOOLEAN, price : Nat, rank : Nat]
Order   == [status : OrderStatuses, event : Events, user : Users, package : Codes,
            amount : Nat, source : {"event_creation", "host"}, provider : BOOLEAN]
Form    == [order : Orders, package : Codes, amount : Nat, merchant : Merchants]
Notice  == [form : Form, status : Outcomes]
Actions == {"order_cancelled_by_host", "provider_payment_closed", "late_payment_received",
            "order_manually_approved", "order_cancelled", "order_marked_failed",
            "reviewed_payment_activated"}
Activity == [order : Orders, action : Actions, from : OrderStatuses, to : OrderStatuses]
Ops == {"idle", "create_event", "package_request", "start_checkout", "cancel_host_order",
        "payfast_confirm", "payfast_notify", "update_event", "event_status", "event_package",
        "update_package", "approve_order", "cancel_order", "fail_order",
        "activate_reviewed_payment", "left"}

ASSUME ConstantsAssumption ==
  /\ Events # {} /\ Demo \in Codes
  /\ "host" \in Users
  /\ EventForms \subseteq {"draft", "live"}
  /\ InitialCatalogue \in [Codes -> Config]
  /\ PackageForms \subseteq [code : Codes, config : Config]
  /\ MaxEdits \in Nat

VARIABLES
  eventStatus,    \* events.status, "absent" before the row exists
  eventPackage,   \* events.package_code: the entitlement
  orders,         \* package_orders
  catalogue,      \* package_configs
  provider,       \* payment_provider_configs["payfast"]
  audit,          \* admin_activity rows about orders
  tx,             \* per request: the open session, its row lock and pending writes
  forms,          \* checkout forms sent to a browser, hence known to PayFast
  notices,        \* ITNs PayFast has to deliver; it may repeat, delay and reorder them
  launchedBy,     \* history: the handler whose write last made the event live
  acked,          \* history: orders whose COMPLETE notice was answered with 200
  edits           \* catalogue and provider edits so far

db       == <<eventStatus, eventPackage, orders, catalogue, audit, launchedBy>>
payfast  == <<forms, notices, acked>>
settings == <<provider, edits>>
vars     == <<db, payfast, settings, tx>>
----------------------------------------------------------------------------
(* Sessions: a pending write is a partial function from row to new value.  *)

None        == [x \in {} |-> x]
One(k, v)   == [x \in {k} |-> v]
Flush(w, t) == [k \in DOMAIN t |-> IF k \in DOMAIN w THEN w[k] ELSE t[k]]

Idle == [op |-> "idle", lock |-> {}, status |-> None, package |-> None, orders |-> None,
         config |-> None, audit |-> {}, forms |-> {}, notice |-> {}]

\* Variant: the row lock forgotten.
NeverLocked(e) == FALSE

Exists(e) == eventStatus[e] # "absent"
Locked(e) == \E r \in Reqs : e \in tx[r].lock
Fresh(o)  == orders[o].status = "absent" /\ \A r \in Reqs : o \notin DOMAIN tx[r].orders

\* The first step of a handler: request r opens a session and computes its writes.
Begin(r, op, t) ==
  /\ tx[r] = Idle
  /\ tx' = [tx EXCEPT ![r] = [t EXCEPT !.op = op]]
  /\ UNCHANGED <<db, payfast, settings>>

\* lock_commercial_event: SELECT ... FOR UPDATE of an existing event row.
CanLock(e) == Exists(e) /\ ~Locked(e)
Lock(e)    == [Idle EXCEPT !.lock = {e}]

\* An answer without a commit after the lock: whatever the handler checks under it may fail, and
\* package_request redirects a host who asks for the package the event has.
Leave(r, e) == CanLock(e) /\ Begin(r, "left", Lock(e))

\* payfast_notify is a coroutine of the one process: it waits, and runs, on the event loop.
LoopFree == \A r \in Reqs : tx[r].op \notin {"payfast_confirm", "payfast_notify"}

OrdersOf(e, S) == {o \in Orders : orders[o].event = e /\ orders[o].status \in S}

\* Variant: outstanding payments not looked for.
NoPaymentCheck(e) == TRUE

require_resolved_payments(e) == OrdersOf(e, Outstanding) = {}

\* An order row written with status s, and the same with its AdminActivity row.
Move(t, o, s) == [t EXCEPT !.orders = One(o, [orders[o] EXCEPT !.status = s])]
\* Variant: the AdminActivity row forgotten.
MoveUnlogged(t, o, s, action) == Move(t, o, s)

MoveLogged(t, o, s, action) ==
  [Move(t, o, s) EXCEPT
     !.audit = {[order |-> o, action |-> action, from |-> orders[o].status, to |-> s]}]
\* event.package_code = package.code
Grant(t, e, c) == [t EXCEPT !.package = One(e, c)]
\* Variant: the entitlement not assigned with the approval.
ApproveOnly(t, o) == Move(t, o, "approved")
Approve(t, o)  == Grant(Move(t, o, "approved"), orders[o].event, orders[o].package)

NewOrder(e, u, c, source) ==
  [status |-> "pending", event |-> e, user |-> u, package |-> c,
   amount |-> catalogue[c].price, source |-> source, provider |-> FALSE]
----------------------------------------------------------------------------
(* Host handlers (app/main.py).  An admin may act on a host's event.       *)

create_event(r, e, c) ==
  LET t == [Lock(e) EXCEPT !.status = One(e, "draft")]
  IN  /\ ~Exists(e) /\ ~Locked(e)
      /\ catalogue[c].active
      /\ \/ /\ ~catalogue[c].payment_required
            /\ Begin(r, "create_event", Grant(t, e, c))
         \/ /\ catalogue[c].payment_required
            /\ \E o \in Orders :
                 /\ Fresh(o)
                 /\ Begin(r, "create_event",
                      [Grant(t, e, Demo) EXCEPT
                         !.orders = One(o, NewOrder(e, "host", c, "event_creation"))])

package_request(r, e, u, c) ==
  /\ CanLock(e)
  /\ require_resolved_payments(e)
  /\ catalogue[c].active
  /\ catalogue[c].rank > catalogue[eventPackage[e]].rank
  /\ \/ /\ ~catalogue[c].payment_required
        /\ Begin(r, "package_request", Grant(Lock(e), e, c))
     \/ /\ catalogue[c].payment_required
        /\ \E o \in OrdersOf(e, {"pending"}) :
             Begin(r, "package_request", [Lock(e) EXCEPT !.orders =
               One(o, [orders[o] EXCEPT !.package = c, !.amount = catalogue[c].price])])
     \/ /\ catalogue[c].payment_required
        /\ OrdersOf(e, {"pending"}) = {}
        /\ \E o \in Orders :
             /\ Fresh(o)
             /\ Begin(r, "package_request",
                  [Lock(e) EXCEPT !.orders = One(o, NewOrder(e, u, c, "host"))])

\* checkout_page and start_checkout serve only the order's own user.
Payable(o, e, u) ==
  orders[o].status = "pending" /\ orders[o].event = e /\ orders[o].user = u

\* The form takes the amount of the order; variant: today's price of the package.
TodaysForm(o) == [order |-> o, package |-> orders[o].package,
                  amount |-> catalogue[orders[o].package].price, merchant |-> provider.merchant]
CheckoutForm(o) == [order |-> o, package |-> orders[o].package,
                    amount |-> orders[o].amount, merchant |-> provider.merchant]

start_checkout(r, e, u, o) ==
  /\ CanLock(e)
  /\ Payable(o, e, u)
  /\ require_resolved_payments(e)
  /\ catalogue[orders[o].package].active
  /\ orders[o].amount > 0
  /\ provider.enabled
  /\ Begin(r, "start_checkout", [Lock(e) EXCEPT
       !.orders = One(o, [orders[o] EXCEPT !.status = "awaiting_payment", !.provider = TRUE]),
       !.forms  = {CheckoutForm(o)}])

cancel_host_order(r, e, u, o) ==
  /\ CanLock(e)
  /\ orders[o].event = e /\ orders[o].user = u
  /\ orders[o].status = "awaiting_payment"
  /\ Begin(r, "cancel_host_order",
           MoveLogged(Lock(e), o, "cancelled", "order_cancelled_by_host"))

\* Variant: a pending order does not hold the event back.
update_event_early(r, e, s) ==
  /\ Exists(e) /\ s # eventStatus[e]
  /\ s = "live" => OrdersOf(e, Outstanding) = {}
  /\ Begin(r, "update_event", [Idle EXCEPT !.status = One(e, s)])

\* The event form.  No lock: the gate reads the orders, the status is written at the flush.
update_event(r, e, s) ==
  /\ Exists(e) /\ s # eventStatus[e]
  /\ s = "live" => OrdersOf(e, Outstanding \cup {"pending"}) = {}
  /\ Begin(r, "update_event", [Idle EXCEPT !.status = One(e, s)])
----------------------------------------------------------------------------
(* Admin handlers (app/admin.py).                                          *)

event_status(r, e, s) ==
  /\ Exists(e) /\ s # eventStatus[e]
  /\ Begin(r, "event_status", [Idle EXCEPT !.status = One(e, s)])

event_package(r, e, c) ==
  /\ CanLock(e)
  /\ require_resolved_payments(e)
  /\ catalogue[c].active
  /\ Begin(r, "event_package", Grant(Lock(e), e, c))

approve_order(r, o) ==
  LET e == orders[o].event
  IN  /\ orders[o].status = "pending" /\ CanLock(e)
      /\ require_resolved_payments(e)
      /\ catalogue[orders[o].package].active
      /\ Begin(r, "approve_order",
           [Approve(Lock(e), o) EXCEPT !.audit =
              MoveLogged(Idle, o, "approved", "order_manually_approved").audit])

cancel_order(r, o) ==
  LET e == orders[o].event
  IN  /\ orders[o].status \in Open /\ CanLock(e)
      /\ Begin(r, "cancel_order", MoveLogged(Lock(e), o, "cancelled", "order_cancelled"))

fail_order(r, o) ==
  LET e == orders[o].event
  IN  /\ orders[o].status = "awaiting_payment" /\ CanLock(e)
      /\ Begin(r, "fail_order", MoveLogged(Lock(e), o, "failed", "order_marked_failed"))

activate_reviewed_payment(r, o) ==
  LET e == orders[o].event
  IN  /\ orders[o].status \in {"paid", "payment_review"} /\ CanLock(e)
      /\ catalogue[orders[o].package].active
      /\ Begin(r, "activate_reviewed_payment",
           [Approve(Lock(e), o) EXCEPT !.audit =
              MoveLogged(Idle, o, "approved", "reviewed_payment_activated").audit])

\* No lock; ranks and assignments are checked against the committed rows.
update_package(r, f) ==
  /\ edits < MaxEdits
  /\ tx[r] = Idle
  /\ \A c \in Codes \ {f.code} : catalogue[c].rank # f.config.rank
  /\ f.config.active \/ \A e \in Events : Exists(e) => eventPackage[e] # f.code
  /\ LET new == IF f.config.payment_required THEN f.config ELSE [f.config EXCEPT !.price = 0]
     IN  tx' = [tx EXCEPT ![r] = [Idle EXCEPT !.op = "update_package",
                  !.config = One(f.code, [from |-> catalogue[f.code], to |-> new])]]
  /\ edits' = edits + 1
  /\ UNCHANGED <<db, payfast, provider>>

update_payfast_settings(enabled, m) ==
  /\ edits < MaxEdits
  /\ provider' = [enabled |-> enabled, merchant |-> m]
  /\ edits' = edits + 1
  /\ UNCHANGED <<db, payfast, tx>>
----------------------------------------------------------------------------
(* PayFast: the payer settles a form, the service delivers its notices.    *)

Settle(f, s) ==
  /\ f \in forms
  /\ [form |-> f, status |-> s] \notin notices
  /\ notices' = notices \cup {[form |-> f, status |-> s]}
  /\ UNCHANGED <<db, settings, tx, forms, acked>>

\* payfast_notify up to the server confirmation, which runs without the lock.
NotifyReceive(r, n) ==
  /\ n \in notices
  /\ provider.enabled /\ n.form.merchant = provider.merchant
  /\ Begin(r, "payfast_confirm", [Idle EXCEPT !.notice = {n}])

\* Variant: a late payment acknowledged but not put under review.
CompleteIgnoringClosed(t, o) ==
  IF orders[o].status \in Settled \cup Closed THEN t ELSE Approve(t, o)

\* What a verified COMPLETE notice writes, by the order's status under the lock.
Complete(t, o) ==
  CASE orders[o].status \in Settled -> t
    [] orders[o].status \in Closed  -> MoveLogged(t, o, "payment_review", "late_payment_received")
    [] OTHER                        -> Approve(t, o)

\* Variant: the provider's own word stored as the status.
FailRaw(t, o, s) ==
  IF orders[o].status = "awaiting_payment" /\ s \in {"FAILED", "CANCELLED"}
  THEN MoveLogged(t, o, s, "provider_payment_closed") ELSE t

\* What a verified notice of any other outcome writes: only FAILED and CANCELLED close the order.
Fail(t, o, s) ==
  IF orders[o].status = "awaiting_payment" /\ s \in {"FAILED", "CANCELLED"}
  THEN MoveLogged(t, o, IF s = "FAILED" THEN "failed" ELSE "cancelled", "provider_payment_closed")
  ELSE t

\* Variant: only an awaiting order may be completed.
RefuseLate(n) ==
  LET o == n.form.order
  IN  /\ orders[o].provider /\ n.form.amount = orders[o].amount
      /\ n.status = "COMPLETE" => orders[o].status \in Settled \cup {"awaiting_payment"}

\* The checks made under the lock.
Acceptable(n) ==
  LET o == n.form.order
  IN  /\ orders[o].provider
      /\ n.form.amount = orders[o].amount
      /\ n.status = "COMPLETE" =>
           \/ orders[o].status \in Settled \cup Closed
           \/ orders[o].status = "awaiting_payment" /\ catalogue[orders[o].package].active

NotifyLock(r, n) ==
  LET o == n.form.order
      t == [Lock(orders[o].event) EXCEPT !.notice = {n}, !.op = "payfast_notify"]
  IN  /\ tx[r].op = "payfast_confirm" /\ n \in tx[r].notice
      /\ CanLock(orders[o].event)
      /\ Acceptable(n)
      /\ tx' = [tx EXCEPT ![r] = IF n.status = "COMPLETE" THEN Complete(t, o)
                                                           ELSE Fail(t, o, n.status)]
      /\ UNCHANGED <<db, payfast, settings>>

\* Answered 4xx under the lock: the session is left with it, and PayFast keeps the notice.
NotifyRefuse(r, n) ==
  /\ tx[r].op = "payfast_confirm" /\ n \in tx[r].notice
  /\ CanLock(orders[n.form.order].event)
  /\ ~Acceptable(n)
  /\ tx' = [tx EXCEPT ![r] = [Lock(orders[n.form.order].event) EXCEPT !.op = "left"]]
  /\ UNCHANGED <<db, payfast, settings>>
----------------------------------------------------------------------------
\* The flush of a row of package_configs: a column is written if the form changed it.
Column(now, from, to) == IF to = from THEN now ELSE to
Merge(now, from, to) ==
  [active           |-> Column(now.active, from.active, to.active),
   payment_required |-> Column(now.payment_required, from.payment_required, to.payment_required),
   price            |-> Column(now.price, from.price, to.price),
   rank             |-> Column(now.rank, from.rank, to.rank)]

\* A flush of an event row waits for the session that has it locked.
CanCommit(r) ==
  /\ tx[r].op \notin {"idle", "payfast_confirm", "left"}
  /\ \A e \in DOMAIN tx[r].status : \A q \in Reqs \ {r} : e \notin tx[q].lock

Commit(r) ==
  LET t == tx[r]
  IN  /\ CanCommit(r)
      /\ eventStatus'  = Flush(t.status, eventStatus)
      /\ eventPackage' = Flush(t.package, eventPackage)
      /\ orders'       = Flush(t.orders, orders)
      /\ catalogue'    = [c \in Codes |->
                            IF c \in DOMAIN t.config
                            THEN Merge(catalogue[c], t.config[c].from, t.config[c].to)
                            ELSE catalogue[c]]
      /\ audit'        = audit \cup t.audit
      /\ forms'        = forms \cup t.forms
      /\ launchedBy'   = [e \in Events |-> IF e \in DOMAIN t.status /\ t.status[e] = "live"
                                           THEN t.op ELSE launchedBy[e]]
      /\ acked'        = acked \cup {n.form.order : n \in {m \in t.notice : m.status = "COMPLETE"}}
      /\ tx'           = [tx EXCEPT ![r] = Idle]
      /\ UNCHANGED <<settings, notices>>

\* The exit of get_db, run by the event loop, closes the session of a handler that left.
Close(r) ==
  /\ tx[r].op = "left" /\ LoopFree
  /\ tx' = [tx EXCEPT ![r] = Idle]
  /\ UNCHANGED <<db, payfast, settings>>

\* The session is gone without a commit: an exception, a lost connection, a crash.
Abort(r) ==
  /\ tx[r] # Idle
  /\ tx' = [tx EXCEPT ![r] = Idle]
  /\ UNCHANGED <<db, payfast, settings>>
----------------------------------------------------------------------------
\* A row not yet inserted: only its status has a meaning.
AbsentOrder ==
  [status |-> "absent", event |-> CHOOSE e \in Events : TRUE, user |-> "host",
   package |-> Demo, amount |-> 0, source |-> "host", provider |-> FALSE]

\* No events or orders yet, and a PayFast account already configured.
Init ==
  /\ eventStatus  = [e \in Events |-> "absent"]
  /\ eventPackage = [e \in Events |-> Demo]
  /\ orders = [o \in Orders |-> AbsentOrder]
  /\ catalogue = InitialCatalogue
  /\ provider \in [enabled : {TRUE}, merchant : Merchants]
  /\ audit = {} /\ forms = {} /\ notices = {} /\ acked = {} /\ edits = 0
  /\ tx = [r \in Reqs |-> Idle]
  /\ launchedBy = [e \in Events |-> "idle"]

HostStep(r) ==
  \E e \in Events :
    \/ \E c \in Codes : create_event(r, e, c)
    \/ \E s \in EventForms : update_event(r, e, s)
    \/ \E u \in Users :
         \/ \E c \in Codes : package_request(r, e, u, c)
         \/ \E o \in Orders : start_checkout(r, e, u, o)
         \/ \E o \in Orders : cancel_host_order(r, e, u, o)

AdminStep(r) ==
  \/ \E e \in Events : \/ \E s \in EventForms : event_status(r, e, s)
                       \/ \E c \in Codes : event_package(r, e, c)
  \/ \E o \in Orders : \/ approve_order(r, o)
                       \/ cancel_order(r, o)
                       \/ fail_order(r, o)
                       \/ activate_reviewed_payment(r, o)
  \/ \E f \in PackageForms : update_package(r, f)

NotifyStep(r) ==
  \E n \in notices : NotifyReceive(r, n) \/ NotifyLock(r, n) \/ NotifyRefuse(r, n)

Next ==
  \/ \E r \in Reqs : \/ HostStep(r)
                     \/ AdminStep(r)
                     \/ NotifyStep(r)
                     \/ \E e \in Events : Leave(r, e)
                     \/ Commit(r)
                     \/ Close(r)
                     \/ Abort(r)
  \/ \E f \in forms, s \in Outcomes : Settle(f, s)
  \/ \E enabled \in BOOLEAN, m \in Merchants : update_payfast_settings(enabled, m)

Spec == Init /\ [][Next]_vars

\* The verified payments of an order.
CompleteFor(o) == {n \in notices : n.form.order = o /\ n.status = "COMPLETE"}

\* Assumed: a session that can commit does, or fails; the event loop gets to a session to be
\* closed whenever it is free again and again; the database grants a row lock to each session
\* that waits for it; PayFast repeats a notice until it is answered 200; from some point on no
\* session that carries a payment not yet acknowledged dies.
Fairness ==
  /\ \A r \in Reqs :
       /\ WF_vars(CanCommit(r) /\ (Commit(r) \/ Abort(r)))
       /\ WF_vars(Close(r))
       /\ SF_vars(\E n \in notices : NotifyLock(r, n) \/ NotifyRefuse(r, n))
  /\ \A o \in Orders : SF_vars(\E r \in Reqs, n \in CompleteFor(o) : NotifyReceive(r, n))
  /\ <>[][\A r \in Reqs, n \in notices :
            n \in tx[r].notice /\ n.status = "COMPLETE" /\ n.form.order \notin acked
              => ~Abort(r)]_vars

FairSpec == Spec /\ Fairness
----------------------------------------------------------------------------
(* Properties                                                              *)

Partial(w, S, T) == w \in [DOMAIN w -> T] /\ DOMAIN w \subseteq S

SessionOK(t) ==
  /\ t.op \in Ops /\ t.lock \subseteq Events
  /\ Partial(t.status, Events, {"draft", "live"})
  /\ Partial(t.package, Events, Codes)
  /\ Partial(t.orders, Orders, Order)
  /\ Partial(t.config, Codes, [from : Config, to : Config])
  /\ t.audit \subseteq Activity /\ t.forms \subseteq Form /\ t.notice \subseteq Notice

\* Types: rows, sessions, forms and notices keep the shapes of the schema (app/models.py).
TypeOK ==
  /\ eventStatus \in [Events -> EventStatuses]
  /\ eventPackage \in [Events -> Codes]
  /\ orders \in [Orders -> Order]
  /\ catalogue \in [Codes -> Config]
  /\ provider \in [enabled : BOOLEAN, merchant : Merchants]
  /\ audit \subseteq Activity
  /\ tx = [r \in Reqs |-> tx[r]] /\ \A r \in Reqs : SessionOK(tx[r])
  /\ forms \subseteq Form
  /\ notices \subseteq Notice
  /\ launchedBy \in [Events -> Ops]
  /\ acked \subseteq Orders
  /\ edits \in 0..MaxEdits

\* However requests interleave, an event has at most one order a host could still pay
\* (package_request reuses the pending row; require_resolved_payments bars a second one).
OneOpenOrder ==
  \A e \in Events : \A o, p \in OrdersOf(e, Open) : o = p

\* A form in a browser or at PayFast stays the order's only form and still names its package
\* and amount: a repriced package or a reused order never changes what was put up for payment,
\* which would make the amount check refuse the payment for ever.
FormMatchesOrder ==
  \A f \in forms :
    /\ f.package = orders[f.order].package /\ f.amount = orders[f.order].amount
    /\ orders[f.order].status \notin {"absent", "pending"}
    /\ \A g \in forms : g.order = f.order => g = f

\* PayFast stops repeating a notice answered 200, so an acknowledged payment is never lost:
\* its order was approved or waits for review, whatever ran before, between or after.
AckedSettled ==
  \A o \in acked : orders[o].status \in Settled

Logged(o, S) == \E a \in audit : a.order = o /\ a.to = orders[o].status /\ a.action \in S

\* No order is approved without a verified payment or an admin's logged decision, and none is
\* closed or put under review without a logged reason.
OutcomeExplained ==
  \A o \in Orders :
    /\ orders[o].status = "approved" =>
         CompleteFor(o) # {} \/ Logged(o, {"order_manually_approved"})
    /\ orders[o].status \in Closed \cup {"payment_review"} => Logged(o, Actions)

\* The go-live gate of update_event: while the payment an event was created with is open, no
\* sequence of event forms, interleaved with anything, makes it live; only event_status can.
LaunchGate ==
  \A e \in Events :
    eventStatus[e] = "live" /\ launchedBy[e] = "update_event" =>
      \A o \in OrdersOf(e, Open) : orders[o].source # "event_creation"

\* The handlers with their sessions, locks and notices do only what OrderBook allows.
Book == INSTANCE OrderBook WITH
  status   <- [o \in Orders |-> orders[o].status],
  ordered  <- [o \in Orders |-> [event |-> orders[o].event, package |-> orders[o].package]],
  entitled <- eventPackage

ImplementsOrderBook == Book!Spec

\* A notice waits on the event loop for the lock of a session that needs the loop to be closed.
Standstill ==
  \E q, r \in Reqs :
    /\ tx[r].op = "left" /\ tx[q].op = "payfast_confirm"
    /\ \E n \in tx[q].notice : orders[n.form.order].event \in tx[r].lock

\* What makes payfast_notify refuse a payment: the account is disabled or another one.
AccountDiffers(o) ==
  ~provider.enabled \/ \E n \in CompleteFor(o) : n.form.merchant # provider.merchant

\* A payment completed at PayFast is eventually approved or put under review, through closed
\* orders, handlers that left, lost locks, aborted sessions and passing changes of the catalogue
\* or the account, unless the process has come to the standstill of RequestLocks for good, or
\* the package or the account keep turning the notice away.
PaymentSettles ==
  \A o \in Orders :
    \/ []<>(AccountDiffers(o) \/ ~catalogue[orders[o].package].active)
    \/ CompleteFor(o) # {} ~> orders[o].status \in Settled \/ []Standstill
----------------------------------------------------------------------------
(* What messages, tests and docs of the repository say, and the code does not ensure. *)

\* "Hosts can only upgrade to a higher package" (app/main.py:215).
HostPaymentNeverDowngrades ==
  [][\A e \in Events :
       (\E r \in Reqs : tx[r].op = "payfast_notify" /\ e \in DOMAIN tx[r].package /\ Commit(r))
         => catalogue[eventPackage'[e]].rank >= catalogue[eventPackage[e]].rank]_vars

\* "A package with assigned events cannot be disabled." (app/admin.py:347).
InactiveUnassigned ==
  \A e \in Events : Exists(e) => catalogue[eventPackage[e]].active

\* "Package ranks must be unique." (app/admin.py:323).
UniqueRanks ==
  \A c, d \in Codes : catalogue[c].rank = catalogue[d].rank => c = d

\* "This event cannot go live until its package payment is resolved." (app/main.py:376).
LaunchesResolved ==
  [][\A e \in Events :
       eventStatus[e] = "draft" /\ eventStatus'[e] = "live" /\ launchedBy'[e] = "update_event"
         => OrdersOf(e, Outstanding \cup {"pending"}) = {}]_vars

\* "Verified successful notifications remain authoritative"
\* (docs/commercial-order-hardening.md), with the provider settings left alone.
PaymentAuthoritative ==
  \A o \in Orders :
    []<>AccountDiffers(o) \/ (CompleteFor(o) # {} ~> orders[o].status \in Settled)
============================================================================
