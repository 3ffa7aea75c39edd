-------------------------- MODULE PackageOrdersInv --------------------------
(***************************************************************************)
(* The inductive invariant of PackageOrders.  None of the properties is    *)
(* inductive alone: what a session will write was decided before, so the   *)
(* invariant says of every open session that its pending writes are still  *)
(* legal on the rows as they are now, because its row lock froze them.     *)
(***************************************************************************)
EXTENDS PackageOrders

\* The legal writes of an order row, and the package write that goes with each.
LegalWrite(t, o) ==
  LET w   == t.orders[o]
      old == orders[o]
      e   == w.event
  IN  /\ e \in t.lock
      /\ Exists(e) \/ e \in DOMAIN t.status
      /\ old.status # "absent" => e = old.event /\ w.source = old.source
      /\ old.status \notin {"absent", "pending"} =>
           w.package = old.package /\ w.amount = old.amount
      /\ \/ /\ old.status = "absent" /\ w.status = "pending"
            /\ OrdersOf(e, Open \cup Outstanding) = {}
            /\ w.source = "event_creation" =>
                 ~Exists(e) /\ e \in DOMAIN t.status /\ t.status[e] = "draft"
            /\ DOMAIN t.package \subseteq {e}
         \/ /\ old.status = "pending" /\ w.status \in Open
            /\ OrdersOf(e, Outstanding) = {}
            /\ w.status # "pending" => w.package = old.package
            /\ DOMAIN t.package = {}
         \/ /\ old.status \in Open \cup {"payment_review"} /\ w.status = "approved"
            /\ w.package = old.package
            /\ DOMAIN t.package = {e} /\ t.package[e] = w.package
            /\ \/ CompleteFor(o) # {}
               \/ \E a \in t.audit : a.order = o /\ a.to = "approved"
                                                 /\ a.action = "order_manually_approved"
         \/ /\ old.status \in Open /\ w.status \in Closed
            /\ w.package = old.package
            /\ DOMAIN t.package = {}
            /\ \E a \in t.audit : a.order = o /\ a.to = w.status
         \/ /\ old.status \in Closed /\ w.status = "payment_review"
            /\ DOMAIN t.package = {}
            /\ CompleteFor(o) # {}
            /\ \E a \in t.audit : a.order = o /\ a.to = w.status

LegalForms(t) ==
  /\ \A f, g \in t.forms : f = g
  /\ \A f \in t.forms :
       /\ f.order \in DOMAIN t.orders /\ orders[f.order].status = "pending"
       /\ t.orders[f.order].status = "awaiting_payment"
       /\ f.package = t.orders[f.order].package /\ f.amount = t.orders[f.order].amount

\* A session about to answer 200 to a COMPLETE notice leaves the order settled.
LegalAnswer(t) ==
  /\ t.notice # {} => t.op \in {"payfast_confirm", "payfast_notify"}
  /\ t.op = "payfast_notify" => \A n \in t.notice : n.status = "COMPLETE" =>
       LET o == n.form.order
       IN  (IF o \in DOMAIN t.orders THEN t.orders[o].status ELSE orders[o].status) \in Settled

LegalLaunch(t) ==
  /\ \A e \in DOMAIN t.status : Exists(e) \/ e \in t.lock
  /\ t.op = "update_event" => \A e \in DOMAIN t.status :
       /\ Exists(e)
       /\ t.status[e] = "live" => \A o \in OrdersOf(e, Open) : orders[o].source # "event_creation"

LegalGrant(t) ==
  /\ DOMAIN t.package \subseteq t.lock
  /\ \A e, d \in DOMAIN t.package : e = d
  /\ DOMAIN t.orders = {} =>
       \A e \in DOMAIN t.package : OrdersOf(e, Outstanding) = {}

LegalSession(t) ==
  /\ \A o, p \in DOMAIN t.orders : o = p
  /\ \A o \in DOMAIN t.orders : LegalWrite(t, o)
  /\ LegalForms(t)
  /\ LegalAnswer(t)
  /\ LegalLaunch(t)
  /\ LegalGrant(t)

\* Row locks exclude each other, and no two sessions write one order.
Isolated ==
  \A r, q \in Reqs : r # q =>
    /\ tx[r].lock \cap tx[q].lock = {}
    /\ DOMAIN tx[r].orders \cap DOMAIN tx[q].orders = {}

\* Facts about the committed rows that the properties rest on.
RowsOK ==
  \A o \in Orders :
    /\ orders[o].status # "absent" => Exists(orders[o].event)
    /\ orders[o].status # "paid"
    /\ orders[o].status = "payment_review" => CompleteFor(o) # {}

\* The inductive invariant: typed rows, isolated sessions, legal pending writes, and the
\* properties themselves.
IInv ==
  /\ TypeOK
  /\ Isolated
  /\ RowsOK
  /\ \A r \in Reqs : LegalSession(tx[r])
  /\ OneOpenOrder
  /\ FormMatchesOrder
  /\ AckedSettled
  /\ OutcomeExplained
  /\ LaunchGate
============================================================================
