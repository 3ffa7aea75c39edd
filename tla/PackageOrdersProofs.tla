------------------------- MODULE PackageOrdersProofs -------------------------
(***************************************************************************)
(* Proofs about PackageOrders, for any number of events, orders, packages  *)
(* and concurrent requests: its safety properties, and that it implements  *)
(* OrderBook.                                                              *)
(***************************************************************************)
EXTENDS PackageOrdersInv, TLAPS

\* A pending write of one row has that row as its domain.
LEMMA OneFacts ==
  ASSUME NEW k, NEW v
  PROVE  DOMAIN One(k, v) = {k} /\ One(k, v)[k] = v
BY DEF One

\* No pending write: nothing in the domain.
LEMMA NoneFacts == DOMAIN None = {}
BY DEF None

\* A session with nothing to write is well-typed and legal.
LEMMA IdleFacts == SessionOK(Idle) /\ LegalSession(Idle)
BY NoneFacts DEF SessionOK, Partial, Idle, Ops, LegalSession, LegalWrite, LegalForms, LegalAnswer,
                 LegalLaunch, LegalGrant

\* Session t of request r touches no row that another open session holds.
Apart(r, t) ==
  \A q \in Reqs \ {r} :
    /\ t.lock \cap tx[q].lock = {}
    /\ DOMAIN t.orders \cap DOMAIN tx[q].orders = {}

\* A step that leaves the committed rows alone and only adds notices keeps the invariant, when
\* the sessions after it are typed, legal on the rows and isolated.
LEMMA RowsKept ==
  ASSUME IInv, tx' = [r \in Reqs |-> tx'[r]],
         \A r \in Reqs : SessionOK(tx'[r]), Isolated',
         ASSUME NEW r \in Reqs, NEW s, s = tx'[r] PROVE LegalSession(s),
         UNCHANGED <<db, forms, acked>>,
         notices' \subseteq Notice, notices \subseteq notices',
         provider' \in [enabled : BOOLEAN, merchant : Merchants], edits' \in 0..MaxEdits
  PROVE  IInv'
<1> USE DEF db
<1>1. ASSUME NEW o \in Orders, CompleteFor(o) # {} PROVE CompleteFor(o)' # {}
  BY <1>1 DEF CompleteFor
<1>2. ASSUME NEW e, NEW S PROVE OrdersOf(e, S)' = OrdersOf(e, S)
  BY DEF OrdersOf
<1>3. ASSUME NEW r \in Reqs PROVE LegalSession(tx[r])'
  <2>1. PICK s : s = tx'[r]
    OBVIOUS
  <2>2. LegalSession(s) /\ SessionOK(s)
    BY <2>1
  <2>3. ASSUME NEW o \in DOMAIN s.orders PROVE LegalWrite(s, o)'
    <3>1. LegalWrite(s, o) /\ o \in Orders
      BY <2>2, <2>3 DEF LegalSession, SessionOK, Partial
    <3> QED BY <1>1, <1>2, <3>1 DEF LegalWrite, Exists
  <2>4. LegalSession(s)'
    BY <1>2, <2>2, <2>3 DEF LegalSession, LegalForms, LegalAnswer, LegalLaunch, LegalGrant, Exists
  <2> QED BY <2>1, <2>4
<1>4. TypeOK'
  BY DEF IInv, TypeOK
<1>6. \A r \in Reqs : LegalSession(tx[r])'
  BY <1>3
<1>7. RowsOK' /\ OutcomeExplained'
  BY <1>1 DEF IInv, RowsOK, OutcomeExplained, Exists, Logged
<1>8. OneOpenOrder' /\ FormMatchesOrder' /\ AckedSettled' /\ LaunchGate'
  BY <1>2 DEF IInv, OneOpenOrder, FormMatchesOrder, AckedSettled, LaunchGate
<1> QED BY <1>4, <1>6, <1>7, <1>8 DEF IInv

\* Replacing one session by a typed, legal and isolated one keeps the invariant, as long as
\* the committed rows stay and notices are only added.
LEMMA SessionStep ==
  ASSUME IInv, NEW r \in Reqs, NEW t, SessionOK(t), LegalSession(t), Apart(r, t),
         tx' = [tx EXCEPT ![r] = t],
         UNCHANGED <<db, forms, acked>>,
         notices' \subseteq Notice, notices \subseteq notices',
         provider' \in [enabled : BOOLEAN, merchant : Merchants], edits' \in 0..MaxEdits
  PROVE  IInv'
<1>1. tx = [q \in Reqs |-> tx[q]] /\ \A q \in Reqs : SessionOK(tx[q]) /\ LegalSession(tx[q])
  BY DEF IInv, TypeOK
<1>2. tx'[r] = t /\ \A q \in Reqs \ {r} : tx'[q] = tx[q]
  BY <1>1
<1>3. tx' = [q \in Reqs |-> tx'[q]]
  BY <1>1
<1>4. \A q \in Reqs : SessionOK(tx'[q])
  BY <1>1, <1>2
<1>5. ASSUME NEW q \in Reqs, NEW s, s = tx'[q] PROVE LegalSession(s)
  <2>1. s = t \/ s = tx[q]
    BY <1>2, <1>5
  <2> QED BY <1>1, <2>1
<1>6. Isolated'
  BY <1>2 DEF IInv, Isolated, Apart
<1> QED BY <1>3, <1>4, <1>5, <1>6, RowsKept

\* A session that takes a free row lock, and writes only an order of that event or a fresh one,
\* is apart from all others: another writer of that order would hold the same lock.
LEMMA LockApart ==
  ASSUME IInv, NEW r \in Reqs, NEW e \in Events, ~Locked(e), NEW t, t.lock = {e},
         \A o \in DOMAIN t.orders :
           \/ o \in Orders /\ orders[o].status # "absent" /\ orders[o].event = e
           \/ Fresh(o)
  PROVE  Apart(r, t)
<1> SUFFICES ASSUME NEW q \in Reqs \ {r}
             PROVE  /\ t.lock \cap tx[q].lock = {}
                    /\ DOMAIN t.orders \cap DOMAIN tx[q].orders = {}
  BY DEF Apart
<1>1. e \notin tx[q].lock
  BY DEF Locked
<1>2. ASSUME NEW o \in DOMAIN t.orders, o \in DOMAIN tx[q].orders PROVE FALSE
  <2>1. LegalWrite(tx[q], o)
    BY <1>2 DEF IInv, LegalSession
  <2>2. ~Fresh(o)
    BY <1>2 DEF Fresh
  <2> QED BY <1>1, <1>2, <2>1, <2>2 DEF LegalWrite
<1> QED BY <1>1, <1>2

\* The first step of a handler, given its session.
LEMMA BeginStep ==
  ASSUME IInv, NEW r \in Reqs, NEW t, SessionOK(t), LegalSession(t), Apart(r, t),
         tx' = [tx EXCEPT ![r] = t], UNCHANGED <<db, payfast, settings>>
  PROVE  IInv'
<1>1. /\ notices \subseteq Notice /\ edits \in 0..MaxEdits
      /\ provider \in [enabled : BOOLEAN, merchant : Merchants]
  BY DEF IInv, TypeOK
<1> QED BY <1>1, SessionStep DEF payfast, settings

\* No order refers to an event that does not exist.
LEMMA NoOrders ==
  ASSUME IInv, NEW e \in Events, ~Exists(e), NEW S, "absent" \notin S
  PROVE  OrdersOf(e, S) = {}
BY DEF IInv, RowsOK, OrdersOf

\* A session by its fields, for the provers: [Idle EXCEPT ...] written out.
Session(op, lock, status, package, rows, log, form, notice) ==
  [op |-> op, lock |-> lock, status |-> status, package |-> package, orders |-> rows,
   config |-> None, audit |-> log, forms |-> form, notice |-> notice]

\* Its fields.
LEMMA SessionFields ==
  ASSUME NEW op, NEW lock, NEW status, NEW package, NEW rows, NEW log, NEW form, NEW notice, NEW t,
         t = Session(op, lock, status, package, rows, log, form, notice)
  PROVE  /\ t.op = op /\ t.lock = lock /\ t.status = status /\ t.package = package
         /\ t.orders = rows /\ t.config = None /\ t.audit = log /\ t.forms = form
         /\ t.notice = notice
BY DEF Session

\* create_event: the event row is new, so its lock is free and no order refers to it.
LEMMA CreateEventStep ==
  ASSUME IInv, NEW r \in Reqs, NEW e \in Events, NEW c \in Codes, create_event(r, e, c)
  PROVE  IInv'
<1>1. ~Exists(e) /\ ~Locked(e)
  BY DEF create_event
<1>2. CASE Begin(r, "create_event", Grant([Lock(e) EXCEPT !.status = One(e, "draft")], e, c))
  <2> DEFINE t == Session("create_event", {e}, One(e, "draft"), One(e, c), None, {}, {}, {})
  <2>1. ASSUME NEW x, x = [Grant([Lock(e) EXCEPT !.status = One(e, "draft")], e, c)
                             EXCEPT !.op = "create_event"]
        PROVE  x = t
    BY <2>1 DEF Lock, Grant, Idle, Session
  <2> HIDE DEF t
  <2>2. tx' = [tx EXCEPT ![r] = t] /\ UNCHANGED <<db, payfast, settings>>
    BY <1>2, <2>1 DEF Begin
  <2>3. /\ t.op = "create_event" /\ t.lock = {e} /\ t.status = One(e, "draft")
        /\ t.package = One(e, c) /\ t.orders = None /\ t.config = None /\ t.audit = {}
        /\ t.forms = {} /\ t.notice = {}
    BY SessionFields DEF t
  <2>3a. DOMAIN t.status = {e} /\ DOMAIN t.package = {e} /\ DOMAIN t.orders = {}
    BY <2>3 DEF One, None
  <2>4. SessionOK(t)
    BY <2>3, OneFacts, NoneFacts DEF SessionOK, Partial, Ops, One, None
  <2>5. LegalSession(t)
    <3>1. OrdersOf(e, Outstanding) = {}
      BY <1>1, NoOrders DEF Outstanding
    <3> QED BY <1>1, <2>3, <2>3a, <3>1 DEF LegalSession, LegalForms, LegalAnswer, LegalLaunch, LegalGrant
  <2>6. Apart(r, t)
    BY <1>1, <2>3, <2>3a, LockApart
  <2> QED BY <2>2, <2>4, <2>5, <2>6, BeginStep
<1>3. ASSUME NEW o \in Orders, Fresh(o),
             Begin(r, "create_event", [Grant([Lock(e) EXCEPT !.status = One(e, "draft")], e, Demo)
               EXCEPT !.orders = One(o, NewOrder(e, "host", c, "event_creation"))])
      PROVE  IInv'
  <2> DEFINE w == NewOrder(e, "host", c, "event_creation")
             t == Session("create_event", {e}, One(e, "draft"), One(e, Demo), One(o, w),
                          {}, {}, {})
  <2>1. w \in Order /\ w.event = e /\ w.status = "pending"
    BY ConstantsAssumption DEF NewOrder, Order, OrderStatuses, IInv, TypeOK, Config
  <2> HIDE DEF w
  <2>2. ASSUME NEW x, x = [[Grant([Lock(e) EXCEPT !.status = One(e, "draft")], e, Demo)
                             EXCEPT !.orders = One(o, w)] EXCEPT !.op = "create_event"]
        PROVE  x = t
    BY <2>2 DEF Lock, Grant, Idle, Session
  <2> HIDE DEF t
  <2>3. tx' = [tx EXCEPT ![r] = t] /\ UNCHANGED <<db, payfast, settings>>
    BY <1>3, <2>2 DEF Begin, w
  <2>4. /\ t.op = "create_event" /\ t.lock = {e} /\ t.status = One(e, "draft")
        /\ t.package = One(e, Demo) /\ t.orders = One(o, w) /\ t.config = None
        /\ t.audit = {} /\ t.forms = {} /\ t.notice = {}
    BY SessionFields DEF t
  <2>4a. /\ DOMAIN t.status = {e} /\ t.status[e] = "draft" /\ DOMAIN t.package = {e}
         /\ DOMAIN t.orders = {o} /\ t.orders[o] = w
    BY <2>4 DEF One
  <2>5. orders[o].status = "absent"
    BY <1>3 DEF Fresh
  <2>6. SessionOK(t)
    BY <2>1, <2>4, ConstantsAssumption, OneFacts, NoneFacts DEF SessionOK, Partial, Ops, One
  <2>7. OrdersOf(e, Open \cup Outstanding) = {}
    BY <1>1, NoOrders DEF Open, Outstanding
  <2>8. LegalWrite(t, o)
    BY <1>1, <2>1, <2>4, <2>4a, <2>5, <2>7 DEF LegalWrite
  <2>9. LegalSession(t)
    BY <1>1, <2>4, <2>4a, <2>8 DEF LegalSession, LegalForms, LegalAnswer, LegalLaunch, LegalGrant
  <2>10. Apart(r, t)
    BY <1>1, <1>3, <2>4, <2>4a, LockApart
  <2> QED BY <2>3, <2>6, <2>9, <2>10, BeginStep
<1> QED BY <1>2, <1>3, Zenon DEF create_event

\* A session that locks e and writes no order.
LEMMA NoRowStep ==
  ASSUME IInv, NEW r \in Reqs, NEW e \in Events, CanLock(e), NEW t,
         t.op \in Ops \ {"update_event"}, t.lock = {e}, t.status = None, t.orders = None,
         t.config = None, t.audit = {}, t.forms = {}, t.notice \subseteq Notice, LegalAnswer(t),
         \/ t.package = None
         \/ OrdersOf(e, Outstanding) = {} /\ \E c \in Codes : t.package = One(e, c),
         tx' = [tx EXCEPT ![r] = t], UNCHANGED <<db, payfast, settings>>
  PROVE  IInv'
<1>1. DOMAIN t.status = {} /\ DOMAIN t.orders = {} /\ DOMAIN t.config = {}
  BY DEF None
<1>2. \/ DOMAIN t.package = {}
      \/ OrdersOf(e, Outstanding) = {} /\ DOMAIN t.package = {e} /\ t.package[e] \in Codes
  BY DEF None, One
<1>3. SessionOK(t)
  <2>1. Partial(t.package, Events, Codes)
    BY DEF Partial, None, One
  <2> QED BY <1>1, <2>1 DEF SessionOK, Partial, None
<1>4. LegalSession(t)
  BY <1>1, <1>2 DEF LegalSession, LegalForms, LegalLaunch, LegalGrant
<1>5. Apart(r, t)
  BY <1>1, LockApart DEF CanLock
<1> QED BY <1>3, <1>4, <1>5, BeginStep

\* A session that locks e and writes one order of e.
LEMMA RowStep ==
  ASSUME IInv, NEW r \in Reqs, NEW e \in Events, CanLock(e), NEW o \in Orders, NEW w \in Order,
         NEW t, (orders[o].status # "absent" /\ orders[o].event = e) \/ Fresh(o),
         t.op \in Ops \ {"update_event"}, t.lock = {e}, t.status = None, t.orders = One(o, w),
         t.config = None, Partial(t.package, Events, Codes), t.audit \subseteq Activity,
         t.forms \subseteq Form, t.notice \subseteq Notice,
         LegalWrite(t, o), LegalForms(t), LegalAnswer(t),
         tx' = [tx EXCEPT ![r] = t], UNCHANGED <<db, payfast, settings>>
  PROVE  IInv'
<1>1. DOMAIN t.status = {} /\ DOMAIN t.config = {} /\ DOMAIN t.orders = {o} /\ t.orders[o] = w
  BY DEF None, One
<1>2. Partial(t.orders, Orders, Order)
  BY DEF Partial, One
<1>3. SessionOK(t)
  BY <1>1, <1>2 DEF SessionOK, Partial, None
<1>4. DOMAIN t.package \subseteq {e}
  BY <1>1 DEF LegalWrite
<1>5. LegalSession(t)
  BY <1>1, <1>4 DEF LegalSession, LegalLaunch, LegalGrant
<1>6. Apart(r, t)
  BY <1>1, LockApart DEF CanLock
<1> QED BY <1>3, <1>5, <1>6, BeginStep

\* What TypeOK says of one order row, and of the row with another status.
LEMMA OrderRow ==
  ASSUME IInv, NEW o \in Orders, NEW s \in OrderStatuses
  PROVE  /\ orders[o] \in Order /\ orders[o].event \in Events /\ orders[o].package \in Codes
         /\ [orders[o] EXCEPT !.status = s] \in Order
BY DEF IInv, TypeOK, Order

\* Closing an open order, with its activity row.
LEMMA CloseStep ==
  ASSUME IInv, NEW r \in Reqs, NEW o \in Orders, NEW s \in Closed, NEW a \in Actions,
         orders[o].status \in Open, CanLock(orders[o].event), NEW t,
         t.op \in Ops \ {"update_event"}, t.lock = {orders[o].event}, t.status = None,
         t.package = None, t.orders = One(o, [orders[o] EXCEPT !.status = s]), t.config = None,
         t.audit = {[order |-> o, action |-> a, from |-> orders[o].status, to |-> s]},
         t.forms = {}, t.notice \subseteq Notice, LegalAnswer(t),
         tx' = [tx EXCEPT ![r] = t], UNCHANGED <<db, payfast, settings>>
  PROVE  IInv'
<1> DEFINE w == [orders[o] EXCEPT !.status = s]
<1>1. s \in OrderStatuses /\ orders[o].status \in OrderStatuses /\ orders[o].status # "absent"
  BY DEF Closed, Open, OrderStatuses
<1>2. /\ w \in Order /\ orders[o].event \in Events /\ w.status = s /\ w.event = orders[o].event
      /\ w.package = orders[o].package /\ w.amount = orders[o].amount /\ w.source = orders[o].source
  BY <1>1, OrderRow DEF Order
<1> HIDE DEF w
<1>3. DOMAIN t.orders = {o} /\ t.orders[o] = w /\ DOMAIN t.package = {}
  BY DEF One, None, w
<1>4. t.audit \subseteq Activity
  BY <1>1 DEF Activity
<1>5. LegalWrite(t, o)
  <2>1. \E x \in t.audit : x.order = o /\ x.to = w.status
    BY <1>2
  <2> QED BY <1>1, <1>2, <1>3, <2>1 DEF LegalWrite, CanLock
<1>6. LegalForms(t) /\ t.forms \subseteq Form
  BY DEF LegalForms
<1>7. Partial(t.package, Events, Codes)
  BY DEF Partial, None
<1>8. t.orders = One(o, w)
  BY DEF w
<1> QED BY <1>1, <1>2, <1>4, <1>5, <1>6, <1>7, <1>8, RowStep

\* Approving an order and giving its event the package, on evidence.
LEMMA ApproveStep ==
  ASSUME IInv, NEW r \in Reqs, NEW o \in Orders,
         orders[o].status \in Open \cup {"payment_review"}, CanLock(orders[o].event), NEW t,
         t.op \in Ops \ {"update_event"}, t.lock = {orders[o].event}, t.status = None,
         t.package = One(orders[o].event, orders[o].package),
         t.orders = One(o, [orders[o] EXCEPT !.status = "approved"]), t.config = None,
         t.audit \subseteq Activity, t.forms = {}, t.notice \subseteq Notice, LegalAnswer(t),
         \/ CompleteFor(o) # {}
         \/ \E a \in t.audit : a.order = o /\ a.to = "approved"
                                           /\ a.action = "order_manually_approved",
         tx' = [tx EXCEPT ![r] = t], UNCHANGED <<db, payfast, settings>>
  PROVE  IInv'
<1> DEFINE w == [orders[o] EXCEPT !.status = "approved"]
<1>1. "approved" \in OrderStatuses /\ orders[o].status # "absent"
  BY DEF Open, OrderStatuses
<1>2. /\ w \in Order /\ orders[o].event \in Events /\ orders[o].package \in Codes
      /\ w.status = "approved" /\ w.event = orders[o].event
      /\ w.package = orders[o].package /\ w.amount = orders[o].amount /\ w.source = orders[o].source
  BY <1>1, OrderRow DEF Order
<1> HIDE DEF w
<1>3. /\ DOMAIN t.orders = {o} /\ t.orders[o] = w
      /\ DOMAIN t.package = {orders[o].event} /\ t.package[orders[o].event] = orders[o].package
  BY DEF One, w
<1>4. LegalWrite(t, o)
  BY <1>1, <1>2, <1>3 DEF LegalWrite, CanLock
<1>5. LegalForms(t) /\ t.forms \subseteq Form
  BY DEF LegalForms
<1>6. Partial(t.package, Events, Codes)
  BY <1>2 DEF Partial, One
<1>7. t.orders = One(o, w)
  BY DEF w
<1> QED BY <1>1, <1>2, <1>4, <1>5, <1>6, <1>7, RowStep
----------------------------------------------------------------------------
(* The handlers, one lemma each.                                            *)

\* package_request: a free upgrade, a reused pending order, or a new order.
LEMMA PackageRequestStep ==
  ASSUME IInv, NEW r \in Reqs, NEW e \in Events, NEW u \in Users, NEW c \in Codes,
         package_request(r, e, u, c)
  PROVE  IInv'
<1>1. CanLock(e) /\ OrdersOf(e, Outstanding) = {}
  BY DEF package_request, require_resolved_payments
<1>2. CASE Begin(r, "package_request", Grant(Lock(e), e, c))
  <2> DEFINE t == Session("package_request", {e}, None, One(e, c), None, {}, {}, {})
  <2>1. ASSUME NEW x, x = [Grant(Lock(e), e, c) EXCEPT !.op = "package_request"]
        PROVE  x = t
    BY <2>1 DEF Lock, Grant, Idle, Session
  <2> HIDE DEF t
  <2>2. tx' = [tx EXCEPT ![r] = t] /\ UNCHANGED <<db, payfast, settings>>
    BY <1>2, <2>1 DEF Begin
  <2>3. /\ t.op = "package_request" /\ t.lock = {e} /\ t.status = None
        /\ t.package = One(e, c) /\ t.orders = None /\ t.config = None /\ t.audit = {}
        /\ t.forms = {} /\ t.notice = {}
    BY SessionFields DEF t
  <2> QED BY <1>1, <2>2, <2>3, NoRowStep DEF LegalAnswer, Ops
<1>3. ASSUME NEW o \in OrdersOf(e, {"pending"}),
             Begin(r, "package_request", [Lock(e) EXCEPT !.orders =
               One(o, [orders[o] EXCEPT !.package = c, !.amount = catalogue[c].price])])
      PROVE  IInv'
  <2> DEFINE w == [orders[o] EXCEPT !.package = c, !.amount = catalogue[c].price]
             t == Session("package_request", {e}, None, None, One(o, w), {}, {}, {})
  <2>1. o \in Orders /\ orders[o].event = e /\ orders[o].status = "pending"
    BY DEF OrdersOf
  <2>2. orders[o] \in Order /\ catalogue[c].price \in Nat
    BY <2>1, OrderRow DEF IInv, TypeOK, Config, OrderStatuses
  <2>3. /\ w \in Order /\ w.status = "pending" /\ w.event = e
        /\ w.source = orders[o].source
    BY <2>1, <2>2 DEF Order
  <2> HIDE DEF w
  <2>4. ASSUME NEW x, x = [[Lock(e) EXCEPT !.orders = One(o, w)] EXCEPT !.op = "package_request"]
        PROVE  x = t
    BY <2>4 DEF Lock, Idle, Session
  <2> HIDE DEF t
  <2>5. tx' = [tx EXCEPT ![r] = t] /\ UNCHANGED <<db, payfast, settings>>
    BY <1>3, <2>4 DEF Begin, w
  <2>6. /\ t.op = "package_request" /\ t.lock = {e} /\ t.status = None
        /\ t.package = None /\ t.orders = One(o, w) /\ t.config = None /\ t.audit = {}
        /\ t.forms = {} /\ t.notice = {}
    BY SessionFields DEF t
  <2>7. DOMAIN t.orders = {o} /\ t.orders[o] = w /\ DOMAIN t.package = {}
    BY <2>6 DEF One, None
  <2>8. LegalWrite(t, o)
    BY <1>1, <2>1, <2>3, <2>6, <2>7 DEF LegalWrite, CanLock, Open
  <2>9. Partial(t.package, Events, Codes) /\ LegalForms(t) /\ LegalAnswer(t)
    BY <2>6 DEF Partial, None, LegalForms, LegalAnswer
  <2> QED BY <1>1, <2>1, <2>3, <2>5, <2>6, <2>8, <2>9, RowStep DEF Ops
<1>4. ASSUME NEW o \in Orders, Fresh(o), OrdersOf(e, {"pending"}) = {},
             Begin(r, "package_request",
               [Lock(e) EXCEPT !.orders = One(o, NewOrder(e, u, c, "host"))])
      PROVE  IInv'
  <2> DEFINE w == NewOrder(e, u, c, "host")
             t == Session("package_request", {e}, None, None, One(o, w), {}, {}, {})
  <2>1. w \in Order /\ w.event = e /\ w.status = "pending" /\ w.source = "host"
    BY DEF NewOrder, Order, OrderStatuses, IInv, TypeOK, Config
  <2> HIDE DEF w
  <2>2. ASSUME NEW x, x = [[Lock(e) EXCEPT !.orders = One(o, w)] EXCEPT !.op = "package_request"]
        PROVE  x = t
    BY <2>2 DEF Lock, Idle, Session
  <2> HIDE DEF t
  <2>3. tx' = [tx EXCEPT ![r] = t] /\ UNCHANGED <<db, payfast, settings>>
    BY <1>4, <2>2 DEF Begin, w
  <2>4. /\ t.op = "package_request" /\ t.lock = {e} /\ t.status = None
        /\ t.package = None /\ t.orders = One(o, w) /\ t.config = None /\ t.audit = {}
        /\ t.forms = {} /\ t.notice = {}
    BY SessionFields DEF t
  <2>5. DOMAIN t.orders = {o} /\ t.orders[o] = w /\ DOMAIN t.package = {}
    BY <2>4 DEF One, None
  <2>6. OrdersOf(e, Open \cup Outstanding) = {}
    BY <1>1, <1>4 DEF OrdersOf, Open, Outstanding
  <2>7. LegalWrite(t, o)
    <3>1. orders[o].status = "absent"
      BY <1>4 DEF Fresh
    <3> QED BY <1>1, <2>1, <2>4, <2>5, <2>6, <3>1 DEF LegalWrite, CanLock
  <2>8. Partial(t.package, Events, Codes) /\ LegalForms(t) /\ LegalAnswer(t)
    BY <2>4 DEF Partial, None, LegalForms, LegalAnswer
  <2> QED BY <1>1, <1>4, <2>1, <2>3, <2>4, <2>7, <2>8, RowStep DEF Ops
<1> QED BY <1>2, <1>3, <1>4 DEF package_request

\* start_checkout: the pending order starts to await its payment; its form is its first.
LEMMA StartCheckoutStep ==
  ASSUME IInv, NEW r \in Reqs, NEW e \in Events, NEW u \in Users, NEW o \in Orders,
         start_checkout(r, e, u, o)
  PROVE  IInv'
<1> DEFINE w == [orders[o] EXCEPT !.status = "awaiting_payment", !.provider = TRUE]
           f == CheckoutForm(o)
           t == Session("start_checkout", {e}, None, None, One(o, w), {}, {f}, {})
<1>1. /\ CanLock(e) /\ OrdersOf(e, Outstanding) = {}
      /\ orders[o].status = "pending" /\ orders[o].event = e
  BY DEF start_checkout, require_resolved_payments, Payable
<1>2. orders[o] \in Order
  BY OrderRow DEF OrderStatuses
<1>3. /\ w \in Order /\ w.status = "awaiting_payment" /\ w.event = e
      /\ w.source = orders[o].source /\ w.package = orders[o].package
      /\ w.amount = orders[o].amount
  BY <1>1, <1>2 DEF Order, OrderStatuses
<1>4. f \in Form /\ f.order = o /\ f.package = w.package /\ f.amount = w.amount
  BY <1>2, <1>3 DEF CheckoutForm, Form, Order, IInv, TypeOK
<1> HIDE DEF w, f
<1>5. ASSUME NEW x, x = [[Lock(e) EXCEPT !.orders = One(o, w), !.forms = {f}]
                           EXCEPT !.op = "start_checkout"]
      PROVE  x = t
  BY <1>5 DEF Lock, Idle, Session
<1> HIDE DEF t
<1>6. tx' = [tx EXCEPT ![r] = t] /\ UNCHANGED <<db, payfast, settings>>
  BY <1>5 DEF start_checkout, Begin, w, f
<1>7. /\ t.op = "start_checkout" /\ t.lock = {e} /\ t.status = None
      /\ t.package = None /\ t.orders = One(o, w) /\ t.config = None /\ t.audit = {}
      /\ t.forms = {f} /\ t.notice = {}
  BY SessionFields DEF t
<1>8. DOMAIN t.orders = {o} /\ t.orders[o] = w /\ DOMAIN t.package = {}
  BY <1>7 DEF One, None
<1>9. LegalWrite(t, o)
  BY <1>1, <1>3, <1>7, <1>8 DEF LegalWrite, CanLock, Open
<1>10. LegalForms(t)
  BY <1>1, <1>3, <1>4, <1>7, <1>8 DEF LegalForms
<1>11. Partial(t.package, Events, Codes) /\ LegalAnswer(t)
  BY <1>7 DEF Partial, None, LegalAnswer
<1> QED BY <1>1, <1>3, <1>4, <1>6, <1>7, <1>9, <1>10, <1>11, RowStep DEF Ops

\* The three handlers in which a person closes an order.
LEMMA PersonClosesStep ==
  ASSUME IInv, NEW r \in Reqs, NEW o \in Orders, NEW s \in Closed, NEW a \in Actions, NEW op,
         op \in Ops \ {"update_event", "payfast_notify", "payfast_confirm"},
         orders[o].status \in Open, CanLock(orders[o].event),
         Begin(r, op, MoveLogged(Lock(orders[o].event), o, s, a))
  PROVE  IInv'
<1> DEFINE e == orders[o].event
           w == [orders[o] EXCEPT !.status = s]
           l == {[order |-> o, action |-> a, from |-> orders[o].status, to |-> s]}
           t == Session(op, {e}, None, None, One(o, w), l, {}, {})
<1> HIDE DEF w, l, e
<1>1. ASSUME NEW x, x = [[[Lock(e) EXCEPT !.orders = One(o, w)] EXCEPT !.audit = l]
                           EXCEPT !.op = op]
      PROVE  x = t
  BY <1>1 DEF Lock, Idle, Session
<1> HIDE DEF t
<1>2. tx' = [tx EXCEPT ![r] = t] /\ UNCHANGED <<db, payfast, settings>>
  BY <1>1 DEF Begin, Move, MoveLogged, w, l, e
<1>3. /\ t.op = op /\ t.lock = {e} /\ t.status = None
      /\ t.package = None /\ t.orders = One(o, w) /\ t.config = None /\ t.audit = l
      /\ t.forms = {} /\ t.notice = {}
  BY SessionFields DEF t
<1>4. LegalAnswer(t)
  BY <1>3 DEF LegalAnswer
<1> QED BY <1>2, <1>3, <1>4, CloseStep DEF w, l, e

\* cancel_host_order closes an awaiting order.
LEMMA CancelHostOrderStep ==
  ASSUME IInv, NEW r \in Reqs, NEW e \in Events, NEW u \in Users, NEW o \in Orders,
         cancel_host_order(r, e, u, o)
  PROVE  IInv'
BY PersonClosesStep DEF cancel_host_order, Closed, Actions, Ops, Open

\* cancel_order closes an open order.
LEMMA CancelOrderStep ==
  ASSUME IInv, NEW r \in Reqs, NEW o \in Orders, cancel_order(r, o)
  PROVE  IInv'
BY PersonClosesStep DEF cancel_order, Closed, Actions, Ops, Open

\* fail_order closes an awaiting order.
LEMMA FailOrderStep ==
  ASSUME IInv, NEW r \in Reqs, NEW o \in Orders, fail_order(r, o)
  PROVE  IInv'
BY PersonClosesStep DEF fail_order, Closed, Actions, Ops, Open

\* event_package grants a package while no payment is outstanding.
LEMMA EventPackageStep ==
  ASSUME IInv, NEW r \in Reqs, NEW e \in Events, NEW c \in Codes, event_package(r, e, c)
  PROVE  IInv'
<1> DEFINE t == Session("event_package", {e}, None, One(e, c), None, {}, {}, {})
<1>1. ASSUME NEW x, x = [Grant(Lock(e), e, c) EXCEPT !.op = "event_package"]
      PROVE  x = t
  BY <1>1 DEF Lock, Grant, Idle, Session
<1> HIDE DEF t
<1>2. tx' = [tx EXCEPT ![r] = t] /\ UNCHANGED <<db, payfast, settings>>
  BY <1>1 DEF event_package, Begin
<1>3. /\ t.op = "event_package" /\ t.lock = {e} /\ t.status = None
      /\ t.package = One(e, c) /\ t.orders = None /\ t.config = None /\ t.audit = {}
      /\ t.forms = {} /\ t.notice = {}
  BY SessionFields DEF t
<1>4. CanLock(e) /\ OrdersOf(e, Outstanding) = {}
  BY DEF event_package, require_resolved_payments
<1> QED BY <1>2, <1>3, <1>4, NoRowStep DEF LegalAnswer, Ops

\* The two handlers in which an admin approves an order.
LEMMA AdminApprovesStep ==
  ASSUME IInv, NEW r \in Reqs, NEW o \in Orders, NEW a \in Actions, NEW op,
         op \in Ops \ {"update_event", "payfast_notify", "payfast_confirm"},
         orders[o].status \in Open \cup {"payment_review"}, CanLock(orders[o].event),
         a = "order_manually_approved" \/ orders[o].status = "payment_review",
         Begin(r, op, [Approve(Lock(orders[o].event), o) EXCEPT !.audit =
                         MoveLogged(Idle, o, "approved", a).audit])
  PROVE  IInv'
<1> DEFINE e == orders[o].event
           w == [orders[o] EXCEPT !.status = "approved"]
           l == {[order |-> o, action |-> a, from |-> orders[o].status, to |-> "approved"]}
           g == One(orders[o].event, orders[o].package)
           t == Session(op, {e}, None, g, One(o, w), l, {}, {})
<1>1. MoveLogged(Idle, o, "approved", a).audit = l
  BY DEF MoveLogged, Move, Idle
<1> HIDE DEF w, l, e, g
<1>2. ASSUME NEW x, x = [[[[Lock(e) EXCEPT !.orders = One(o, w)] EXCEPT !.package = g]
                           EXCEPT !.audit = l] EXCEPT !.op = op]
      PROVE  x = t
  BY <1>2 DEF Lock, Idle, Session
<1> HIDE DEF t
<1>3. tx' = [tx EXCEPT ![r] = t] /\ UNCHANGED <<db, payfast, settings>>
  BY <1>1, <1>2 DEF Begin, Approve, Grant, Move, w, e, g
<1>4. /\ t.op = op /\ t.lock = {e} /\ t.status = None
      /\ t.package = g /\ t.orders = One(o, w) /\ t.config = None /\ t.audit = l
      /\ t.forms = {} /\ t.notice = {}
  BY SessionFields DEF t
<1>5. LegalAnswer(t)
  BY <1>4 DEF LegalAnswer
<1>6. l \subseteq Activity
  BY DEF l, Activity, Open, OrderStatuses
<1>7. \/ CompleteFor(o) # {}
      \/ \E x \in l : x.order = o /\ x.to = "approved" /\ x.action = "order_manually_approved"
  BY DEF l, IInv, RowsOK
<1> QED BY <1>3, <1>4, <1>5, <1>6, <1>7, ApproveStep DEF w, e, g

\* approve_order approves a pending order and logs the admin's decision.
LEMMA ApproveOrderStep ==
  ASSUME IInv, NEW r \in Reqs, NEW o \in Orders, approve_order(r, o)
  PROVE  IInv'
BY AdminApprovesStep DEF approve_order, Actions, Ops, Open

\* activate_reviewed_payment approves an order whose payment is on record.
LEMMA ActivateReviewedPaymentStep ==
  ASSUME IInv, NEW r \in Reqs, NEW o \in Orders, activate_reviewed_payment(r, o)
  PROVE  IInv'
<1>1. orders[o].status = "payment_review"
  BY DEF activate_reviewed_payment, IInv, RowsOK
<1> QED BY <1>1, AdminApprovesStep DEF activate_reviewed_payment, Actions, Ops, Open

\* The two event forms write a status and take no lock.
LEMMA EventFormStep ==
  ASSUME IInv, NEW r \in Reqs, NEW e \in Events, NEW s \in EventForms,
         NEW op \in {"update_event", "event_status"}, Exists(e),
         op = "update_event" /\ s = "live" => OrdersOf(e, Outstanding \cup {"pending"}) = {},
         Begin(r, op, [Idle EXCEPT !.status = One(e, s)])
  PROVE  IInv'
<1> DEFINE t == Session(op, {}, One(e, s), None, None, {}, {}, {})
<1>1. ASSUME NEW x, x = [[Idle EXCEPT !.status = One(e, s)] EXCEPT !.op = op]
      PROVE  x = t
  BY <1>1 DEF Idle, Session
<1> HIDE DEF t
<1>2. tx' = [tx EXCEPT ![r] = t] /\ UNCHANGED <<db, payfast, settings>>
  BY <1>1 DEF Begin
<1>3. /\ t.op = op /\ t.lock = {} /\ t.status = One(e, s) /\ t.package = None
      /\ t.orders = None /\ t.config = None /\ t.audit = {} /\ t.forms = {} /\ t.notice = {}
  BY SessionFields DEF t
<1>4. /\ DOMAIN t.status = {e} /\ t.status[e] = s /\ DOMAIN t.package = {}
      /\ DOMAIN t.orders = {} /\ DOMAIN t.config = {}
  BY <1>3 DEF One, None
<1>5. SessionOK(t)
  <2>1. Partial(t.status, Events, {"draft", "live"})
    BY <1>3, ConstantsAssumption DEF Partial, One
  <2> QED BY <1>3, <1>4, <2>1 DEF SessionOK, Partial, Ops, None
<1>6. LegalSession(t)
  <2>1. op = "update_event" /\ s = "live" => OrdersOf(e, Open) = {}
    BY DEF OrdersOf, Open, Outstanding
  <2> QED BY <1>3, <1>4, <2>1 DEF LegalSession, LegalForms, LegalAnswer, LegalLaunch, LegalGrant
<1>7. Apart(r, t)
  BY <1>3, <1>4 DEF Apart
<1> QED BY <1>2, <1>5, <1>6, <1>7, BeginStep

\* update_event passes the launch gate and holds no lock.
LEMMA UpdateEventStep ==
  ASSUME IInv, NEW r \in Reqs, NEW e \in Events, NEW s \in EventForms, update_event(r, e, s)
  PROVE  IInv'
BY EventFormStep DEF update_event

\* event_status has no gate and holds no lock.
LEMMA EventStatusStep ==
  ASSUME IInv, NEW r \in Reqs, NEW e \in Events, NEW s \in EventForms, event_status(r, e, s)
  PROVE  IInv'
BY EventFormStep DEF event_status

\* update_package touches no order and no event.
LEMMA UpdatePackageStep ==
  ASSUME IInv, NEW r \in Reqs, NEW f \in PackageForms, update_package(r, f)
  PROVE  IInv'
<1> DEFINE new == IF f.config.payment_required THEN f.config ELSE [f.config EXCEPT !.price = 0]
           c == One(f.code, [from |-> catalogue[f.code], to |-> new])
           t == [[Idle EXCEPT !.op = "update_package"] EXCEPT !.config = c]
<1>1. f.code \in Codes /\ f.config \in Config
  BY ConstantsAssumption
<1>2. catalogue[f.code] \in Config /\ new \in Config
  BY <1>1 DEF IInv, TypeOK, Config
<1>3. Partial(c, Codes, [from : Config, to : Config])
  <2> HIDE DEF new
  <2> QED BY <1>1, <1>2 DEF Partial, One
<1> HIDE DEF new, c
<1>4. ASSUME NEW x, x = [Idle EXCEPT !.op = "update_package", !.config = c] PROVE x = t
  BY <1>4 DEF Idle
<1>5. /\ t.op = "update_package" /\ t.lock = {} /\ t.status = None /\ t.package = None
      /\ t.orders = None /\ t.config = c /\ t.audit = {} /\ t.forms = {} /\ t.notice = {}
  BY DEF Idle
<1> HIDE DEF t
<1>6. tx' = [tx EXCEPT ![r] = t]
  <2>1. tx' = [tx EXCEPT ![r] = [Idle EXCEPT !.op = "update_package", !.config = c]]
    BY Zenon DEF update_package, c, new
  <2> QED BY <1>4, <2>1
<1>7. DOMAIN t.status = {} /\ DOMAIN t.package = {} /\ DOMAIN t.orders = {}
  BY <1>5 DEF None
<1>8. SessionOK(t)
  <2>1. Partial(None, Events, Codes) /\ Partial(None, Orders, Order)
        /\ Partial(None, Events, {"draft", "live"})
    BY DEF Partial, None
  <2> QED BY <1>3, <1>5, <2>1 DEF SessionOK, Ops
<1>9. LegalSession(t)
  BY <1>5, <1>7 DEF LegalSession, LegalForms, LegalAnswer, LegalLaunch, LegalGrant
<1>10. Apart(r, t)
  BY <1>5, <1>7 DEF Apart
<1>11. UNCHANGED <<db, forms, acked, notices, provider>> /\ edits' \in 0..MaxEdits
  BY ConstantsAssumption DEF update_package, payfast, IInv, TypeOK
<1>12. notices \subseteq Notice /\ provider \in [enabled : BOOLEAN, merchant : Merchants]
  BY DEF IInv, TypeOK
<1> QED BY <1>6, <1>8, <1>9, <1>10, <1>11, <1>12, SessionStep

\* A step that changes no session: Settle and update_payfast_settings.
LEMMA NoSessionStep ==
  ASSUME IInv, UNCHANGED <<db, forms, acked, tx>>,
         notices' \subseteq Notice, notices \subseteq notices',
         provider' \in [enabled : BOOLEAN, merchant : Merchants], edits' \in 0..MaxEdits
  PROVE  IInv'
<1>1. tx = [q \in Reqs |-> tx[q]] /\ \A q \in Reqs : SessionOK(tx[q]) /\ LegalSession(tx[q])
  BY DEF IInv, TypeOK
<1>2. Isolated'
  BY DEF IInv, Isolated
<1>3. ASSUME NEW q \in Reqs, NEW s, s = tx'[q] PROVE LegalSession(s)
  BY <1>1, <1>3
<1> QED BY <1>1, <1>2, <1>3, RowsKept

\* A payer settles a form: one more notice.
LEMMA SettleStep ==
  ASSUME IInv, NEW f \in forms, NEW s \in Outcomes, Settle(f, s)
  PROVE  IInv'
<1>1. [form |-> f, status |-> s] \in Notice
  BY DEF Notice, IInv, TypeOK
<1>2. notices' \subseteq Notice /\ notices \subseteq notices' /\ edits' \in 0..MaxEdits
      /\ provider' \in [enabled : BOOLEAN, merchant : Merchants]
  BY <1>1 DEF Settle, settings, IInv, TypeOK
<1> QED BY <1>2, NoSessionStep DEF Settle

\* update_payfast_settings changes only the provider's settings.
LEMMA UpdatePayfastSettingsStep ==
  ASSUME IInv, NEW enabled \in BOOLEAN, NEW m \in Merchants,
         update_payfast_settings(enabled, m)
  PROVE  IInv'
<1>1. notices' \subseteq Notice /\ notices \subseteq notices' /\ edits' \in 0..MaxEdits
      /\ provider' \in [enabled : BOOLEAN, merchant : Merchants]
  BY ConstantsAssumption DEF update_payfast_settings, payfast, IInv, TypeOK
<1> QED BY <1>1, NoSessionStep DEF update_payfast_settings, payfast

\* Ending a session without a commit: Close and Abort.
LEMMA IdleStep ==
  ASSUME IInv, NEW r \in Reqs, tx' = [tx EXCEPT ![r] = Idle],
         UNCHANGED <<db, payfast, settings>>
  PROVE  IInv'
<1>1. Apart(r, Idle)
  BY NoneFacts DEF Apart, Idle
<1> QED BY <1>1, IdleFacts, BeginStep

\* A session closed without a commit leaves nothing behind.
LEMMA AbortStep ==
  ASSUME IInv, NEW r \in Reqs, Abort(r)
  PROVE  IInv'
BY IdleStep DEF Abort

\* Nor does the session of a handler that left, once get_db closes it.
LEMMA SessionCloseStep ==
  ASSUME IInv, NEW r \in Reqs, Close(r)
  PROVE  IInv'
BY IdleStep DEF Close

\* A handler that leaves, or a notice refused under the lock, keeps the lock and writes nothing.
LEMMA LeftStep ==
  ASSUME IInv, NEW r \in Reqs, NEW e \in Events, CanLock(e),
         tx' = [tx EXCEPT ![r] = [Lock(e) EXCEPT !.op = "left"]],
         UNCHANGED <<db, payfast, settings>>
  PROVE  IInv'
<1> DEFINE t == Session("left", {e}, None, None, None, {}, {}, {})
<1>1. ASSUME NEW x, x = [Lock(e) EXCEPT !.op = "left"] PROVE x = t
  BY <1>1 DEF Lock, Idle, Session
<1> HIDE DEF t
<1>2. tx' = [tx EXCEPT ![r] = t]
  BY <1>1
<1>3. /\ t.op = "left" /\ t.lock = {e} /\ t.status = None /\ t.package = None
      /\ t.orders = None /\ t.config = None /\ t.audit = {} /\ t.forms = {} /\ t.notice = {}
  BY SessionFields DEF t
<1>4. t.op \in Ops \ {"update_event"} /\ LegalAnswer(t)
  BY <1>3 DEF Ops, LegalAnswer
<1> QED BY <1>2, <1>3, <1>4, NoRowStep

\* So a request that a handler answers early keeps the invariant,
LEMMA LeaveStep ==
  ASSUME IInv, NEW r \in Reqs, NEW e \in Events, Leave(r, e)
  PROVE  IInv'
BY LeftStep DEF Leave, Begin

\* and so does a notice that payfast_notify answers with 4xx.
LEMMA NotifyRefuseStep ==
  ASSUME IInv, NEW r \in Reqs, NEW n \in notices, NotifyRefuse(r, n)
  PROVE  IInv'
<1>1. n.form.order \in Orders
  BY DEF Notice, Form, IInv, TypeOK
<1>2. orders[n.form.order].event \in Events
  BY <1>1 DEF IInv, TypeOK, Order
<1> QED BY <1>2, LeftStep DEF NotifyRefuse

\* payfast_notify waits for the server's confirmation with no lock and no writes.
LEMMA NotifyReceiveStep ==
  ASSUME IInv, NEW r \in Reqs, NEW n \in notices, NotifyReceive(r, n)
  PROVE  IInv'
<1> DEFINE t == Session("payfast_confirm", {}, None, None, None, {}, {}, {n})
<1>1. ASSUME NEW x, x = [[Idle EXCEPT !.notice = {n}] EXCEPT !.op = "payfast_confirm"]
      PROVE  x = t
  BY <1>1 DEF Idle, Session
<1> HIDE DEF t
<1>2. tx' = [tx EXCEPT ![r] = t] /\ UNCHANGED <<db, payfast, settings>>
  BY <1>1 DEF NotifyReceive, Begin
<1>3. /\ t.op = "payfast_confirm" /\ t.lock = {} /\ t.status = None /\ t.package = None
      /\ t.orders = None /\ t.config = None /\ t.audit = {} /\ t.forms = {} /\ t.notice = {n}
  BY SessionFields DEF t
<1>4. DOMAIN t.status = {} /\ DOMAIN t.package = {} /\ DOMAIN t.orders = {}
      /\ DOMAIN t.config = {}
  BY <1>3 DEF None
<1>5. SessionOK(t)
  BY <1>3, <1>4 DEF SessionOK, Partial, Ops, None, IInv, TypeOK
<1>6. LegalSession(t)
  BY <1>3, <1>4 DEF LegalSession, LegalForms, LegalAnswer, LegalLaunch, LegalGrant
<1>7. Apart(r, t)
  BY <1>3, <1>4 DEF Apart
<1> QED BY <1>2, <1>5, <1>6, <1>7, BeginStep

\* The session of a notice under the lock, before its writes.
LEMMA NotifySession ==
  ASSUME NEW e, NEW n, NEW x, x = [Lock(e) EXCEPT !.notice = {n}, !.op = "payfast_notify"]
  PROVE  x = Session("payfast_notify", {e}, None, None, None, {}, {}, {n})
BY DEF Lock, Idle, Session

\* payfast_notify under the lock: nothing to do, approve, quarantine or close.
LEMMA NotifyLockStep ==
  ASSUME IInv, NEW r \in Reqs, NEW n \in notices, NotifyLock(r, n)
  PROVE  IInv'
<1> DEFINE o == n.form.order
           e == orders[o].event
           b == Session("payfast_notify", {e}, None, None, None, {}, {}, {n})
           w(s) == [orders[o] EXCEPT !.status = s]
           l(a, s) == {[order |-> o, action |-> a, from |-> orders[o].status, to |-> s]}
           u == IF n.status = "COMPLETE" THEN Complete(b, o) ELSE Fail(b, o, n.status)
<1>1. n \in Notice /\ o \in Orders
  BY DEF IInv, TypeOK, Notice, Form
<1>2. CanLock(e) /\ Acceptable(n) /\ UNCHANGED <<db, payfast, settings>>
  BY DEF NotifyLock
<1>3. tx' = [tx EXCEPT ![r] = u]
  <2> DEFINE t == [Lock(e) EXCEPT !.notice = {n}, !.op = "payfast_notify"]
  <2>1. t = b
    BY NotifySession
  <2>2. tx' = [tx EXCEPT ![r] = IF n.status = "COMPLETE" THEN Complete(t, o) ELSE Fail(t, o, n.status)]
    BY DEF NotifyLock
  <2> HIDE DEF t, b, o, e
  <2> QED BY <2>1, <2>2
<1>4. orders[o].status \in OrderStatuses /\ e \in Events
  BY <1>1 DEF IInv, TypeOK, Order
<1>5. n.status = "COMPLETE" => CompleteFor(o) # {}
  BY DEF CompleteFor
<1> HIDE DEF b
<1>6. ASSUME u = b, n.status = "COMPLETE" => orders[o].status \in Settled PROVE IInv'
  <2>1. /\ b.op = "payfast_notify" /\ b.lock = {e} /\ b.status = None /\ b.package = None
        /\ b.orders = None /\ b.config = None /\ b.audit = {} /\ b.forms = {}
        /\ b.notice = {n}
    BY SessionFields DEF b
  <2>2. LegalAnswer(b)
    BY <1>6, <2>1 DEF LegalAnswer, None
  <2>3. tx' = [tx EXCEPT ![r] = b] /\ b.op \in Ops \ {"update_event"} /\ b.notice \subseteq Notice
    BY <1>1, <1>3, <1>6, <2>1 DEF Ops
  <2> HIDE DEF u, e
  <2> QED BY <1>2, <1>4, <2>1, <2>2, <2>3, NoRowStep
<1>7. CASE n.status = "COMPLETE" /\ orders[o].status \in Settled
  <2>1. u = b
    BY <1>7 DEF Complete, Settled, Closed
  <2> QED BY <1>6, <1>7, <2>1
<1>8. CASE n.status = "COMPLETE" /\ orders[o].status = "awaiting_payment"
  <2> DEFINE t == Session("payfast_notify", {e}, None, One(e, orders[o].package),
                          One(o, w("approved")), {}, {}, {n})
  <2>1. u = [[b EXCEPT !.orders = One(o, w("approved"))]
               EXCEPT !.package = One(e, orders[o].package)]
    BY <1>8 DEF Complete, Approve, Move, Grant, Settled, Closed
  <2>2. ASSUME NEW p, NEW q, NEW x, x = [[b EXCEPT !.orders = p] EXCEPT !.package = q]
        PROVE  x = Session("payfast_notify", {e}, None, q, p, {}, {}, {n})
    BY <2>2 DEF Session, b
  <2>3. tx' = [tx EXCEPT ![r] = t]
    BY <1>3, <2>1, <2>2, ZenonT(30)
  <2> HIDE DEF t
  <2>4. /\ t.op = "payfast_notify" /\ t.lock = {e} /\ t.status = None
        /\ t.package = One(e, orders[o].package) /\ t.orders = One(o, w("approved"))
        /\ t.config = None /\ t.audit = {} /\ t.forms = {} /\ t.notice = {n}
    BY SessionFields DEF t
  <2>5. LegalAnswer(t)
    <3>1. w("approved").status = "approved"
      BY <1>1, OrderRow DEF OrderStatuses, Order
    <3>2. DOMAIN t.orders = {o} /\ t.orders[o] = w("approved")
      BY <2>4 DEF One
    <3> QED BY <2>4, <3>1, <3>2 DEF LegalAnswer, Settled
  <2> QED BY <1>1, <1>2, <1>5, <1>8, <2>3, <2>4, <2>5, ApproveStep DEF Ops, Open
<1>9. CASE n.status = "COMPLETE" /\ orders[o].status \in Closed
  <2> DEFINE t == Session("payfast_notify", {e}, None, None, One(o, w("payment_review")),
                          l("late_payment_received", "payment_review"), {}, {n})
  <2>1. u = [[b EXCEPT !.orders = One(o, w("payment_review"))]
               EXCEPT !.audit = l("late_payment_received", "payment_review")]
    BY <1>9 DEF Complete, MoveLogged, Move, Settled, Closed
  <2>2. ASSUME NEW p, NEW q, NEW x, x = [[b EXCEPT !.orders = p] EXCEPT !.audit = q]
        PROVE  x = Session("payfast_notify", {e}, None, None, p, q, {}, {n})
    BY <2>2 DEF Session, b
  <2>3. tx' = [tx EXCEPT ![r] = t]
    BY <1>3, <2>1, <2>2
  <2> HIDE DEF t
  <2>4. /\ t.op = "payfast_notify" /\ t.lock = {e} /\ t.status = None /\ t.package = None
        /\ t.orders = One(o, w("payment_review")) /\ t.config = None
        /\ t.audit = l("late_payment_received", "payment_review") /\ t.forms = {}
        /\ t.notice = {n}
    BY SessionFields DEF t
  <2>5. /\ w("payment_review") \in Order /\ w("payment_review").status = "payment_review"
        /\ w("payment_review").event = e /\ w("payment_review").source = orders[o].source
        /\ w("payment_review").package = orders[o].package
        /\ w("payment_review").amount = orders[o].amount
    <3>1. orders[o] \in Order /\ "payment_review" \in OrderStatuses
      BY <1>1, OrderRow DEF OrderStatuses
    <3> QED BY <3>1 DEF Order
  <2>6. DOMAIN t.orders = {o} /\ t.orders[o] = w("payment_review") /\ DOMAIN t.package = {}
    BY <2>4 DEF One, None
  <2>7. LegalAnswer(t) /\ LegalForms(t)
    BY <2>4, <2>5, <2>6 DEF LegalAnswer, LegalForms, Settled
  <2>8. t.audit \subseteq Activity
    BY <1>1, <1>4, <2>4 DEF Activity, Actions, OrderStatuses
  <2>9. LegalWrite(t, o)
    <3>1. \E a \in t.audit : a.order = o /\ a.to = "payment_review"
      BY <2>4
    <3>2. orders[o].status \notin {"absent", "pending"}
      BY <1>9 DEF Closed
    <3> HIDE DEF w
    <3> QED BY <1>2, <1>5, <1>9, <2>4, <2>5, <2>6, <3>1, <3>2 DEF LegalWrite, CanLock
  <2>10. Partial(t.package, Events, Codes) /\ t.forms \subseteq Form /\ t.notice \subseteq Notice
    BY <1>1, <2>4, <2>6 DEF Partial
  <2>11. orders[o].status # "absent"
    BY <1>9 DEF Closed
  <2> HIDE DEF w, e
  <2> QED BY <1>1, <1>2, <1>4, <2>3, <2>4, <2>5, <2>7, <2>8, <2>9, <2>10, <2>11, RowStep
          DEF Ops, e
<1>10. CASE /\ n.status # "COMPLETE" /\ orders[o].status = "awaiting_payment"
            /\ n.status \in {"FAILED", "CANCELLED"}
  <2> DEFINE s == IF n.status = "FAILED" THEN "failed" ELSE "cancelled"
             t == Session("payfast_notify", {e}, None, None, One(o, w(s)),
                          l("provider_payment_closed", s), {}, {n})
  <2>1. u = [[b EXCEPT !.orders = One(o, w(s))] EXCEPT !.audit = l("provider_payment_closed", s)]
    BY <1>10 DEF Fail, MoveLogged, Move
  <2>2. ASSUME NEW p, NEW q, NEW x, x = [[b EXCEPT !.orders = p] EXCEPT !.audit = q]
        PROVE  x = Session("payfast_notify", {e}, None, None, p, q, {}, {n})
    BY <2>2 DEF Session, b
  <2>3. tx' = [tx EXCEPT ![r] = t]
    BY <1>3, <2>1, <2>2
  <2> HIDE DEF t
  <2>4. /\ t.op = "payfast_notify" /\ t.lock = {e} /\ t.status = None /\ t.package = None
        /\ t.orders = One(o, w(s)) /\ t.config = None
        /\ t.audit = l("provider_payment_closed", s) /\ t.forms = {} /\ t.notice = {n}
    BY SessionFields DEF t
  <2>5. LegalAnswer(t) /\ s \in Closed
    BY <1>10, <2>4 DEF LegalAnswer, Closed
  <2>6. /\ "provider_payment_closed" \in Actions /\ orders[o].status \in Open
        /\ t.op \in Ops \ {"update_event"} /\ t.notice \subseteq Notice
    BY <1>1, <1>10, <2>4 DEF Actions, Open, Ops
  <2> HIDE DEF s
  <2> QED BY <1>1, <1>2, <2>3, <2>4, <2>5, <2>6, CloseStep, ZenonT(30)
<1>11. CASE /\ n.status # "COMPLETE"
            /\ ~(orders[o].status = "awaiting_payment" /\ n.status \in {"FAILED", "CANCELLED"})
  BY <1>6, <1>11 DEF Fail
<1> QED BY <1>2, <1>7, <1>8, <1>9, <1>10, <1>11 DEF Acceptable
----------------------------------------------------------------------------
(* Commit: the pending writes, legal when prepared, are still legal.        *)

\* What a commit does to the rows, in terms of the session's pending writes.
LEMMA CommitRows ==
  ASSUME IInv, NEW r \in Reqs, Commit(r)
  PROVE  /\ SessionOK(tx[r]) /\ LegalSession(tx[r])
         /\ \A o \in Orders :
              orders'[o] = IF o \in DOMAIN tx[r].orders THEN tx[r].orders[o] ELSE orders[o]
         /\ \A e \in Events :
              /\ Exists(e)' <=> Exists(e) \/ e \in DOMAIN tx[r].status
              /\ eventStatus'[e] = IF e \in DOMAIN tx[r].status THEN tx[r].status[e]
                                                                ELSE eventStatus[e]
              /\ eventPackage'[e] = IF e \in DOMAIN tx[r].package THEN tx[r].package[e]
                                                                  ELSE eventPackage[e]
         /\ \A o \in Orders : CompleteFor(o)' = CompleteFor(o)
         /\ audit' = audit \cup tx[r].audit
<1>1. SessionOK(tx[r]) /\ LegalSession(tx[r])
  BY DEF IInv, TypeOK
<1>2. \A o \in Orders :
        orders'[o] = IF o \in DOMAIN tx[r].orders THEN tx[r].orders[o] ELSE orders[o]
  BY DEF Commit, Flush, IInv, TypeOK
<1>3. \A e \in Events :
        /\ eventStatus'[e] = IF e \in DOMAIN tx[r].status THEN tx[r].status[e] ELSE eventStatus[e]
        /\ eventPackage'[e] = IF e \in DOMAIN tx[r].package THEN tx[r].package[e]
                                                            ELSE eventPackage[e]
  BY DEF Commit, Flush, IInv, TypeOK
<1>4. \A e \in Events : Exists(e)' <=> Exists(e) \/ e \in DOMAIN tx[r].status
  BY <1>1, <1>3, SMTT(30) DEF Exists, SessionOK, Partial
<1>5. \A o \in Orders : CompleteFor(o)' = CompleteFor(o)
  BY DEF Commit, CompleteFor
<1> QED BY <1>1, <1>2, <1>3, <1>4, <1>5 DEF Commit

\* The orders of an event change only under that event's lock.
LEMMA CommitKeepsOrdersOf ==
  ASSUME IInv, NEW r \in Reqs, Commit(r), NEW e, e \notin tx[r].lock, NEW S, "absent" \notin S
  PROVE  OrdersOf(e, S)' = OrdersOf(e, S)
<1> SUFFICES ASSUME NEW o \in Orders
             PROVE  (orders'[o].event = e /\ orders'[o].status \in S)
                      <=> (orders[o].event = e /\ orders[o].status \in S)
  BY DEF OrdersOf
<1>1. CASE o \in DOMAIN tx[r].orders
  <2>1. LegalWrite(tx[r], o)
    BY <1>1 DEF IInv, LegalSession
  <2> QED BY <1>1, <2>1, CommitRows DEF LegalWrite
<1>2. CASE o \notin DOMAIN tx[r].orders
  BY <1>2, CommitRows
<1> QED BY <1>1, <1>2

\* Each order either keeps its row or makes a legal move.
LEMMA CommitMoves ==
  ASSUME IInv, NEW r \in Reqs, Commit(r), NEW o \in Orders
  PROVE  \/ o \notin DOMAIN tx[r].orders /\ orders'[o] = orders[o]
         \/ o \in DOMAIN tx[r].orders /\ orders'[o] = tx[r].orders[o] /\ LegalWrite(tx[r], o)
BY CommitRows DEF LegalSession

\* The flushed rows are typed.
LEMMA CommitTypes ==
  ASSUME IInv, NEW r \in Reqs, Commit(r)
  PROVE  TypeOK'
<1> DEFINE t == tx[r]
<1>1. SessionOK(t)
  BY DEF IInv, TypeOK
<1>2. TypeOK
  BY DEF IInv
<1>3. orders' \in [Orders -> Order]
  BY <1>1, <1>2 DEF Commit, Flush, TypeOK, SessionOK, Partial
<1>4. eventStatus' \in [Events -> EventStatuses] /\ eventPackage' \in [Events -> Codes]
  BY <1>1, <1>2 DEF Commit, Flush, TypeOK, SessionOK, Partial, EventStatuses
<1>5. catalogue' \in [Codes -> Config]
  <2>1. ASSUME NEW now \in Config, NEW from \in Config, NEW to \in Config
        PROVE  Merge(now, from, to) \in Config
    BY DEF Merge, Column, Config
  <2>2. ASSUME NEW c \in DOMAIN t.config
        PROVE  c \in Codes /\ t.config[c].from \in Config /\ t.config[c].to \in Config
    BY <1>1 DEF SessionOK, Partial
  <2> QED BY <1>2, <2>1, <2>2 DEF Commit, TypeOK
<1>6. audit' \subseteq Activity /\ forms' \subseteq Form
  BY <1>1, <1>2 DEF Commit, TypeOK, SessionOK
<1>7. tx' = [q \in Reqs |-> tx'[q]] /\ \A q \in Reqs : SessionOK(tx'[q])
  BY <1>2, IdleFacts DEF Commit, TypeOK
<1>8. launchedBy' \in [Events -> Ops]
  BY <1>1, <1>2 DEF Commit, TypeOK, SessionOK
<1>9. acked' \subseteq Orders
  BY <1>1, <1>2 DEF Commit, TypeOK, SessionOK, Notice, Form
<1>10. /\ provider' \in [enabled : BOOLEAN, merchant : Merchants] /\ notices' \subseteq Notice
       /\ edits' \in 0..MaxEdits
  BY <1>2 DEF Commit, TypeOK, settings
<1> QED BY <1>3, <1>4, <1>5, <1>6, <1>7, <1>8, <1>9, <1>10 DEF TypeOK, SessionOK

\* The facts about rows survive the flush.
LEMMA CommitRowsOK ==
  ASSUME IInv, NEW r \in Reqs, Commit(r)
  PROVE  RowsOK'
<1> SUFFICES ASSUME NEW o \in Orders
             PROVE  /\ orders'[o].status # "absent" => Exists(orders[o].event)'
                    /\ orders'[o].status # "paid"
                    /\ orders'[o].status = "payment_review" => CompleteFor(o)' # {}
  BY DEF RowsOK
<1>1. CASE o \notin DOMAIN tx[r].orders
  <2>1. orders[o].event \in Events
    BY DEF IInv, TypeOK, Order
  <2> QED BY <1>1, <2>1, CommitRows DEF IInv, RowsOK, Exists
<1>2. CASE o \in DOMAIN tx[r].orders
  <2>1. LegalWrite(tx[r], o) /\ orders'[o] = tx[r].orders[o] /\ orders'[o].event \in Events
    BY <1>2, CommitRows, CommitMoves DEF SessionOK, Partial, Order
  <2>2. Exists(orders[o].event)' <=> eventStatus'[orders'[o].event] # "absent"
    BY SMTT(30) DEF Exists
  <2>3. eventStatus'[orders'[o].event] # "absent"
    BY <2>1, CommitRows DEF LegalWrite, Exists
  <2>4. orders'[o].status # "paid"
    BY <2>1 DEF LegalWrite, Open, Closed
  <2>5. orders'[o].status = "payment_review" => CompleteFor(o) # {}
    BY <2>1 DEF LegalWrite, Open, Closed
  <2> QED BY <2>2, <2>3, <2>4, <2>5, CommitRows
<1> QED BY <1>1, <1>2

\* The committed session leaves its lock and its rows.
LEMMA CommitIsolated ==
  ASSUME IInv, NEW r \in Reqs, Commit(r)
  PROVE  Isolated'
BY NoneFacts DEF IInv, Isolated, TypeOK, Commit, Idle

\* A creation order that is open after the commit was open before, or its event is new.
LEMMA CommitLaunch ==
  ASSUME IInv, NEW r \in Reqs, Commit(r), NEW e \in Events, Exists(e),
         \A o \in OrdersOf(e, Open) : orders[o].source # "event_creation"
  PROVE  \A o \in OrdersOf(e, Open)' : orders'[o].source # "event_creation"
<1> SUFFICES ASSUME NEW o \in Orders, orders'[o].event = e, orders'[o].status \in Open
             PROVE  orders'[o].source # "event_creation"
  BY DEF OrdersOf
<1>1. CASE o \notin DOMAIN tx[r].orders
  BY <1>1, CommitMoves DEF OrdersOf
<1>2. CASE o \in DOMAIN tx[r].orders
  <2>1. orders'[o] = tx[r].orders[o] /\ LegalWrite(tx[r], o)
    BY <1>2, CommitMoves
  <2>2. CASE orders[o].status = "absent"
    BY <2>1, <2>2 DEF LegalWrite, Open, Closed
  <2>3. CASE orders[o].status # "absent"
    <3>1. orders[o].status \in Open /\ orders[o].event = e /\ orders'[o].source = orders[o].source
      BY <2>1, <2>3 DEF LegalWrite, Open, Closed
    <3> QED BY <3>1, SMTT(30) DEF OrdersOf
  <2> QED BY <2>2, <2>3
<1> QED BY <1>1, <1>2

\* The other sessions' pending writes stay legal.
LEMMA CommitKeepsSessions ==
  ASSUME IInv, NEW r \in Reqs, Commit(r), NEW q \in Reqs
  PROVE  LegalSession(tx[q])'
<1>1. CASE q = r
  <2>1. tx'[q] = Idle
    BY <1>1 DEF Commit, IInv, TypeOK
  <2> QED BY <2>1, NoneFacts DEF Idle, LegalSession, LegalForms, LegalAnswer, LegalLaunch, LegalGrant
<1>2. CASE q # r
  <2> DEFINE s == tx[q]
  <2>1. tx'[q] = s
    BY <1>2 DEF Commit, IInv, TypeOK
  <2>2. SessionOK(s) /\ LegalSession(s)
    BY DEF IInv, TypeOK
  <2>3. /\ s.lock \cap tx[r].lock = {} /\ DOMAIN s.orders \cap DOMAIN tx[r].orders = {}
    BY <1>2 DEF IInv, Isolated
  <2>4. ASSUME NEW o \in DOMAIN s.orders PROVE orders'[o] = orders[o] /\ o \in Orders
    BY <2>2, <2>3, CommitRows DEF SessionOK, Partial
  <2>5. ASSUME NEW e \in s.lock, NEW S, "absent" \notin S PROVE OrdersOf(e, S)' = OrdersOf(e, S)
    BY <2>3, <2>5, CommitKeepsOrdersOf
  <2>6. ASSUME NEW e \in s.lock PROVE e \in Events /\ (Exists(e)' <=> Exists(e))
    BY <2>2, <2>3, CommitRows DEF SessionOK, LegalSession, LegalLaunch
  <2>7. ASSUME NEW e \in Events, Exists(e) PROVE Exists(e)'
    BY <2>7, CommitRows
  <2>8. "absent" \notin Open \cup Outstanding /\ "absent" \notin Outstanding
    BY DEF Open, Outstanding
  <2>9. ASSUME NEW o \in Orders, orders[o].status \in Settled PROVE orders'[o].status \in Settled
    BY <2>9, CommitMoves DEF LegalWrite, Settled, Open, Closed
  <2>10. \A o, p \in DOMAIN s.orders : o = p
    BY <2>2, SMTT(30) DEF LegalSession
  <2>11. ASSUME NEW o \in DOMAIN s.orders PROVE LegalWrite(tx[q], o)'
    <3>1. LegalWrite(s, o)
      BY <2>2 DEF LegalSession
    <3>2. s.orders[o].event \in s.lock
      BY <3>1 DEF LegalWrite
    <3>3. o \in Orders /\ orders'[o] = orders[o] /\ CompleteFor(o)' = CompleteFor(o)
      BY <2>4, CommitRows
    <3>4. ASSUME NEW e, e = s.orders[o].event
          PROVE  /\ OrdersOf(e, Outstanding)' = OrdersOf(e, Outstanding)
                 /\ OrdersOf(e, Open \cup Outstanding)' = OrdersOf(e, Open \cup Outstanding)
                 /\ eventStatus'[e] # "absent" <=> eventStatus[e] # "absent"
      BY <2>5, <2>6, <2>8, <3>2, <3>4 DEF Exists
    <3> QED BY <2>1, <3>1, <3>3, <3>4, ZenonT(30) DEF LegalWrite, Exists
  <2>12. LegalForms(tx[q])'
    BY <2>1, <2>2, <2>4 DEF LegalSession, LegalForms
  <2>13. LegalAnswer(tx[q])'
    <3>1. ASSUME NEW n \in s.notice PROVE n.form.order \in Orders
      BY <2>2 DEF SessionOK, Notice, Form
    <3> QED BY <2>1, <2>2, <2>9, <3>1 DEF LegalSession, LegalAnswer
  <2>14. LegalLaunch(tx[q])'
    <3>1. DOMAIN s.status \subseteq Events
      BY <2>2 DEF SessionOK, Partial
    <3>2. LegalLaunch(s)
      BY <2>2 DEF LegalSession
    <3>3. \A e \in DOMAIN s.status : Exists(e)' \/ e \in s.lock
      BY <2>7, <3>1, <3>2 DEF LegalLaunch
    <3>4. ASSUME s.op = "update_event", NEW e \in DOMAIN s.status
          PROVE  /\ Exists(e)'
                 /\ s.status[e] = "live" =>
                      \A o \in OrdersOf(e, Open)' : orders'[o].source # "event_creation"
      BY <2>7, <3>1, <3>2, <3>4, CommitLaunch DEF LegalLaunch
    <3> QED BY <2>1, <3>3, <3>4 DEF LegalLaunch
  <2>15. LegalGrant(tx[q])'
    BY <2>1, <2>2, <2>5, <2>8 DEF LegalSession, LegalGrant
  <2> QED BY <2>1, <2>10, <2>11, <2>12, <2>13, <2>14, <2>15 DEF LegalSession
<1> QED BY <1>1, <1>2

\* A row becomes open only when its event has no other open row.
LEMMA CommitOneOpenOrder ==
  ASSUME IInv, NEW r \in Reqs, Commit(r)
  PROVE  OneOpenOrder'
<1> SUFFICES ASSUME NEW e \in Events, NEW o \in Orders, NEW p \in Orders,
                    orders'[o].event = e, orders'[o].status \in Open,
                    orders'[p].event = e, orders'[p].status \in Open, o # p
             PROVE  FALSE
  BY DEF OneOpenOrder, OrdersOf
<1>1. ASSUME NEW x \in Orders, NEW y \in Orders, x # y, x \in DOMAIN tx[r].orders,
             orders'[x].event = e, orders'[x].status \in Open,
             orders'[y].event = e, orders'[y].status \in Open
      PROVE  FALSE
  <2>1. y \notin DOMAIN tx[r].orders /\ orders'[y] = orders[y]
    BY <1>1, CommitRows DEF LegalSession
  <2>2. y \in OrdersOf(e, Open)
    BY <1>1, <2>1 DEF OrdersOf
  <2>3. LegalWrite(tx[r], x) /\ orders'[x] = tx[r].orders[x]
    BY <1>1, CommitMoves, SMTT(30)
  <2>4. orders[x].status \in Open /\ orders[x].event = e
    <3>1. OrdersOf(e, Open \cup Outstanding) # {}
      BY <2>2 DEF OrdersOf
    <3> QED BY <1>1, <2>3, <3>1 DEF LegalWrite, Open, Closed
  <2>5. x \in OrdersOf(e, Open)
    BY <1>1, <2>4 DEF OrdersOf
  <2> QED BY <1>1, <2>2, <2>5 DEF IInv, OneOpenOrder
<1>2. CASE o \in DOMAIN tx[r].orders \/ p \in DOMAIN tx[r].orders
  BY <1>1, <1>2
<1>3. CASE o \notin DOMAIN tx[r].orders /\ p \notin DOMAIN tx[r].orders
  BY <1>3, CommitMoves DEF IInv, OneOpenOrder, OrdersOf
<1> QED BY <1>2, <1>3

\* The flushed form is its order's first, and no flushed row parts from its form.
LEMMA CommitFormMatchesOrder ==
  ASSUME IInv, NEW r \in Reqs, Commit(r)
  PROVE  FormMatchesOrder'
<1>1. forms' = forms \cup tx[r].forms
  BY DEF Commit
<1>2. \A f \in forms \cup tx[r].forms : f.order \in Orders
  BY DEF IInv, TypeOK, SessionOK, Form
<1>3. LegalForms(tx[r])
  BY CommitRows DEF LegalSession
<1>4. ASSUME NEW f \in forms
      PROVE  /\ f.package = orders[f.order].package /\ f.amount = orders[f.order].amount
             /\ orders[f.order].status \notin {"absent", "pending"}
             /\ \A g \in forms : g.order = f.order => g = f
  BY DEF IInv, FormMatchesOrder
<1>5. ASSUME NEW f \in forms
      PROVE  /\ f.package = orders'[f.order].package /\ f.amount = orders'[f.order].amount
             /\ orders'[f.order].status \notin {"absent", "pending"}
  BY <1>2, <1>4, CommitMoves DEF LegalWrite, Open, Closed
<1>6. ASSUME NEW f \in tx[r].forms
      PROVE  /\ f.package = orders'[f.order].package /\ f.amount = orders'[f.order].amount
             /\ orders'[f.order].status \notin {"absent", "pending"}
             /\ orders[f.order].status = "pending"
  BY <1>2, <1>3, CommitMoves DEF LegalForms
<1>7. ASSUME NEW f \in forms', NEW g \in forms', f.order = g.order PROVE f = g
  BY <1>1, <1>3, <1>4, <1>6, <1>7 DEF LegalForms
<1> QED BY <1>1, <1>5, <1>6, <1>7 DEF FormMatchesOrder

\* The answer 200 leaves its order settled, and settled orders stay so.
LEMMA CommitAckedSettled ==
  ASSUME IInv, NEW r \in Reqs, Commit(r)
  PROVE  AckedSettled'
<1>1. ASSUME NEW o \in Orders, orders[o].status \in Settled PROVE orders'[o].status \in Settled
  BY <1>1, CommitMoves DEF LegalWrite, Settled, Open, Closed
<1>2. \A n \in tx[r].notice : n.form.order \in Orders
  BY CommitRows DEF SessionOK, Notice, Form
<1>3. ASSUME NEW n \in tx[r].notice, n.status = "COMPLETE"
      PROVE  orders'[n.form.order].status \in Settled
  <2>1. tx[r].op = "payfast_notify"
    BY <1>3, CommitRows DEF Commit, CanCommit, LegalSession, LegalAnswer
  <2> QED BY <1>1, <1>2, <1>3, <2>1, CommitRows DEF LegalSession, LegalAnswer
<1>4. acked \subseteq Orders
  BY DEF IInv, TypeOK
<1> QED BY <1>1, <1>3, <1>4 DEF Commit, IInv, AckedSettled

\* Each flushed outcome comes with its payment or its activity row.
LEMMA CommitOutcomeExplained ==
  ASSUME IInv, NEW r \in Reqs, Commit(r)
  PROVE  OutcomeExplained'
<1> SUFFICES ASSUME NEW o \in Orders
             PROVE  /\ orders'[o].status = "approved" =>
                         CompleteFor(o)' # {} \/ Logged(o, {"order_manually_approved"})'
                    /\ orders'[o].status \in Closed \cup {"payment_review"} => Logged(o, Actions)'
  BY DEF OutcomeExplained
<1>1. CompleteFor(o)' = CompleteFor(o) /\ audit' = audit \cup tx[r].audit
  BY CommitRows
<1>2. CASE orders'[o] = orders[o]
  BY <1>1, <1>2 DEF IInv, OutcomeExplained, Logged
<1>3. CASE orders'[o] = tx[r].orders[o] /\ LegalWrite(tx[r], o)
  <2>1. \A a \in tx[r].audit : a.action \in Actions
    BY CommitRows DEF SessionOK, Activity
  <2>2. orders'[o].status = "approved" =>
          CompleteFor(o) # {} \/ \E a \in tx[r].audit : a.order = o /\ a.to = "approved"
                                                   /\ a.action = "order_manually_approved"
    BY <1>3, SMTT(30) DEF LegalWrite, Open, Closed
  <2>3. orders'[o].status \in Closed \cup {"payment_review"} =>
          \E a \in tx[r].audit : a.order = o /\ a.to = orders'[o].status
    BY <1>3 DEF LegalWrite, Open, Closed
  <2> QED BY <1>1, <2>1, <2>2, <2>3 DEF Logged
<1> QED BY <1>2, <1>3, CommitMoves

\* A launch through the event form, and a row flushed after it, respect the gate.
LEMMA CommitLaunchGate ==
  ASSUME IInv, NEW r \in Reqs, Commit(r)
  PROVE  LaunchGate'
<1> SUFFICES ASSUME NEW e \in Events, eventStatus'[e] = "live", launchedBy'[e] = "update_event"
             PROVE  \A o \in OrdersOf(e, Open)' : orders'[o].source # "event_creation"
  BY DEF LaunchGate
<1>1. launchedBy'[e] = IF e \in DOMAIN tx[r].status /\ tx[r].status[e] = "live"
                       THEN tx[r].op ELSE launchedBy[e]
  BY DEF Commit
<1>2. LegalLaunch(tx[r])
  BY CommitRows DEF LegalSession
<1>3. Exists(e) /\ \A o \in OrdersOf(e, Open) : orders[o].source # "event_creation"
  BY <1>1, <1>2, CommitRows DEF LegalLaunch, IInv, LaunchGate, Exists
<1> QED BY <1>3, CommitLaunch

\* Commit keeps the invariant.
LEMMA CommitStep ==
  ASSUME IInv, NEW r \in Reqs, Commit(r)
  PROVE  IInv'
BY CommitTypes, CommitIsolated, CommitRowsOK, CommitKeepsSessions, CommitOneOpenOrder,
   CommitFormMatchesOrder, CommitAckedSettled, CommitOutcomeExplained, CommitLaunchGate DEF IInv
----------------------------------------------------------------------------
\* The initial rows satisfy the invariant.
LEMMA InitIInv == Init => IInv
<1> SUFFICES ASSUME Init PROVE IInv
  OBVIOUS
<1>1. AbsentOrder \in Order /\ AbsentOrder.status = "absent"
  BY ConstantsAssumption DEF AbsentOrder, Order, OrderStatuses
<1>2. \A o \in Orders : orders[o].status = "absent"
  BY <1>1 DEF Init
<1>3. \A r \in Reqs : tx[r] = Idle
  BY DEF Init
<1>4. TypeOK
  <2>1. /\ eventStatus \in [Events -> EventStatuses] /\ eventPackage \in [Events -> Codes]
        /\ orders \in [Orders -> Order] /\ launchedBy \in [Events -> Ops]
    BY <1>1, ConstantsAssumption DEF Init, EventStatuses, Ops
  <2>2. /\ catalogue \in [Codes -> Config] /\ edits \in 0..MaxEdits
        /\ provider \in [enabled : BOOLEAN, merchant : Merchants]
    <3>1. catalogue \in [Codes -> Config] /\ edits = 0 /\ MaxEdits \in Nat
      BY ConstantsAssumption DEF Init
    <3>2. edits \in 0..MaxEdits
      BY <3>1
    <3>3. provider \in [enabled : {TRUE}, merchant : Merchants]
      BY DEF Init
    <3> QED BY <3>1, <3>2, <3>3
  <2>3. tx = [r \in Reqs |-> tx[r]] /\ \A r \in Reqs : SessionOK(tx[r])
    BY <1>3, IdleFacts DEF Init
  <2>4. audit \subseteq Activity /\ forms \subseteq Form /\ notices \subseteq Notice /\ acked \subseteq Orders
    BY DEF Init
  <2> QED BY <2>1, <2>2, <2>3, <2>4 DEF TypeOK
<1>5. Isolated
  BY <1>3, NoneFacts DEF Isolated, Idle
<1>6. \A r \in Reqs : LegalSession(tx[r])
  BY <1>3, IdleFacts
<1>7. OneOpenOrder /\ LaunchGate /\ FormMatchesOrder /\ AckedSettled
  BY <1>2 DEF OneOpenOrder, OrdersOf, Open, LaunchGate, FormMatchesOrder, AckedSettled, Init
<1>8. RowsOK /\ OutcomeExplained
  BY <1>2 DEF RowsOK, OutcomeExplained, Closed
<1> QED BY <1>4, <1>5, <1>6, <1>7, <1>8 DEF IInv

\* Every step keeps the invariant.
LEMMA NextIInv == IInv /\ [Next]_vars => IInv'
<1> SUFFICES ASSUME IInv, [Next]_vars PROVE IInv'
  OBVIOUS
<1>1. ASSUME NEW r \in Reqs, HostStep(r) PROVE IInv'
  BY <1>1, CreateEventStep, UpdateEventStep, PackageRequestStep, StartCheckoutStep,
     CancelHostOrderStep DEF HostStep
<1>2. ASSUME NEW r \in Reqs, AdminStep(r) PROVE IInv'
  BY <1>2, EventStatusStep, EventPackageStep, ApproveOrderStep, CancelOrderStep, FailOrderStep,
     ActivateReviewedPaymentStep, UpdatePackageStep DEF AdminStep
<1>3. ASSUME NEW r \in Reqs, NotifyStep(r) PROVE IInv'
  BY <1>3, NotifyReceiveStep, NotifyLockStep, NotifyRefuseStep DEF NotifyStep
<1>4. ASSUME NEW r \in Reqs, (\E e \in Events : Leave(r, e)) \/ Commit(r) \/ Close(r) \/ Abort(r)
      PROVE  IInv'
  BY <1>4, LeaveStep, CommitStep, SessionCloseStep, AbortStep
<1>5. ASSUME NEW f \in forms, NEW s \in Outcomes, Settle(f, s) PROVE IInv'
  BY <1>5, SettleStep
<1>6. ASSUME NEW enabled \in BOOLEAN, NEW m \in Merchants, update_payfast_settings(enabled, m)
      PROVE  IInv'
  BY <1>6, UpdatePayfastSettingsStep
<1>7. CASE UNCHANGED vars
  <2>1. /\ notices \subseteq Notice /\ edits \in 0..MaxEdits
        /\ provider \in [enabled : BOOLEAN, merchant : Merchants]
    BY DEF IInv, TypeOK
  <2> QED BY <1>7, <2>1, NoSessionStep DEF vars, payfast, settings
<1> QED BY <1>1, <1>2, <1>3, <1>4, <1>5, <1>6, <1>7 DEF Next

\* The invariant holds in every reachable state.
THEOREM InvariantHolds == Spec => []IInv
BY InitIInv, NextIInv, PTL DEF Spec

\* Every row, session, form and notice keeps its type, for any number of requests.
THEOREM TypeCorrect == Spec => []TypeOK
<1>1. IInv => TypeOK
  BY DEF IInv
<1> QED BY <1>1, InvariantHolds, PTL

\* However many requests interleave, an event never has two orders its host could pay.
THEOREM OneOpenOrderHolds == Spec => []OneOpenOrder
<1>1. IInv => OneOpenOrder
  BY DEF IInv
<1> QED BY <1>1, InvariantHolds, PTL

\* Repricing packages and reusing orders never separates a form from its order.
THEOREM FormMatchesOrderHolds == Spec => []FormMatchesOrder
<1>1. IInv => FormMatchesOrder
  BY DEF IInv
<1> QED BY <1>1, InvariantHolds, PTL

\* A payment whose notice was answered 200 is never lost.
THEOREM AckedSettledHolds == Spec => []AckedSettled
<1>1. IInv => AckedSettled
  BY DEF IInv
<1> QED BY <1>1, InvariantHolds, PTL

\* Every approved or closed order has its payment or its activity row.
THEOREM OutcomeExplainedHolds == Spec => []OutcomeExplained
<1>1. IInv => OutcomeExplained
  BY DEF IInv
<1> QED BY <1>1, InvariantHolds, PTL

\* The event form never launches an event whose first payment is still open.
THEOREM LaunchGateHolds == Spec => []LaunchGate
<1>1. IInv => LaunchGate
  BY DEF IInv
<1> QED BY <1>1, InvariantHolds, PTL
-----------------------------------------------------------------------------
(***************************************************************************)
(* PackageOrders implements OrderBook: only Commit changes an order or an  *)
(* entitlement, and by the invariant every commit is one step of OrderBook *)
(* or leaves its variables alone.                                          *)
(***************************************************************************)

\* Initially no order is placed.
LEMMA BookInit == Init => Book!Init
<1> SUFFICES ASSUME Init PROVE Book!Init
  OBVIOUS
<1>1. AbsentOrder \in Order /\ AbsentOrder.status = "absent"
  BY ConstantsAssumption DEF AbsentOrder, Order, OrderStatuses
<1>2. \A o \in Orders : orders[o] = AbsentOrder
  BY DEF Init
<1>3. \A o \in Orders : [event |-> orders[o].event, package |-> orders[o].package]
                          \in [event : Events, package : Codes]
  BY <1>1, <1>2 DEF Order
<1>4. eventPackage \in [Events -> Codes]
  BY ConstantsAssumption DEF Init
<1> QED BY <1>1, <1>2, <1>3, <1>4 DEF Book!Init

\* Steps that change no order and no entitlement stutter.
LEMMA BookStutter ==
  ASSUME UNCHANGED <<orders, eventPackage>>
  PROVE  [Book!Next]_(Book!vars)
BY DEF Book!vars

\* The mapped orders of an event are its orders.
LEMMA BookOf ==
  ASSUME NEW e, NEW S
  PROVE  Book!Of(e, S) = OrdersOf(e, S)
BY DEF Book!Of, OrdersOf

\* A commit that writes no order grants a package or changes nothing.
LEMMA CommitGrants ==
  ASSUME IInv, NEW r \in Reqs, Commit(r), DOMAIN tx[r].orders = {}
  PROVE  [Book!Next]_(Book!vars)
<1>1. /\ orders \in [Orders -> Order] /\ eventPackage \in [Events -> Codes]
      /\ SessionOK(tx[r]) /\ LegalGrant(tx[r])
  BY CommitRows DEF IInv, TypeOK, LegalSession
<1>2. orders' = orders
  BY <1>1, Zenon DEF Commit, Flush
<1>3. eventPackage' = [d \in Events |-> IF d \in DOMAIN tx[r].package THEN tx[r].package[d]
                                                                     ELSE eventPackage[d]]
  BY <1>1 DEF Commit, Flush
<1>4. CASE DOMAIN tx[r].package = {}
  BY <1>1, <1>2, <1>3, <1>4, BookStutter
<1>5. ASSUME NEW e \in DOMAIN tx[r].package PROVE Book!Next
  <2>1. /\ e \in Events /\ tx[r].package[e] \in Codes /\ DOMAIN tx[r].package = {e}
        /\ OrdersOf(e, Outstanding) = {}
    BY <1>1, <1>5 DEF SessionOK, Partial, LegalGrant
  <2>2. eventPackage' = [eventPackage EXCEPT ![e] = tx[r].package[e]]
    BY <1>1, <1>3, <2>1
  <2>3. Book!Assign(e, tx[r].package[e])
    BY <1>2, <2>1, <2>2, BookOf DEF Book!Assign, Book!Outstanding, Outstanding
  <2> QED BY <2>1, <2>3 DEF Book!Next
<1> QED BY <1>4, <1>5

\* A commit that writes an order is one move of the order.
LEMMA CommitMovesOrder ==
  ASSUME IInv, NEW r \in Reqs, Commit(r), NEW o \in DOMAIN tx[r].orders
  PROVE  Book!Next
<1> DEFINE t  == tx[r]
           w  == tx[r].orders[o]
           st == [x \in Orders |-> orders[x].status]
           od == [x \in Orders |-> [event |-> orders[x].event, package |-> orders[x].package]]
<1>1. /\ orders \in [Orders -> Order] /\ eventPackage \in [Events -> Codes]
      /\ SessionOK(t) /\ LegalWrite(t, o) /\ DOMAIN t.orders = {o} /\ o \in Orders
  BY CommitRows DEF IInv, TypeOK, LegalSession, SessionOK, Partial
<1>2. w \in Order /\ w.event \in Events /\ w.package \in Codes /\ orders[o].event \in Events
  BY <1>1 DEF SessionOK, Partial, Order
<1>3. orders'[o] = w /\ \A x \in Orders \ {o} : orders'[x] = orders[x]
  BY <1>1, CommitRows
<1>4. [x \in Orders |-> orders'[x].status] = [st EXCEPT ![o] = w.status]
  BY <1>1, <1>3
<1>5. [x \in Orders |-> [event |-> orders'[x].event, package |-> orders'[x].package]]
        = [od EXCEPT ![o] = [event |-> w.event, package |-> w.package]]
  BY <1>1, <1>3
<1>6. od[o] = [event |-> orders[o].event, package |-> orders[o].package]
  BY <1>1
<1>7. ASSUME w.event = orders[o].event, w.package = orders[o].package
      PROVE  [x \in Orders |-> [event |-> orders'[x].event, package |-> orders'[x].package]] = od
  BY <1>5, <1>6, <1>7
<1>8. eventPackage' = [d \in Events |-> IF d \in DOMAIN t.package THEN t.package[d]
                                                                  ELSE eventPackage[d]]
  BY <1>1 DEF Commit, Flush
<1>9. ASSUME DOMAIN t.package = {} PROVE eventPackage' = eventPackage
  BY <1>1, <1>8, <1>9, SMTT(30)
<1>10. orders[o].status # "absent" => w.event = orders[o].event
  BY <1>1 DEF LegalWrite
<1>11. CASE /\ orders[o].status = "absent" /\ w.status = "pending"
            /\ OrdersOf(w.event, Open \cup Outstanding) = {} /\ DOMAIN t.package \subseteq {w.event}
  <2>1. Book!Of(w.event, Book!Open \cup Book!Outstanding) = {}
    BY <1>11, BookOf DEF Open, Outstanding, Book!Open, Book!Outstanding
  <2>2. CASE DOMAIN t.package = {}
    <3>1. Book!Place(o, w.event, w.package, eventPackage)
      BY <1>1, <1>4, <1>5, <1>9, <1>11, <2>1, <2>2 DEF Book!Place
    <3> QED BY <1>1, <1>2, <3>1 DEF Book!Next
  <2>3. CASE DOMAIN t.package = {w.event}
    <3>1. t.package[w.event] \in Codes
      BY <1>1, <2>3 DEF SessionOK, Partial
    <3>2. eventPackage' = [eventPackage EXCEPT ![w.event] = t.package[w.event]]
      BY <1>1, <1>2, <1>8, <2>3
    <3>3. PICK e \in Events, c \in Codes, d \in Codes :
            e = w.event /\ c = w.package /\ d = t.package[w.event]
      BY <1>2, <3>1
    <3>4. Book!Place(o, e, c, [eventPackage EXCEPT ![e] = d])
      BY <1>1, <1>4, <1>5, <1>11, <2>1, <3>2, <3>3 DEF Book!Place
    <3> QED BY <1>1, <3>4 DEF Book!Next
  <2> QED BY <1>11, <2>2, <2>3
<1>12. CASE /\ orders[o].status = "pending" /\ w.status \in Open
            /\ OrdersOf(w.event, Outstanding) = {} /\ DOMAIN t.package = {}
            /\ w.status # "pending" => w.package = orders[o].package
  <2>1. Book!Of(od[o].event, Book!Outstanding) = {}
    BY <1>6, <1>10, <1>12, BookOf DEF Outstanding, Book!Outstanding
  <2>2. CASE w.status = "pending"
    <3>1. st[o] = "pending" /\ [st EXCEPT ![o] = w.status] = st
      BY <1>1, <1>12, <2>2
    <3>2. [od EXCEPT ![o] = [event |-> w.event, package |-> w.package]]
            = [od EXCEPT ![o].package = w.package]
      BY <1>6, <1>10, <1>12
    <3>3. PICK c \in Codes : c = w.package
      BY <1>2
    <3>4. Book!Revise(o, c)
      BY <1>4, <1>5, <1>9, <1>12, <2>1, <3>1, <3>2, <3>3 DEF Book!Revise
    <3> QED BY <1>1, <3>4 DEF Book!Next
  <2>3. CASE w.status = "awaiting_payment"
    <3>1. Book!StartPayment(o)
      BY <1>1, <1>4, <1>7, <1>9, <1>10, <1>12, <2>1, <2>3 DEF Book!StartPayment
    <3> QED BY <1>1, <3>1 DEF Book!Next
  <2> QED BY <1>12, <2>2, <2>3 DEF Open
<1>13. CASE /\ orders[o].status \in Open \cup {"payment_review"} /\ w.status = "approved"
            /\ w.package = orders[o].package
            /\ DOMAIN t.package = {w.event} /\ t.package[w.event] = w.package
  <2>1. orders[o].status # "absent"
    BY <1>13 DEF Open
  <2>2. eventPackage' = [eventPackage EXCEPT ![orders[o].event] = orders[o].package]
    BY <1>1, <1>2, <1>8, <1>10, <1>13, <2>1
  <2>3. Book!Approve(o)
    BY <1>1, <1>4, <1>6, <1>7, <1>10, <1>13, <2>1, <2>2 DEF Book!Approve, Open, Book!Open
  <2> QED BY <1>1, <2>3 DEF Book!Next
<1>14. CASE /\ orders[o].status \in Open /\ w.status \in Closed
            /\ w.package = orders[o].package /\ DOMAIN t.package = {}
  <2>1. Book!Close(o)
    BY <1>1, <1>4, <1>7, <1>9, <1>10, <1>14 DEF Book!Close, Open, Book!Open, Closed
  <2> QED BY <1>1, <2>1 DEF Book!Next
<1>15. CASE /\ orders[o].status \in Closed /\ w.status = "payment_review" /\ DOMAIN t.package = {}
  <2>1. w.package = orders[o].package
    BY <1>1, <1>15 DEF LegalWrite, Closed
  <2>2. Book!Quarantine(o)
    BY <1>1, <1>4, <1>7, <1>9, <1>10, <1>15, <2>1 DEF Book!Quarantine, Closed
  <2> QED BY <1>1, <2>2 DEF Book!Next
<1> QED BY <1>1, <1>11, <1>12, <1>13, <1>14, <1>15 DEF LegalWrite

\* Every step of PackageOrders is a step of OrderBook or leaves its variables alone.
LEMMA BookStep == IInv /\ [Next]_vars => [Book!Next]_(Book!vars)
<1> SUFFICES ASSUME IInv, [Next]_vars PROVE [Book!Next]_(Book!vars)
  OBVIOUS
<1>1. ASSUME NEW r \in Reqs, Commit(r) PROVE [Book!Next]_(Book!vars)
  BY <1>1, CommitGrants, CommitMovesOrder
<1>2. ASSUME NEW r \in Reqs, HostStep(r) PROVE [Book!Next]_(Book!vars)
  <2>1. UNCHANGED db
    BY <1>2, ZenonT(30) DEF HostStep, create_event, update_event, package_request, start_checkout,
       cancel_host_order, Begin
  <2> QED BY <2>1, BookStutter DEF db
<1>6. ASSUME NEW r \in Reqs, AdminStep(r) PROVE [Book!Next]_(Book!vars)
  <2>1. UNCHANGED db
    BY <1>6, Zenon DEF AdminStep, event_status, event_package, approve_order, cancel_order,
       fail_order, activate_reviewed_payment, update_package, Begin
  <2> QED BY <2>1, BookStutter DEF db
<1>7. ASSUME NEW r \in Reqs,
             NotifyStep(r) \/ (\E e \in Events : Leave(r, e)) \/ Close(r) \/ Abort(r)
      PROVE  [Book!Next]_(Book!vars)
  <2>1. UNCHANGED db
    BY <1>7, Zenon DEF NotifyStep, NotifyReceive, NotifyLock, NotifyRefuse, Leave, Close, Abort,
       Begin
  <2> QED BY <2>1, BookStutter DEF db
<1>3. ASSUME NEW f \in forms, NEW s \in Outcomes, Settle(f, s) PROVE [Book!Next]_(Book!vars)
  BY <1>3, BookStutter DEF Settle, db
<1>4. ASSUME NEW enabled \in BOOLEAN, NEW m \in Merchants, update_payfast_settings(enabled, m)
      PROVE  [Book!Next]_(Book!vars)
  BY <1>4, BookStutter DEF update_payfast_settings, db
<1>5. CASE UNCHANGED vars
  BY <1>5, BookStutter DEF vars, db
<1> QED BY <1>1, <1>2, <1>3, <1>4, <1>5, <1>6, <1>7 DEF Next

\* The handlers, with their sessions, locks and notices, implement the order book.
THEOREM Implements == Spec => ImplementsOrderBook
<1>1. Init /\ [][Next]_vars /\ []IInv => Book!Init /\ [][Book!Next]_(Book!vars)
  BY BookInit, BookStep, PTL
<1> QED BY <1>1, InvariantHolds, PTL DEF Spec, ImplementsOrderBook, Book!Spec

\* The order book is worth implementing: its steps alone keep one open order.
LEMMA BookKeeps == Book!Promise /\ [Book!Next]_(Book!vars) => Book!Promise'
<1> SUFFICES ASSUME Book!Promise, [Book!Next]_(Book!vars) PROVE Book!Promise'
  OBVIOUS
<1> DEFINE st == [o \in Orders |-> orders[o].status]
           od == [o \in Orders |-> [event |-> orders[o].event, package |-> orders[o].package]]
<1>0. DOMAIN st = Orders /\ DOMAIN od = Orders /\ \A o \in Orders : DOMAIN od[o] = {"event", "package"}
  OBVIOUS
<1>1. ASSUME \A o \in Orders : st'[o] \in Book!Open => st[o] \in Book!Open /\ od'[o].event = od[o].event
      PROVE  Book!Promise'
  BY <1>1, ZenonT(30) DEF Book!Promise, Book!Open
<1>2. ASSUME NEW o \in Orders, NEW e \in Events, NEW c \in Codes, NEW d \in Codes,
             \/ Book!Place(o, e, c, eventPackage)
             \/ Book!Place(o, e, c, [eventPackage EXCEPT ![e] = d])
      PROVE  Book!Promise'
  <2>1. /\ st' = [st EXCEPT ![o] = "pending"]
        /\ od' = [od EXCEPT ![o] = [event |-> e, package |-> c]]
    BY <1>2 DEF Book!Place
  <2>2. \A p \in Orders : od[p].event = e => st[p] \notin Book!Open
    BY <1>2 DEF Book!Place, Book!Of
  <2>3. \A p \in Orders : /\ st'[p] = IF p = o THEN "pending" ELSE st[p]
                          /\ od'[p].event = IF p = o THEN e ELSE od[p].event
    <3> HIDE DEF st, od
    <3> QED
      BY <1>0, <2>1
  <2>4. \A p, q \in Orders : st[p] \in Book!Open /\ st[q] \in Book!Open /\ od[p].event = od[q].event => p = q
    BY DEF Book!Promise
  <2>5. \A p, q \in Orders : st'[p] \in Book!Open /\ st'[q] \in Book!Open /\ od'[p].event = od'[q].event => p = q
    <3> HIDE DEF st, od
    <3> QED
      BY <2>2, <2>3, <2>4 DEF Book!Open
  <2> QED
    BY <2>5 DEF Book!Promise
<1>3. ASSUME NEW o \in Orders, NEW c \in Codes, Book!Revise(o, c)
      PROVE  Book!Promise'
  <2>1. st' = st /\ od' = [od EXCEPT ![o].package = c]
    BY <1>3 DEF Book!Revise
  <2>2. \A p \in Orders : st'[p] = st[p] /\ od'[p].event = od[p].event
    <3> HIDE DEF st, od
    <3> QED
      BY <1>0, <2>1
  <2> QED
    BY <1>1, <2>2
<1>4. ASSUME NEW o \in Orders,
             Book!StartPayment(o) \/ Book!Approve(o) \/ Book!Close(o) \/ Book!Quarantine(o)
      PROVE  Book!Promise'
  <2>1. od' = od /\ \E s \in {"awaiting_payment", "approved", "cancelled", "failed", "payment_review"} :
          /\ st' = [st EXCEPT ![o] = s]
          /\ s \in Book!Open => st[o] \in Book!Open
    BY <1>4 DEF Book!StartPayment, Book!Approve, Book!Close, Book!Quarantine, Book!Open
  <2>2. \A p \in Orders : st'[p] \in Book!Open => st[p] \in Book!Open /\ od'[p].event = od[p].event
    <3> HIDE DEF st, od
    <3> QED
      BY <1>0, <2>1
  <2> QED
    BY <1>1, <2>2
<1>5. ASSUME NEW e \in Events, NEW c \in Codes, Book!Assign(e, c)
      PROVE  Book!Promise'
  <2>1. st' = st /\ od' = od
    BY <1>5 DEF Book!Assign
  <2> QED
    BY <1>1, <2>1
<1>6. CASE UNCHANGED Book!vars
  <2>1. st' = st /\ od' = od
    BY <1>6 DEF Book!vars
  <2> QED
    BY <1>1, <2>1
<1> HIDE DEF st, od
<1> QED BY <1>2, <1>3, <1>4, <1>5, <1>6 DEF Book!Next

\* Any order book keeps its promise.
THEOREM BookPromises == Book!Spec => []Book!Promise
<1>1. Book!Init => Book!Promise
  BY DEF Book!Init, Book!Promise, Book!Open
<1> QED BY <1>1, BookKeeps, PTL DEF Book!Spec

\* So do the handlers: whatever is placed, revised, closed or paid, an event has one open order.
THEOREM BookKeepsPromise == Spec => []Book!Promise
BY Implements, BookPromises DEF ImplementsOrderBook
=============================================================================
