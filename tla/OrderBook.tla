----------------------------- MODULE OrderBook -----------------------------
(***************************************************************************)
(* What the order handlers promise, with no sessions, locks or messages:   *)
(* every change of an order is one legal move, at most one order of an     *)
(* event is open, a package is sold only while no payment of the event is  *)
(* outstanding, and an order becomes approved in the very step that gives  *)
(* its event the package that was ordered.                                 *)
(***************************************************************************)
CONSTANTS Events, Orders, Codes

VARIABLES
  status,    \* the status of each order, "absent" before it is placed
  ordered,   \* the event and package each order is for
  entitled   \* the package each event has

vars == <<status, ordered, entitled>>

Open        == {"pending", "awaiting_payment"}
Outstanding == {"awaiting_payment", "paid", "payment_review"}
Of(e, S)    == {o \in Orders : ordered[o].event = e /\ status[o] \in S}

Place(o, e, c, granted) ==
  /\ status[o] = "absent"
  /\ Of(e, Open \cup Outstanding) = {}
  /\ status'   = [status EXCEPT ![o] = "pending"]
  /\ ordered'  = [ordered EXCEPT ![o] = [event |-> e, package |-> c]]
  /\ entitled' = granted

Revise(o, c) ==
  /\ status[o] = "pending"
  /\ Of(ordered[o].event, Outstanding) = {}
  /\ ordered' = [ordered EXCEPT ![o].package = c]
  /\ UNCHANGED <<status, entitled>>

StartPayment(o) ==
  /\ status[o] = "pending"
  /\ Of(ordered[o].event, Outstanding) = {}
  /\ status' = [status EXCEPT ![o] = "awaiting_payment"]
  /\ UNCHANGED <<ordered, entitled>>

Approve(o) ==
  /\ status[o] \in Open \cup {"paid", "payment_review"}
  /\ status'   = [status EXCEPT ![o] = "approved"]
  /\ entitled' = [entitled EXCEPT ![ordered[o].event] = ordered[o].package]
  /\ UNCHANGED ordered

Close(o) ==
  /\ status[o] \in Open
  /\ \E s \in {"cancelled", "failed"} : status' = [status EXCEPT ![o] = s]
  /\ UNCHANGED <<ordered, entitled>>

Quarantine(o) ==
  /\ status[o] \in {"cancelled", "failed"}
  /\ status' = [status EXCEPT ![o] = "payment_review"]
  /\ UNCHANGED <<ordered, entitled>>

\* A package given without an order: a free one, or by an admin.
Assign(e, c) ==
  /\ Of(e, Outstanding) = {}
  /\ entitled' = [entitled EXCEPT ![e] = c]
  /\ UNCHANGED <<status, ordered>>

Init ==
  /\ status = [o \in Orders |-> "absent"]
  /\ ordered \in [Orders -> [event : Events, package : Codes]]
  /\ entitled \in [Events -> Codes]

Next ==
  \/ \E o \in Orders :
       \/ \E e \in Events, c, d \in Codes :
            \/ Place(o, e, c, entitled)
            \/ Place(o, e, c, [entitled EXCEPT ![e] = d])
       \/ \E c \in Codes : Revise(o, c)
       \/ StartPayment(o)
       \/ Approve(o)
       \/ Close(o)
       \/ Quarantine(o)
  \/ \E e \in Events, c \in Codes : Assign(e, c)

Spec == Init /\ [][Next]_vars

\* Nobody can pay twice for one event.
Promise ==
  \A o, p \in Orders :
    status[o] \in Open /\ status[p] \in Open /\ ordered[o].event = ordered[p].event => o = p
============================================================================
