----------------------------- MODULE MCDeliveries -----------------------------
(* The two outboxes for TLC, one of them in each behaviour: the other stays *)
(* empty, none of its steps is enabled, and its fairness asks nothing.      *)
(*                                                                          *)
(* EventDelivery: a sell and a buy order of two shares in one scope, one    *)
(* broker order that either may be bound to, and three messages, two of     *)
(* them with one event id and one of those under a client order id of       *)
(* another system.                                                          *)
EXTENDS EventDelivery, AlertDelivery, TLC

CONSTANTS o1, o2, b1, e1, e2, s1, p1, p2, t1, w1, w2, foreign

OneScope == [o \in {o1, o2} |-> s1]
Totals == [o \in {o1, o2} |-> 2]
Sides == [o \in {o1, o2} |-> o = o2]

Message(e, c, k, q, n) == [id |-> e, broker |-> b1, client |-> c, kind |-> k,
                           quantity |-> q, scope |-> s1, seq |-> n]

BrokerFeed == { Message(e1, o1, "FILL", 1, 1),
                Message(e2, foreign, "FILL", 1, 2),
                Message(e2, o2, "ACKNOWLEDGED", 0, 3) }

VARIABLE running

deliveriesVars == <<vars, alertVars, running>>

DeliveriesInit == Init /\ AlertsInit /\ running \in {"events", "alerts"}

DeliveriesNext ==
  \/ running = "events" /\ Next /\ UNCHANGED <<alertVars, running>>
  \/ running = "alerts" /\ AlertsNext /\ UNCHANGED <<vars, running>>

DeliveriesSpec ==
  DeliveriesInit /\ [][DeliveriesNext]_deliveriesVars /\ EventsFairness /\ AlertsFairness
=============================================================================
