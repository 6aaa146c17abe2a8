---------------------------- MODULE OrderLedger ----------------------------
(***************************************************************************)
(* What the live order path promises of each client order id, told without *)
(* workers, crashes, lookups or lost answers: first an intention is        *)
(* written, then at most one order is sent for it, then that order is      *)
(* tracked. Nothing is ever undone, and no broker order serves two ids.    *)
(***************************************************************************)
CONSTANTS ClientIds, BrokerIds, NoBroker

VARIABLE ledger

Stages == {"new", "intended", "sent", "tracked"}

Init == ledger = [c \in ClientIds |-> [stage |-> "new", order |-> NoBroker]]

Intend(c) ==
  /\ ledger[c].stage = "new"
  /\ ledger' = [ledger EXCEPT ![c].stage = "intended"]

Send(c, b) ==
  /\ ledger[c].stage = "intended"
  /\ \A d \in ClientIds : ledger[d].order # b
  /\ ledger' = [ledger EXCEPT ![c] = [stage |-> "sent", order |-> b]]

Track(c) ==
  /\ ledger[c].stage = "sent"
  /\ ledger' = [ledger EXCEPT ![c].stage = "tracked"]

Next == \E c \in ClientIds :
          \/ Intend(c)
          \/ \E b \in BrokerIds : Send(c, b)
          \/ Track(c)

Spec == Init /\ [][Next]_ledger
=============================================================================
