--------------------------- MODULE OrderIdentity ---------------------------
(* The identities an order has: the one its caller chose, by which every   *)
(* durable store is keyed, and the one the broker assigns.                 *)
CONSTANTS
  ClientIds,    \* client order ids
  BrokerIds,    \* order ids the broker may assign
  NoBroker      \* no broker order
=============================================================================
